CONSTANTS
    Fields <- MCFields
    Values <- MCValues
    Commands <- MCFewCommands
    NoKey = NoKey
    NoTransaction = NoTransaction
    MaxDepth = 1
    CoalesceMs = 1
    None = None
    Flipped <- MCFlipped
    ProjectFiles <- MCOneDrawing
    PathOf <- MCPathOf
    Reread <- MCReread
    AutoPlaced <- MCAutoPlaced
    Scenes = {{"open", "regenerate"}, {"reload"}}
    MaxResets = 2
SPECIFICATION SessionSpec
INVARIANTS OneRunAtATime BusyWhileRunning DialectIsCurrent
PROPERTIES RunsEnd
CHECK_DEADLOCK FALSE
