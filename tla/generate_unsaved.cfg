CONSTANTS
    Fields <- MCFields
    Values <- MCValues
    Commands <- MCFewCommands
    NoKey = NoKey
    NoTransaction = NoTransaction
    MaxDepth = 1
    CoalesceMs = 1
    None = None
    Flipped <- MCFlipped
    ProjectFiles <- MCOneDrawing
    PathOf <- MCPathOf
    Reread <- MCReread
    AutoPlaced <- MCAutoPlaced
    Scenes = {{"open"}}
    MaxResets = 1
SPECIFICATION SessionSpec
PROPERTIES GenerateKeepsUnsaved
CHECK_DEADLOCK FALSE
