CONSTANTS
    Fields <- MCFields
    Values <- MCValues
    Commands <- MCCommands
    NoKey = NoKey
    NoTransaction = NoTransaction
    MaxDepth = 2
    CoalesceMs = 1
SPECIFICATION Spec
INVARIANT EditedIsDirty
PROPERTY ImplementsUndoLog
