SPECIFICATION Spec
CONSTANTS
    Family = "one"
    Programs <- MCPrograms
    Columns = 3
    StockTop = 3
    StockBottom = 0
    MaxCheckpoints = 3
    MinSegments = 2
    Edits = {"generate", "stock", "clear", "mode", "exact", "out", "in", "overtake"}
    MaxEdits = 3
INVARIANTS
    PlaybackTypeOK
    FieldIsPrefix
    WarningsAreThePrefixs
    ScreenShowsTheField
PROPERTIES
    SolidCatchesUp
CHECK_DEADLOCK FALSE
