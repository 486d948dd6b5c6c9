SPECIFICATION Spec
CONSTANTS
    Family = "two"
    Programs <- MCPrograms
    Columns = 3
    StockTop = 3
    StockBottom = 0
    MaxCheckpoints = 2
    MinSegments = 2
    Edits = {"generate", "mode", "exact", "out", "in"}
    MaxEdits = 3
INVARIANT WarningsAreThePrefixs
CHECK_DEADLOCK FALSE
