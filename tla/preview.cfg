SPECIFICATION Spec
CONSTANTS
    Family = "all"
    MaxOps = 3
    MaxGenerates = 2
    Setups <- MCSetups
    Operations <- MCOperations
INVARIANTS
    PreviewTypeOK
    RunsAsPlanned
    PreviewIsTheRun
    EstimateIsTheRun
CHECK_DEADLOCK FALSE
