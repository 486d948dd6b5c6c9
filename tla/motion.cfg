SPECIFICATION Spec
CONSTANTS
    FastZ = 5
    Family = "all"
    Cuts <- MCCuts
INVARIANTS
    MotionTypeOK
    TabsHold
    FloorIsFlat
PROPERTIES
    CutsFollowTheContour
    BiteIsOneStep
    FeedFits
