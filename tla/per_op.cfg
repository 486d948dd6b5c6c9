CONSTANTS
    t1 = t1
    t2 = t2
    s1 = s1
    s2 = s2
    NoTool = NoTool
    Off = Off
    Tools <- MCTools
    Spins <- MCSpins
    ToolCoolant <- MCCoolant
    Projects <- PerOpProjects
    Oversized <- MCOversized
    CacheCapacity = 0
    MaxGenerates = 1
SPECIFICATION Spec
CHECK_DEADLOCK FALSE
INVARIANT TypeOK
INVARIANT PostIsRight
INVARIANT HeldTool
INVARIANT CountIsExact
PROPERTY FollowsProtocol
PROPERTY EveryGenerateEnds
