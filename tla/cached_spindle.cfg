CONSTANTS
    t1 = t1
    t2 = t2
    s1 = s1
    s2 = s2
    NoTool = NoTool
    Off = Off
    Tools <- MCTools
    Spins <- MCSpins
    ToolCoolant <- MCCoolant
    Projects <- ReorderedProjects
    Oversized <- MCOversized
    CacheCapacity = 4
    MaxGenerates = 2
SPECIFICATION Spec
CHECK_DEADLOCK FALSE
PROPERTY FollowsProtocol
