CONSTANTS
    t1 = t1
    t2 = t2
    s1 = s1
    s2 = s2
    NoTool = NoTool
    Off = Off
    Tools <- MCTools
    Spins <- MCSpins
    ToolCoolant <- MCCoolant
    Projects <- CachedProjects
    Oversized <- MCOversized
    CacheCapacity = 2
    MaxGenerates = 2
SPECIFICATION Spec
CHECK_DEADLOCK FALSE
INVARIANT CutsWithItsTool
INVARIANT SwapsAreStopped
INVARIANT HitIsFresh
INVARIANT WarningsAreComplete
INVARIANT CacheIsSound
