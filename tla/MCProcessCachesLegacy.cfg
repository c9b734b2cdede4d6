CONSTANTS
    t1 = t1
    t2 = t2
    t3 = t3
    Threads <- MCTwoThreads
    ModuleSets <- LegacyModuleSets
    Kinds <- LegacyKinds
    Panics = {}
    None = None
SPECIFICATION CacheSpec
INVARIANT
    ReturnedRootIsOwn
CHECK_DEADLOCK FALSE
