CONSTANTS
    t1 = t1
    t2 = t2
    t3 = t3
    Threads <- MCThreads
    ModuleSets <- MCModuleSets
    Kinds <- MCKinds
    Panics = {2}
    None = None
SPECIFICATION CacheFairSpec
INVARIANTS
    ReturnedRootIsOwn
    OneTreePerSize
PROPERTIES
    CallsEnd
    CachesAreInvisible
CHECK_DEADLOCK FALSE
