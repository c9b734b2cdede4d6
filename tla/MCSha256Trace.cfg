SPECIFICATION Spec
CONSTANTS
    x = x
    y = y
    Rounds <- MCRounds
    MessageRow <- MCMessageRow
    Blocks <- MCBlocks
    Messages <- MCMessages
    Exposures <- MCExposures
    Sizes <- MCSizes
    Hashes <- MCHashes
    Counters <- MCCounters
INVARIANTS
    OneDigest
    ExposedBytesAreHashed
    OneValuePerTarget
    HonestTraceProves
PROPERTIES
    HonestRowsAdmitted
CHECK_DEADLOCK FALSE
