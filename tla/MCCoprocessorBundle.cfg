SPECIFICATION Spec
CONSTANTS
    Cases <- AllCases
    PadLen <- PadLens
    RowLen = 8
INVARIANTS
    HonestIsAccepted
    AcceptedIsOnePoint
    AcceptedIsPublished
    AcceptedMacIsOverSigned
    AcceptedIsIntended
