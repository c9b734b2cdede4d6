SPECIFICATION WitnessSpec
CONSTANTS
    P = 11
    B = 10
    N = 7
    Bits = 3
    Limb = 2
    Limbs = 2
    Gen <- Generator
    Inputs <- AllInputs
INVARIANTS
    OnlyExceptionalRefused
    NativeIsEcdsa
    CircuitsAgreeWithNative
    CircuitsBindFinal
