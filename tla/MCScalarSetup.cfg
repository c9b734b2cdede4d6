SPECIFICATION Spec
CONSTANTS
    N = 491
    C = 2
    B = 16
    LimbBits = 4
    K = 3
    KS = 2
    TopB = 2
    P = 2003
    Inputs <- AllInputs
INVARIANTS
    AcceptedScalarsAreBound
    HonestSetupProves
CHECK_DEADLOCK FALSE
