SPECIFICATION Spec
CONSTANTS
    N = 46337
    C = 3
    W = 46340
    MaxUse = 7
    XCoord <- AllX
    InverseOf <- AllInverses
    Inputs <- AllInputs
INVARIANT ReferenceIsEcdsa
