CONSTANTS
    Credentials <- MCCredentials
    Policies <- MCPolicies
    Builds <- MCBuilds
    Revocations <- MCRevocations
    Messages <- MCMessages
    Cells <- MCCells
    Hash <- MCHash
    DigestLen = 3
    IdLen = 2
SPECIFICATION Spec
CONSTRAINT Supplied
INVARIANTS
    ItemsAreIssued
    PredicatesHold
    ValidOnPolicyDate
    SignedByDeviceKey
    NotRevoked
    HonestIsAccepted
CHECK_DEADLOCK FALSE
