SPECIFICATION Spec
CONSTANTS
    Publics <- DefaultPublics
    Births <- DefaultBirths
INVARIANTS
    AcceptedIsOldEnough
    OutcomeIsAge
CHECK_DEADLOCK FALSE
