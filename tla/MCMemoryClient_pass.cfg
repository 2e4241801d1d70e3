SPECIFICATION Spec
CONSTANTS
    Requests = {1, 2, 3}
    MaxAttempts = 2
CONSTRAINT MCBound
INVARIANTS
    EveryRequestEndsOnce
    ContextIsOfThisText
PROPERTIES
    ExecutesOncePerPreview
CHECK_DEADLOCK FALSE
