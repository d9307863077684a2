\* Pushing until there is no memory
SPECIFICATION Spec
CONSTANTS
    a = a
    b = b
    Blocks = 7
    Values <- TwoValues
    Formats <- NoFormats
CHECK_DEADLOCK FALSE
INVARIANTS
    PushReturns
