\* Lists that are pushed to, printed and flushed
SPECIFICATION Spec
CONSTANTS
    a = a
    b = b
    Blocks = 8
    Values <- TwoValues
    Formats <- SomeFormats
CHECK_DEADLOCK FALSE
INVARIANTS
    NoDangling
    NoOtherLeak
PROPERTIES
    IsFifo
    OnlyCallerFreesTwice
