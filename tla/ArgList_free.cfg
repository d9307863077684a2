\* kern.c frees its list after kprintf
SPECIFICATION Spec
CONSTANTS
    a = a
    b = b
    Blocks = 7
    Values <- TwoValues
    Formats <- SomeFormats
CHECK_DEADLOCK FALSE
INVARIANTS
    FreedOnce
