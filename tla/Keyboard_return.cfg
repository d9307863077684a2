\* Return, at the bottom of the screen
SPECIFICATION Spec
CONSTANTS
    Width = 2
    Height = 2
    Texts <- NoText
    MaxPrinted = 0
    Keys <- Return
    WireLength = 1
CHECK_DEADLOCK FALSE
INVARIANTS
    NeverHangs
