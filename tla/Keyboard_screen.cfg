\* The user types while the kernel prints
SPECIFICATION Spec
CONSTANTS
    Width = 2
    Height = 2
    Texts <- Line
    MaxPrinted = 1
    Keys <- AllMoving
    WireLength = 2
CHECK_DEADLOCK FALSE
INVARIANTS
    TypeOK
    CursorBounded
