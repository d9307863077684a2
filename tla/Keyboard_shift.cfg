\* The release of one shift while the other is held
SPECIFICATION Spec
CONSTANTS
    Width = 2
    Height = 2
    Texts <- NoText
    MaxPrinted = 0
    Keys <- ShiftsAndDelete
    WireLength = 4
CHECK_DEADLOCK FALSE
INVARIANTS
    HeldShiftIsKnown
