\* Lines printed while the right shift and an extended key are typed
SPECIFICATION Spec
CONSTANTS
    Width = 3
    Height = 3
    Texts <- OneLine
    MaxPrinted = 12
    Keys <- RightAndDelete
    WireLength = 4
CHECK_DEADLOCK FALSE
INVARIANTS
    TextInOrder
    NoStuckShift
