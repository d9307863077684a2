\* Strings with a line end inside, as kern.c:95 prints
SPECIFICATION Spec
CONSTANTS
    Width = 4
    Height = 3
    Texts <- TwoLines
    MaxPrinted = 10
    Keys <- NoKeys
    WireLength = 0
CHECK_DEADLOCK FALSE
INVARIANTS
    TextInOrder
