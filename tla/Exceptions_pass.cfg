\* Breakpoints on instructions
SPECIFICATION Spec
CONSTANTS
    Program <- Loop
    Slots <- TwoSlots
    Kinds <- Exec
CHECK_DEADLOCK FALSE
PROPERTIES
    Progress
    NoneMissed
