\* Breakpoints on instructions and on stores
SPECIFICATION Spec
CONSTANTS
    Program <- Loop
    Slots <- TwoSlots
    Kinds <- ExecAndStore
CHECK_DEADLOCK FALSE
PROPERTIES
    NoneMissed
