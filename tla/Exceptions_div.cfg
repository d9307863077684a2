\* A division by zero, and any flags; both are violated (-continue shows both)
SPECIFICATION Spec
CONSTANTS
    Program <- Loop
    Slots <- TwoSlots
    Kinds <- Exec
CHECK_DEADLOCK FALSE
INVARIANTS
    AtInstruction
    FlagsFound
