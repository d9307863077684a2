\* Every conversion, while handlers log at the level DEBUG
SPECIFICATION Spec
CONSTANTS
    Ints <- SomeInts
    Words <- SomeWords
    Bytes = 2
    Digits <- SomeDigits
    Levels <- UpToDebug
    LogLine = 245
INVARIANTS
    PrintedRight
