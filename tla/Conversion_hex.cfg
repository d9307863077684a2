\* Words of two bytes
SPECIFICATION Spec
CONSTANTS
    Ints <- SomeInts
    Words <- SomeWords
    Bytes = 2
    Digits <- SomeDigits
    Levels <- UpToDebug
    LogLine = 245
INVARIANTS
    StoresInBuffer
