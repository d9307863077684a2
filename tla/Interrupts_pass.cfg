\* Interrupts at any time after pic_remap
SPECIFICATION FairSpec
CONSTANTS
    Lines <- SomeLines
    Handled <- Described
    Levels <- NoLogToTrace
    MaxSleep = 2
    QuietBoot = TRUE
CHECK_DEADLOCK FALSE
INVARIANTS
    TypeOK
    TimerNeverLost
    KeyNeverLost
    OnlyStrayStuck
PROPERTIES
    TimerKeepsTicking
    SleepReturns
    Served
