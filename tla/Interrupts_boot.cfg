\* The timer expires while _start still prepares the controllers
SPECIFICATION FairSpec
CONSTANTS
    Lines <- TimerAndKeyboard
    Handled <- Described
    Levels <- NoLogToTrace
    MaxSleep = 1
    QuietBoot = FALSE
CHECK_DEADLOCK FALSE
PROPERTIES
    TimerKeepsTicking
