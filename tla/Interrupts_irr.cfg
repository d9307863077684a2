\* The request registers of both controllers, as pic_get_irr reads them
SPECIFICATION Spec
CONSTANTS
    Lines <- SomeLines
    Handled <- Described
    Levels <- NoLogToTrace
    MaxSleep = 1
    QuietBoot = TRUE
CHECK_DEADLOCK FALSE
INVARIANTS
    IrrIsCombined
