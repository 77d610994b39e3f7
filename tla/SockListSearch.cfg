CONSTANTS
    Thread = {t1, t2}
    MaxFd = 3
    MaxOutages = 0
    NoThread = NoThread
SPECIFICATION Spec
CHECK_DEADLOCK FALSE
PROPERTY IsInListRight
