CONSTANTS
    Thread = {t1, t2}
    MaxFd = 3
    MaxOutages = 1
    NoThread = NoThread
SPECIFICATION FairSpec
CHECK_DEADLOCK FALSE
INVARIANTS NoStaleFd NoneMissed
PROPERTIES CallsReturn
