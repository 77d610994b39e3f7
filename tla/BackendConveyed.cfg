CONSTANTS
    Proc = {sh}
    First = sh
    Faults <- MCNet
    AppExits = FALSE
    MaxLines = 2
SPECIFICATION FairSpec
CHECK_DEADLOCK FALSE
PROPERTY Conveyed
