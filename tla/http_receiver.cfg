SPECIFICATION FairSpec
CONSTANTS
    Modulus = 8
    Limits = {0, 1, 3, 5, 7}
    MaxFrame = 3
    MaxBytes = 12
INVARIANTS EndsOnce EndsAtLimit
PROPERTIES ImplementsReceiver WaiterExits
CHECK_DEADLOCK FALSE
