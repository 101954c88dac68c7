SPECIFICATION FairSpec
CONSTANTS
    Values = {v1, v2}
    MaxNodes = 5
    nil = nil
INVARIANT NoUseAfterFree
PROPERTIES ImplementsFifo EverythingDelivered
CHECK_DEADLOCK FALSE
