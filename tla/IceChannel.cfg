SPECIFICATION FairSpec
CONSTANTS
    i1 = i1  i2 = i2  i3 = i3  null = null
    Ids = {i1, i2, i3}
    Priority <- MCPriority
    Rtts <- MCRtts
INVARIANT SelectionSound
PROPERTIES ImplementsLink SwitchesToReady GonePeerFails
CHECK_DEADLOCK FALSE
