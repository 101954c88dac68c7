SPECIFICATION Spec
CONSTANTS
    Servers <- MCServers
    Pushers = {"pusher"}
    Pullers = {"puller"}
    Patient = TRUE
    Devices = {"mic", "camera", "desktop"}
    MaxCalls = 5
    MaxCaptures = 2
    MaxLost = 1
    MaxUnnamed = 1
    MaxStats = 1
INVARIANTS ViewsAgree StoppedDeviceIsOff
PROPERTY EveryStartReported
CHECK_DEADLOCK FALSE
