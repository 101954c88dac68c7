SPECIFICATION Spec
CONSTANTS
    SeqSpace = 20
    MaxNackRetries = 3
    MaxPacketAge = 4
    MaxNackPackets = 2
    MaxReordering = 2
    NumBuckets = 2
    Rtt = 1
    MaxReorderingThreshold = 3
    MaxReportBlocks = 1
    PayloadTypeFrequency = 0
    ReportInterval = 2
    Durations = {1}
    KeyFrameLead = 0
    MaxAge = 0
    HasRtx = TRUE
    FirstSeqNum = 18
    Offsets <- MCOffsets
    KeyFrameFlags = {FALSE, TRUE}
    MaxArrivals = 4
    MaxOthers = 1
INVARIANTS NackListSound ReceptionReported NacksAreMissing
PROPERTY AskedOncePerRtt
CHECK_DEADLOCK FALSE
