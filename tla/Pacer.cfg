SPECIFICATION Spec
CONSTANTS
    Ssrcs <- MCSsrcs
    MaxLeadingSize = 50
    PriorityOf <- MCPriorityOf
    SizeOf <- MCSizeOf
    MaxPackets <- MCMaxPackets
    PacingBitrate = 80
    QueueTimeLimit = 200
    HoldBackWindow = 1
    Ticks = {5, 80}
    LastPost = 5
    MaxGap = 5
    MaxTasks = 2
    MaxStarts = 2
INVARIANTS PacedRate QueueSound
PROPERTY EverythingSent
