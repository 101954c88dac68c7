SPECIFICATION ConnSpec
CONSTANTS
    HeadSize = 3
    BodyLens = {0, 1, 2, 4}
    DoneMark = 9
    MaxBytes = 9
    MaxHandled = 2
    ConnectionTimeout = 5000
    Tick = 25000
    Period = 100000
INVARIANTS FramingExact 
CHECK_DEADLOCK FALSE
