SPECIFICATION Spec
CHECK_DEADLOCK FALSE
CONSTANTS
    Bytes = {0, 1, 17, 34, 255}
    Memory <- MCMemory
    MaxNalus = 3
    NaluSizes = {1, 2, 5, 9}
    PayloadMax = {3, 5, 6, 12, 14}
    Reductions = {0, 1, 2}
    DatagramMax = {11, 16, 20, 32, 56, 200}
    NackLists <- MCNackLists
    BlockCount = {0, 1, 2, 31, 32}
    StunBytes = {0, 97}
    Passwords = {3, 4}
    Orders <- MCOrders
INVARIANTS ExtensionsExact PacketsExact FrameExact CompoundExact StunAuthentic AnswerSound
