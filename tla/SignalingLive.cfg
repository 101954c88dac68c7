SPECIFICATION FairSpec
CONSTANTS
    c1 = c1  c2 = c2  c3 = c3
    a1 = a1  a2 = a2  a3 = a3
    r1 = r1  r2 = r2
    s1 = s1  s2 = s2
    null = null
    Conns = {c1, c2}
    Fds = {2, 5}
    EarlierFds = {1}
    Addrs = {a1, a2}
    SigWorkerNum = 1
    RtcWorkers = {r1, r2}
    Streams = {s1, s2}
    Shard <- MCShard
    PipeCap = 1
INVARIANT ConnectionsSound
PROPERTY EveryRequestAnswered
CHECK_DEADLOCK FALSE
