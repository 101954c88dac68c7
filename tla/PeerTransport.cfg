SPECIFICATION Spec
CONSTANTS
    t1 = t1  t2 = t2
    Transports = {t1, t2}
SYMMETRY Symmetry
INVARIANTS ReportsSound HandshakeNotStuck MediaPathSound
CHECK_DEADLOCK FALSE
