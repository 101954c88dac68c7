SPECIFICATION Spec
CONSTANTS
    i1 = i1  i2 = i2  i3 = i3  i4 = i4
    u1 = u1  u2 = u2  n1 = n1  null = null
    Ids = {i1, i2, i3, i4}
    Uids = {u1, u2}
    Names = {n1}
SYMMETRY Symmetry
INVARIANTS TablesSound NoCallbackIntoFreed MediaStaysInStream
PROPERTY FailureIsLocal
CHECK_DEADLOCK FALSE
