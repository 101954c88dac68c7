--------------------------- MODULE MCLockFreeQueue ---------------------------
EXTENDS LockFreeQueue
=============================================================================
