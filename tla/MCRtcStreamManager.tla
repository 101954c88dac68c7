------------------------- MODULE MCRtcStreamManager -------------------------
EXTENDS RtcStreamManager, TLC
CONSTANTS i1, i2, i3, i4, u1, u2, n1

Symmetry == Permutations({i1, i2, i3, i4}) \cup Permutations({u1, u2})
=============================================================================
