--------------------------- MODULE MCSignalingPath ---------------------------
EXTENDS SignalingPath, TLC
CONSTANTS c1, c2, c3, a1, a2, a3, r1, r2, s1, s2
MCShard == s1 :> r1 @@ s2 :> r2

MCSymmetry == Permutations({c1, c2, c3}) \cup Permutations({a1, a2, a3})
MCShardOne == s1 :> r1
=============================================================================
