---------------------------- MODULE MCMediaReceive ----------------------------
EXTENDS MediaReceive
MCOffsets == {-1, 0, 1, 2, 3, 5}
===============================================================================
