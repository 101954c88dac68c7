---------------------------- MODULE MCIceChannel ----------------------------
EXTENDS IceChannel, TLC
CONSTANTS i1, i2, i3

(* Two candidates of equal priority and a better one.                      *)
MCPriority == i1 :> 1 @@ i2 :> 1 @@ i3 :> 2

(* A path that stays slow, and two that are fast or slow.                  *)
MCRtts == i1 :> {30} @@ i2 :> {5, 30} @@ i3 :> {5, 30}
=============================================================================
