------------------------------- MODULE IceLink -------------------------------
(***************************************************************************)
(* What an IceTransportChannel shows to the layers above it, and what they *)
(* may rely on: whether it is writable, and its IceTransportState, which   *)
(* is a function of four facts.  IceChannel is shown to implement          *)
(* LinkStep; PeerTransport is built on LinkStep alone.                     *)
(***************************************************************************)

IceTransportState == {"new", "checking", "connected", "disconnected", "failed"}

(* _compute_ice_transport_state.                                           *)
ComputeIceTransportState(had, active, ever, writable) ==
    IF had /\ ~active THEN "failed"
    ELSE IF ever /\ ~writable THEN "disconnected"
    ELSE IF ~had /\ ~active THEN "new"
    ELSE IF active /\ ~writable THEN "checking"
    ELSE "connected"

LinkType ==
    [had : BOOLEAN,       \* had_connection_
     active : BOOLEAN,    \* some IceConnection has not timed out
     ever : BOOLEAN,      \* has_been_connection_
     writable : BOOLEAN,  \* writable_
     state : IceTransportState]

NewLink ==
    [had |-> FALSE, active |-> FALSE, ever |-> FALSE, writable |-> FALSE,
     state |-> "new"]

(* A link is writable only through an active connection, remembers that it *)
(* had one and that it was writable, and its state is always up to date.   *)
LinkOK(l) ==
    /\ l.writable => l.active /\ l.ever
    /\ l.active => l.had
    /\ l.ever => l.had
    /\ l.state = ComputeIceTransportState(l.had, l.active, l.ever, l.writable)

LinkStep(l, m) ==
    /\ LinkOK(m)
    /\ l.had => m.had
    /\ l.ever => m.ever
    /\ m.ever => l.ever \/ m.writable

(* From l to m the channel is no longer failed; from m to l it fails.      *)
Revives(l, m) == l.state = "failed" /\ m.state # "failed"

Links == {l \in LinkType : LinkOK(l)}
=============================================================================
