----------------------------- MODULE IceChannel -----------------------------
(***************************************************************************)
(* ice/ice_transport_channel.cpp with ice/ice_controller.cpp and           *)
(* ice/ice_connection.cpp: the IceConnections of one IceTransportChannel,  *)
(* which of them is selected, and the state the channel reports.           *)
(*                                                                         *)
(* Both the channel and its IceController keep a selected_connection_.     *)
(* Connections are numbered by address: a deleted one may leave its number *)
(* to the next one, and a pointer to it then points to the new connection. *)
(* Time is left out: the steps that need a number of unanswered pings and  *)
(* a time to pass may happen whenever a ping is unanswered.                *)
(*                                                                         *)
(* A step is one change of a connection with the sort it sets off, because *)
(* the layers above are told after each of them.  One callback may make    *)
(* several: callback says which one is running, and no other begins before *)
(* it has ended.  The answer is made in one callback, which also passes    *)
(* the parameters of the offer on (set_remote_ice_params, before there is  *)
(* a connection), if it has any for this channel.                          *)
(***************************************************************************)
EXTENDS Integers, FiniteSets, IceLink

CONSTANTS
    Ids,             \* addresses of IceConnection objects
    Priority,        \* [Ids -> Nat]: IceConnection::priority()
    Rtts,            \* [Ids -> values the moving average rtt_ takes (ms)]
    null

ASSUME PriorityAssumption == Priority \in [Ids -> Nat]
ASSUME RttsAssumption == Rtts \in [Ids -> SUBSET Nat]
ASSUME NullAssumption == null \notin Ids

InitialRtt == 3000
KMinImprovement == 10

AnyRtt == (UNION {Rtts[c] : c \in Ids}) \cup {InitialRtt}

VARIABLES
    conn,     \* [Ids -> IceConnection or null]
    channel,  \* the fields of IceTransportChannel and IceController
    callback, \* the callback that is running
    gone      \* the peer has stopped answering for good

vars == <<conn, channel, callback, gone>>

WriteState == {"writable", "unreliable", "init", "timeout"}
Rank == [writable |-> 0, unreliable |-> 1, init |-> 2, timeout |-> 3]

ConnType ==
    [write : WriteState, receiving : BOOLEAN, rtt : AnyRtt,
     unanswered : BOOLEAN,   \* pings_since_last_response_ is not empty
     pingable : BOOLEAN]     \* the remote username and password are not empty

ASSUME NullConnAssumption == null \notin ConnType

NewConn(p) == [write |-> "init", receiving |-> FALSE, rtt |-> InitialRtt,
               unanswered |-> FALSE, pingable |-> p]

ChannelType ==
    [selected : Ids \cup {null},     \* IceTransportChannel::selected_connection_
     ctlSelected : Ids \cup {null},  \* IceController::selected_connection_
     remote : BOOLEAN,               \* remote_ice_params_ are set
     pinging : BOOLEAN,              \* start_pinging_
     had : BOOLEAN, ever : BOOLEAN, writable : BOOLEAN,
     state : IceTransportState]

(* update: on_check_and_ping is updating now, or has still to update due;  *)
(* response: received_ping_response of now has to set the write state.     *)
CallbackType ==
    [run : {"none", "update", "response"}, now : Ids \cup {null}, due : SUBSET Ids]

NoCallback == [run |-> "none", now |-> null, due |-> {}]

TypeOK ==
    /\ conn \in [Ids -> ConnType \cup {null}]
    /\ channel \in ChannelType
    /\ callback \in CallbackType
    /\ gone \in BOOLEAN

Init ==
    /\ conn = [c \in Ids |-> null]
    /\ \E r \in BOOLEAN :
          channel = [selected |-> null, ctlSelected |-> null, remote |-> r,
                     pinging |-> FALSE, had |-> FALSE, ever |-> FALSE,
                     writable |-> FALSE, state |-> "new"]
    /\ callback = NoCallback
    /\ gone = FALSE

-----------------------------------------------------------------------------
(* IceController.  cs is a table of connections.                           *)
Alive(cs) == {c \in Ids : cs[c] # null}
Active(cs) == \E c \in Alive(cs) : cs[c].write # "timeout"
Writable(cs, c) == c # null /\ cs[c].write = "writable"

ReadyToSend(cs, c) == cs[c].write \in {"writable", "unreliable"}

(* _compare_connections, then rtt.                                         *)
Better(cs, a, b) ==
    \/ Rank[cs[a].write] < Rank[cs[b].write]
    \/ /\ cs[a].write = cs[b].write
       /\ \/ cs[a].receiving /\ ~cs[b].receiving
          \/ /\ cs[a].receiving = cs[b].receiving
             /\ \/ Priority[a] > Priority[b]
                \/ Priority[a] = Priority[b] /\ cs[a].rtt < cs[b].rtt

Tops(cs) ==
    LET alive == Alive(cs) IN {c \in alive : \A d \in alive : ~Better(cs, d, c)}

(* sort_and_switch_connection: the connections it may return, or null.     *)
(* stale is the set of values selected_connection_->rtt() can have when    *)
(* that object is no longer in the table.                                  *)
SwitchToAnyTop(cs, sel, stale) == Tops(cs)

SortAndSwitch(cs, sel, stale) ==
    LET rtts == IF sel \in Alive(cs) THEN {cs[sel].rtt} ELSE stale
        Pick(t, r) ==
           IF ~ReadyToSend(cs, t) \/ sel = t THEN null
           ELSE IF sel = null \/ cs[t].rtt <= r - KMinImprovement THEN t
           ELSE null
    IN  IF Alive(cs) = {} THEN {null}
        ELSE {Pick(t, r) : t \in Tops(cs), r \in rtts}

(* IceTransportChannel.                                                    *)

(* _switch_selected_connection: only a new selection is passed on to the   *)
(* controller.                                                             *)
SwitchedChannelOnly(ch, c) == [ch EXCEPT !.selected = c]
Switched(ch, c) ==
    [ch EXCEPT !.selected = c, !.ctlSelected = IF c # null THEN c ELSE @]

(* _update_state: writable_ and has_been_connection_, then state_.         *)
UpdatedForgetful(cs, ch) ==
    LET w == Writable(cs, ch.selected) IN
    [ch EXCEPT !.writable = w, !.ever = w,
               !.state = ComputeIceTransportState(ch.had, Active(cs), w, w)]

Updated(cs, ch) ==
    LET w == Writable(cs, ch.selected)
        e == ch.ever \/ w IN
    [ch EXCEPT !.writable = w, !.ever = e,
               !.state = ComputeIceTransportState(ch.had, Active(cs), e, w)]

(* _maybe_start_pinging: has_pingable_connection.  The interval cannot be  *)
(* in the way of the first pingable connection, which was never pinged.    *)
PingingStarted(cs, ch) ==
    [ch EXCEPT !.pinging = @ \/ \E c \in Alive(cs) : cs[c].pingable]

(* _sort_connections_and_update_state: the possible results.               *)
SortedAndUpdated(cs, ch, stale) ==
    {PingingStarted(cs, Updated(cs, IF c = null THEN ch ELSE Switched(ch, c))) :
        c \in SortAndSwitch(cs, ch.ctlSelected, stale)}

(* A connection sends signal_state_change when the field it reports really *)
(* changed; the channel then sorts.                                        *)
Changed(cs1, cs2, ch) ==
    IF cs1 = cs2 THEN {ch} ELSE SortedAndUpdated(cs2, ch, AnyRtt)

-----------------------------------------------------------------------------
Idle == callback.run = "none"

(* _on_unknown_address: a binding request from an address not seen before  *)
(* creates a connection, answers the request, and sorts.  The request      *)
(* names the remote user (who may leave the name empty), and the password  *)
(* is that of remote_ice_params_.                                          *)
UnknownAddress(c) ==
    \E p \in {FALSE, channel.remote} :
       LET cs == [conn EXCEPT ![c] = NewConn(p)] IN
       /\ Idle /\ conn[c] = null /\ ~gone
       /\ conn' = cs
       /\ channel' \in SortedAndUpdated(cs, [channel EXCEPT !.had = TRUE], AnyRtt)
       /\ UNCHANGED <<callback, gone>>

(* A request of c is waiting in StunRequestManager and the answer comes.   *)
(* (A late answer to an older ping acts like a ping followed by its own.)  *)
Unanswered(c) == conn[c] # null /\ conn[c].unanswered
Answered(c) == Idle /\ Unanswered(c) /\ ~gone

(* received_ping_response: the rtt is taken over without sorting, then     *)
(* update_receiving sorts if it changes anything ...                       *)
ReceivedPingResponse(c, r) ==
    LET cs1 == [conn EXCEPT ![c].rtt = r, ![c].unanswered = FALSE]
        cs2 == [cs1 EXCEPT ![c].receiving = TRUE] IN
    /\ Answered(c)
    /\ conn' = cs2
    /\ channel' \in Changed(cs1, cs2, channel)
    /\ callback' = [run |-> "response", now |-> c, due |-> {}]
    /\ UNCHANGED gone

(* ... and set_write_state too.                                            *)
BecomesWritable(c) ==
    LET cs == [conn EXCEPT ![c].write = "writable"] IN
    /\ callback.run = "response" /\ callback.now = c
    /\ conn' = cs
    /\ channel' \in Changed(conn, cs, channel)
    /\ callback' = NoCallback
    /\ UNCHANGED gone

(* on_check_and_ping, on the repeating ping timer, first updates the       *)
(* connections one after the other (_update_connection_states); it is the  *)
(* turn of c.  Only those count of which update_state may change anything. *)
Unsettled == {c \in Alive(conn) : conn[c].unanswered \/ conn[c].receiving}

Turn(c) ==
    /\ channel.pinging /\ c \in Unsettled
    /\ \/ Idle
       \/ callback.run = "update" /\ c \in callback.due \cup {callback.now}

Left(c) == (IF Idle THEN Unsettled ELSE callback.due) \ {c}
Updating(c) == callback' = [run |-> "update", now |-> c, due |-> Left(c)]

(* update_state of c: a response is missing and the limits of writing have *)
(* passed, which may be both at once, and then update_receiving.           *)
WriteUnreliable(c) ==
    LET cs == [conn EXCEPT ![c].write = "unreliable"] IN
    /\ Turn(c) /\ Unanswered(c)
    /\ conn[c].write = "writable"
    /\ conn' = cs
    /\ channel' \in Changed(conn, cs, channel)
    /\ Updating(c)
    /\ UNCHANGED gone

WriteTimeoutNotInit(c) ==
    LET cs == [conn EXCEPT ![c].write = "timeout"] IN
    /\ Turn(c) /\ Unanswered(c)
    /\ conn[c].write = "unreliable"
    /\ conn' = cs
    /\ channel' \in Changed(conn, cs, channel)
    /\ Updating(c)
    /\ UNCHANGED gone

WriteTimeout(c) ==
    LET cs == [conn EXCEPT ![c].write = "timeout"] IN
    /\ Turn(c) /\ Unanswered(c)
    /\ conn[c].write \in {"unreliable", "init"}
    /\ conn' = cs
    /\ channel' \in Changed(conn, cs, channel)
    /\ Updating(c)
    /\ UNCHANGED gone

(* (Also while no ping is unanswered: the answer may have come in the same *)
(* millisecond as the ping, and be too long ago now.)                      *)
ReceiveTimeout(c) ==
    LET cs == [conn EXCEPT ![c].receiving = FALSE] IN
    /\ Turn(c) /\ conn[c].receiving
    /\ conn' = cs
    /\ channel' \in Changed(conn, cs, channel)
    /\ callback' = [run |-> "update", now |-> null, due |-> Left(c)]
    /\ UNCHANGED gone

(* The end of on_check_and_ping: it pings at most one connection.  Which   *)
(* pingable one is next is the controller's choice; here any of them.      *)
InPingTimer == channel.pinging /\ callback.run \in {"none", "update"}

Ping(c) ==
    /\ InPingTimer
    /\ conn[c] # null /\ conn[c].pingable
    /\ conn' = [conn EXCEPT ![c].unanswered = TRUE]
    /\ callback' = NoCallback
    /\ UNCHANGED <<channel, gone>>

NoPing ==
    /\ callback.run = "update"
    /\ callback' = NoCallback
    /\ UNCHANGED <<conn, channel, gone>>

(* on_connection_request_error_response with a code that is not retried:   *)
(* _fail_and_destroy, _on_connection_destroyed, and only then delete.      *)
(* (What deleting the StunRequest a second time does is left out.)         *)
ErrorResponse(c) ==
    LET cs == [conn EXCEPT ![c] = null] IN
    /\ Answered(c)
    /\ conn' = cs
    /\ IF channel.selected = c
       THEN channel' \in SortedAndUpdated(cs, Switched(channel, null),
                            IF channel.ctlSelected = c THEN {conn[c].rtt} ELSE AnyRtt)
       ELSE channel' = Updated(cs, channel)
    /\ UNCHANGED <<callback, gone>>

(* The peer leaves without a word.                                         *)
PeerGone == Idle /\ ~gone /\ gone' = TRUE /\ UNCHANGED <<conn, channel, callback>>

Next ==
    \/ \E c \in Ids :
          \/ UnknownAddress(c) \/ Ping(c)
          \/ \E r \in Rtts[c] : ReceivedPingResponse(c, r)
          \/ BecomesWritable(c)
          \/ WriteUnreliable(c) \/ WriteTimeout(c) \/ ReceiveTimeout(c)
          \/ ErrorResponse(c)
    \/ NoPing
    \/ PeerGone

Spec == Init /\ [][Next]_vars

(* A callback ends.  Once it has been started, the repeating ping timer    *)
(* updates every connection, and pings each of the pingable ones in turn:  *)
(* unpinged_connections_ before pinged_connections_, and among them the    *)
(* one whose last ping is longest ago.  Nothing pings the others.          *)
CallbackEnds == NoPing \/ \E c \in Ids : BecomesWritable(c)

Fairness ==
    /\ WF_vars(CallbackEnds)
    /\ \A c \in Ids : WF_vars(Ping(c)) /\ WF_vars(WriteUnreliable(c) \/ WriteTimeout(c))

FairSpec == Spec /\ Fairness

-----------------------------------------------------------------------------
(* What the layers above see of the channel.                               *)
link ==
    [had |-> channel.had, active |-> Active(conn), ever |-> channel.ever,
     writable |-> channel.writable, state |-> channel.state]

(* The channel implements IceLink: whatever happens to the connections,    *)
(* writable_ and state_ are up to date after every signal and the memories *)
(* had_connection_ and has_been_connection_ never go back.  A callback of  *)
(* several signals goes one way: the ping timer may fail the channel and   *)
(* does not revive it, an answer may revive it and does not fail it.       *)
OneWay ==
    /\ Revives(link, link') => "update" \notin {callback.run, callback'.run}
    /\ Revives(link', link) => "response" \notin {callback.run, callback'.run}

ImplementsLink == link = NewLink /\ [][LinkStep(link, link') /\ OneWay]_link

(* A new selection is always a connection that can send, and the channel   *)
(* never drops a selection without a replacement unless it is destroyed.   *)
SwitchesToReady ==
    [][channel'.selected # channel.selected =>
          IF channel'.selected # null
          THEN ReadyToSend(conn', channel'.selected)
          ELSE conn'[channel.selected] = null]_vars

(* The selection is sound although channel and controller each keep one:   *)
(* a selected connection exists, both agree on it, and until the first     *)
(* selection no connection can send - also when the controller is told in  *)
(* the middle of a callback, and after a selected connection has been      *)
(* destroyed, of which the controller is not told.                         *)
SelectionSound ==
    /\ channel.selected # null =>
          channel.ctlSelected = channel.selected /\ conn[channel.selected] # null
    /\ channel.ctlSelected = null => \A c \in Alive(conn) : ~ReadyToSend(conn, c)

(* A peer that stops answering makes the channel fail for good, so that    *)
(* the layers above can release the stream - unless the channel has a      *)
(* connection that it cannot ping: that one never times out.               *)
AllPingable == \A c \in Alive(conn) : conn[c].pingable

GonePeerFails ==
    <>[](gone /\ channel.had /\ AllPingable => channel.state = "failed")
=============================================================================
