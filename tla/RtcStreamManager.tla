-------------------------- MODULE RtcStreamManager --------------------------
(***************************************************************************)
(* stream/rtc_stream_manager.cpp and stream/rtc_stream.cpp: the push and   *)
(* pull streams of one RtcWorker.  Everything runs on the worker's event   *)
(* loop, so one callback is one step; the exception is a state change      *)
(* reported by a PeerConnection, whose handlers may delete the stream and  *)
(* then return into the PeerConnection, which still touches itself.  That  *)
(* return is a step of its own and the loop does nothing in between.       *)
(*                                                                         *)
(* An RtcStream and the PeerConnection it creates share a number of Ids;   *)
(* the number is free for the next stream when both are deleted.           *)
(***************************************************************************)
EXTENDS Naturals

CONSTANTS
    Ids,           \* addresses of RtcStream objects with their PeerConnection
    Uids, Names,   \* RtcMsg::uid, RtcMsg::stream_name
    null

ASSUME NullAssumption == null \notin Ids

(* k_connecting stands for k_disconnected too: neither the stream nor the  *)
(* manager tells them apart.                                               *)
PeerConnectionState == {"new", "connecting", "connected", "failed"}

VARIABLES
    obj,       \* [Ids -> RtcStream, or null when it is not allocated]
    pc,        \* [Ids -> the PeerConnection that stream created]
    timer,     \* [Ids -> ice_timeout_watcher_ of that stream]
    push,      \* push_streams_
    pull,      \* pull_streams_
    emitting,  \* the PeerConnection inside signal_connection_state, or null
    media      \* the packet handed on in this step: from and to which stream

vars == <<obj, pc, timer, push, pull, emitting, media>>

RtcStreamType ==
    [kind : {"push", "pull"}, uid : Uids, name : Names,
     state : PeerConnectionState]

ASSUME NullStreamAssumption == null \notin RtcStreamType

RtcStream(k, u, n, s) == [kind |-> k, uid |-> u, name |-> n, state |-> s]

TypeOK ==
    /\ obj \in [Ids -> RtcStreamType \cup {null}]
    /\ pc \in [Ids -> {"none", "live", "destroying"}]
    /\ timer \in [Ids -> {"none", "armed", "fired"}]
    /\ push \in [Names -> Ids \cup {null}]
    /\ pull \in [Names -> Ids \cup {null}]
    /\ emitting \in Ids \cup {null}
    /\ media \in [from : Ids, to : Ids] \cup {null}

Init ==
    /\ obj = [i \in Ids |-> null]
    /\ pc = [i \in Ids |-> "none"]
    /\ timer = [i \in Ids |-> "none"]
    /\ push = [n \in Names |-> null]
    /\ pull = [n \in Names |-> null]
    /\ emitting = null
    /\ media = null

Alive(i) == obj[i] # null

(* The loop runs a callback only when the previous one has returned.       *)
LoopIdle == emitting = null /\ media' = null

-----------------------------------------------------------------------------
(* What delete does to the objects, the timers and the PeerConnections:    *)
(* ~RtcStream deletes the ice timer; PeerConnection::destroy leaves the    *)
(* PeerConnection in place for another 10 ms.                              *)
TimerDeleted(t, i) == [t EXCEPT ![i] = "none"]
DestroyedAtOnce(p, i) == [p EXCEPT ![i] = "none"]
Destroyed(p, i) == [p EXCEPT ![i] = "destroying"]

Delete(o, t, i) ==
    /\ obj' = [o EXCEPT ![i] = null]
    /\ timer' = TimerDeleted(t, i)
    /\ pc' = Destroyed(pc, i)

(* The state a stream has when it is registered: a bad fingerprint in the  *)
(* offer fails DTLS while the answer is made, before it is registered; the *)
(* report then finds nothing to remove.                                    *)
BornStates == {"new", "failed"}

(* new RtcStream(...) at address i, register_listener, start() which arms  *)
(* the 30 s ice timer, set_remote_sdp() and create_answer(), whose results *)
(* are not looked at; stream `old', if any, is deleted first.              *)
NewStream(i, k, u, n, old) ==
    /\ obj[i] = null /\ pc[i] = "none"
    /\ \E s \in BornStates :
          obj' = [j \in Ids |-> IF j = i THEN RtcStream(k, u, n, s)
                                ELSE IF j = old THEN null ELSE obj[j]]
    /\ timer' = [IF old = null THEN timer ELSE TimerDeleted(timer, old)
                    EXCEPT ![i] = "armed"]
    /\ pc' = [IF old = null THEN pc ELSE Destroyed(pc, old) EXCEPT ![i] = "live"]

(* create_push_stream: a stream of that name, whoever pushes it, makes way *)
(* for the new one.                                                        *)

CreatePushStream(i, u, n) ==
    /\ LoopIdle
    /\ NewStream(i, "push", u, n, push[n])
    /\ push' = [push EXCEPT ![n] = i]
    /\ UNCHANGED <<pull, emitting>>

(* _remove_push_stream(uid, name) and _remove_pull_stream(uid, name) act   *)
(* on the registered stream of that name if it has that uid.               *)
Registered(table, u, n) ==
    IF table[n] # null /\ obj[table[n]].uid = u THEN table[n] ELSE null

(* create_pull_stream: only the same user's pull stream is removed; the    *)
(* entry is overwritten in any case.  Without a publisher it fails.        *)

CreatePullStream(i, u, n) ==
    /\ LoopIdle
    /\ push[n] # null
    /\ NewStream(i, "pull", u, n, Registered(pull, u, n))
    /\ pull' = [pull EXCEPT ![n] = i]
    /\ UNCHANGED <<push, emitting>>

(* Erase the entry and delete the stream, given what the callback that     *)
(* leads here has already done to the objects and timers.                  *)
RemovePushStream(o, t, u, n) ==
    /\ IF Registered(push, u, n) # null
       THEN Delete(o, t, push[n]) /\ push' = [push EXCEPT ![n] = null]
       ELSE obj' = o /\ timer' = t /\ UNCHANGED <<pc, push>>
    /\ UNCHANGED pull

RemovePullStreamKeepEntry(o, t, u, n) ==
    /\ IF Registered(pull, u, n) # null
       THEN Delete(o, t, pull[n]) /\ UNCHANGED pull
       ELSE obj' = o /\ timer' = t /\ UNCHANGED <<pc, pull>>
    /\ UNCHANGED push

RemovePullStream(o, t, u, n) ==
    /\ IF Registered(pull, u, n) # null
       THEN Delete(o, t, pull[n]) /\ pull' = [pull EXCEPT ![n] = null]
       ELSE obj' = o /\ timer' = t /\ UNCHANGED <<pc, pull>>
    /\ UNCHANGED push

StopPush(u, n) ==
    /\ LoopIdle
    /\ RemovePushStream(obj, timer, u, n)
    /\ UNCHANGED emitting

StopPull(u, n) ==
    /\ LoopIdle
    /\ RemovePullStream(obj, timer, u, n)
    /\ UNCHANGED emitting

(* What on_stream_exception and on_connection_state(k_failed) do: the      *)
(* manager removes by uid and name, not by the stream it is called for.    *)
RemoveLikePush(i, o, t) == RemovePushStream(o, t, obj[i].uid, obj[i].name)

RemoveLike(i, o, t) ==
    \/ obj[i].kind = "push" /\ RemovePushStream(o, t, obj[i].uid, obj[i].name)
    \/ obj[i].kind = "pull" /\ RemovePullStream(o, t, obj[i].uid, obj[i].name)

-----------------------------------------------------------------------------
(* The TransportController of PeerConnection i reports s.  RtcStream::     *)
(* _on_connection_state ignores a state it has already; connected deletes  *)
(* the ice timer; a failure goes to the manager.  ~RtcStream disconnects   *)
(* its slots, so a report after it reaches nobody.                         *)
OnConnectionState(i, s) ==
    LET o == [obj EXCEPT ![i].state = s] IN
    /\ LoopIdle
    /\ pc[i] \in {"live", "destroying"}
    /\ emitting' = i
    /\ \/ /\ Alive(i) => obj[i].state = s
          /\ UNCHANGED <<obj, pc, timer, push, pull>>
       \/ /\ Alive(i) /\ obj[i].state # s
          /\ \/ s = "failed" /\ RemoveLike(i, o, timer)
             \/ /\ s # "failed"
                /\ obj' = o
                /\ timer' = IF s = "connected" THEN TimerDeleted(timer, i) ELSE timer
                /\ UNCHANGED <<pc, push, pull>>

(* Back in PeerConnection::_on_connection_state, which stores state_.      *)
StoreState ==
    /\ emitting # null
    /\ emitting' = null
    /\ media' = null
    /\ UNCHANGED <<obj, pc, timer, push, pull>>

(* ice_timeout_cb: 30 s without ever being connected.                      *)
IceTimeoutOnlyNew(i) ==
    LET t == [timer EXCEPT ![i] = "fired"] IN
    /\ LoopIdle
    /\ timer[i] = "armed"
    /\ \/ obj[i].state = "new" /\ RemoveLike(i, obj, t)
       \/ /\ obj[i].state # "new"
          /\ timer' = t /\ UNCHANGED <<obj, pc, push, pull>>
    /\ UNCHANGED emitting

IceTimeout(i) ==
    LET t == [timer EXCEPT ![i] = "fired"] IN
    /\ LoopIdle
    /\ timer[i] = "armed"
    /\ \/ obj[i].state # "connected" /\ RemoveLike(i, obj, t)
       \/ /\ obj[i].state = "connected"
          /\ timer' = t /\ UNCHANGED <<obj, pc, push, pull>>
    /\ UNCHANGED emitting

(* destroy_timer_cb: delete pc.                                            *)
DestroyTimerWithStream(i) ==
    /\ LoopIdle
    /\ pc[i] = "destroying" /\ Alive(i)
    /\ pc' = [pc EXCEPT ![i] = "none"]
    /\ UNCHANGED <<obj, timer, push, pull, emitting>>

DestroyTimer(i) ==
    /\ LoopIdle
    /\ pc[i] = "destroying"
    /\ pc' = [pc EXCEPT ![i] = "none"]
    /\ UNCHANGED <<obj, timer, push, pull, emitting>>

(* on_rtp_packet_received: from a publisher to the puller of its name;     *)
(* on_rtcp_packet_received: both ways.                                     *)
Handed(i, j) ==
    /\ emitting = null /\ j # null
    /\ media' = [from |-> i, to |-> j]
    /\ UNCHANGED <<obj, pc, timer, push, pull, emitting>>

OnRtpPacketReceivedBack(i) == Alive(i) /\ Handed(i, pull[obj[i].name])

OnRtpPacketReceived(i) ==
    Alive(i) /\ obj[i].kind = "push" /\ Handed(i, pull[obj[i].name])

OnRtcpPacketReceived(i) ==
    \/ Alive(i) /\ obj[i].kind = "push" /\ Handed(i, pull[obj[i].name])
    \/ Alive(i) /\ obj[i].kind = "pull" /\ Handed(i, push[obj[i].name])

Next ==
    \/ \E u \in Uids, n \in Names :
          \/ \E i \in Ids : CreatePushStream(i, u, n) \/ CreatePullStream(i, u, n)
          \/ StopPush(u, n) \/ StopPull(u, n)
    \/ \E i \in Ids :
          \/ \E s \in PeerConnectionState : OnConnectionState(i, s)
          \/ IceTimeout(i) \/ DestroyTimer(i)
          \/ OnRtpPacketReceived(i) \/ OnRtcpPacketReceived(i)
    \/ StoreState

Spec == Init /\ [][Next]_vars

(* A callback returns and a due timer is invoked however often other       *)
(* callbacks run first (libev keeps it pending), hence strong fairness.    *)
(* Nothing is assumed of clients and of the network.                       *)
Fairness ==
    /\ WF_vars(StoreState)
    /\ \A i \in Ids : SF_vars(IceTimeout(i)) /\ SF_vars(DestroyTimer(i))

FairSpec == Spec /\ Fairness

-----------------------------------------------------------------------------
(* push_streams_ is exact through replacement, stop, failure and timeout:  *)
(* every PushStream that exists is the registered one of its name, so none *)
(* is leaked, no name has two publishers and no entry dangles.             *)
PushTableExact ==
    /\ \A i \in Ids : Alive(i) /\ obj[i].kind = "push" => push[obj[i].name] = i
    /\ \A n \in Names :
          push[n] # null =>
             Alive(push[n]) /\ obj[push[n]].kind = "push" /\ obj[push[n]].name = n

(* pull_streams_ never holds a deleted stream or one of another name, not  *)
(* even when several users pull one name and overwrite each other's entry. *)
PullEntriesValid ==
    \A n \in Names :
       pull[n] # null =>
          Alive(pull[n]) /\ obj[pull[n]].kind = "pull" /\ obj[pull[n]].name = n

(* The two tables of the manager are sound through every replacement, stop *)
(* and failure.                                                            *)
TablesSound == PushTableExact /\ PullEntriesValid

Table(k) == IF k = "push" THEN push ELSE pull

(* The stream is the one its manager finds under its name.                 *)
InTable(i) == Alive(i) /\ Table(obj[i].kind)[obj[i].name] = i

(* A registered PullStream that lives on is not forgotten: it keeps its    *)
(* entry until another user pulls the same name.                           *)
KeepsEntry(i) ==
    InTable(i) /\ obj[i].kind = "pull" /\ obj'[i] # null =>
       LET j == pull'[obj[i].name] IN
       j = i \/ (j # null /\ obj'[j].uid # obj[i].uid)

PullEntryLostOnlyToOther == [][\A i \in Ids : KeepsEntry(i)]_vars

(* Nothing calls into a deleted object: a timer that can fire belongs to a *)
(* stream that exists, a stream's PeerConnection exists as long as it      *)
(* does, and a PeerConnection is never deleted inside its own signal, even *)
(* though the handlers of that signal delete the stream that owns it.      *)
NoCallbackIntoFreed ==
    /\ \A i \in Ids : timer[i] # "none" => Alive(i)
    /\ \A i \in Ids : Alive(i) => pc[i] = "live"
    /\ emitting # null => pc[emitting] \in {"live", "destroying"}

Reports(i) ==
    IceTimeout(i) \/ (\E s \in PeerConnectionState : OnConnectionState(i, s))

(* PullStream i lost its entry to another user, and its own user has       *)
(* pulled the name again since: that newer stream is j.                    *)
DisplacedBy(i, j) ==
    /\ obj[i].kind = "pull" /\ ~InTable(i)
    /\ obj[j].kind = "pull" /\ InTable(j)
    /\ obj[j].uid = obj[i].uid /\ obj[j].name = obj[i].name

(* A failure or a timeout of a stream deletes no other stream, although    *)
(* the manager looks it up again by uid and name; the one exception is the *)
(* newer stream of a user whose older one was displaced.                   *)
FailureIsLocal ==
    [][\A i, j \in Ids :
          Reports(i) /\ j # i /\ Alive(j) /\ obj'[j] = null => DisplacedBy(i, j)]_vars

(* A packet is only handed to a stream that exists, of the same name and   *)
(* of the other kind.                                                      *)
MediaStaysInStream ==
    media # null =>
       /\ Alive(media.from) /\ Alive(media.to)
       /\ obj[media.from].name = obj[media.to].name
       /\ obj[media.from].kind # obj[media.to].kind

(* The ice timer does its work: a publisher that never connects is removed *)
(* in the end, also one whose failure was reported before it was           *)
(* registered and would be ignored if it were reported again.              *)
UnconnectedPublisherRemoved ==
    \A i \in Ids :
       (Alive(i) /\ obj[i].kind = "push" /\ timer[i] # "none")
          ~> (Alive(i) => obj[i].state = "connected")

(* Every PeerConnection is freed in the end once its stream is deleted.    *)
PeerConnectionReclaimed ==
    \A i \in Ids : pc[i] = "destroying" ~> pc[i] = "none"
=============================================================================
