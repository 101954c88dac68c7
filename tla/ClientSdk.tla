------------------------------- MODULE ClientSdk -------------------------------
(* The client library in an application: a pusher and a puller of one stream, the *)
(* HTTP manager their requests go through, and the capture devices. The           *)
(* application's thread, the api (signaling) thread, the worker thread, the HTTP  *)
(* thread and the statistics timer of the pusher run concurrently; api and worker *)
(* run posted tasks in order.                                                     *)
EXTENDS SignalingGateway

CONSTANTS
    Pushers, Pullers,
    Patient,          \* the application stops a session only when it has the report of it
    Devices,          \* of "mic", "camera" and "desktop"
    MaxCalls,         \* bound: calls of the application
    MaxCaptures,      \* bound: those of them on devices
    MaxUnnamed,       \* bound: sessions without a uid or a name
    MaxStats          \* bound: rounds of the statistics timer

ASSUME SdkAssumption ==
    /\ Devices \subseteq {"mic", "camera", "desktop"} /\ Patient \in BOOLEAN
    /\ MaxCalls \in Nat /\ MaxCaptures \in Nat /\ MaxStats \in Nat

VARIABLES
    api, worker,      \* the tasks posted to the two threads
    async_objs_,      \* of HttpManager
    request_list_,    \* requests posted and not answered
    done,             \* finished transfers the HTTP thread has not read yet
    phase,            \* of a pusher or puller: none, created, started, stopped
    complete,         \* its uid_ and stream_name_ make complete forms
    peer_connection_, \* it is set
    stats_timer_,     \* its thread runs
    report,           \* what the application was told of each
    device,           \* has_start_ or is_capturing_ of each device
    last,             \* the last call of the application on each device
    early,            \* the camera's last Stop was called before its Start made a report
    gone,             \* desktop_capturer_ was reset
    calls_left, captures_left, stats_left,
    broken            \* a released object was used or a thread was overwritten

sdk == <<api, worker, async_objs_, request_list_, done, phase, complete, peer_connection_,
         stats_timer_, report>>
capture == <<device, last, early, gone, captures_left>>
vars == <<gateway, sdk, capture, calls_left, stats_left, broken>>

Sessions == Pushers \cup Pullers
Task(name, s) == [name |-> name, s |-> s, reply |-> NoReply]
Opening(s) == IF s \in Pushers THEN "push" ELSE "pull"
Closing(s) == IF s \in Pushers THEN "stoppush" ELSE "stoppull"
Request(s, kind) == [s |-> s, kind |-> kind]

Init ==
    /\ GatewayInit
    /\ api = <<>> /\ worker = <<>>
    /\ async_objs_ = {} /\ request_list_ = {} /\ done = <<>>
    /\ phase = [s \in Sessions |-> "none"]
    /\ complete = [s \in Sessions |-> TRUE]
    /\ peer_connection_ = [s \in Sessions |-> FALSE]
    /\ stats_timer_ = [s \in Sessions |-> FALSE]
    /\ report = [s \in Sessions |-> <<>>]
    /\ device = [d \in Devices |-> FALSE]
    /\ last = [d \in Devices |-> "Stop"]
    /\ early = FALSE /\ gone = FALSE
    /\ calls_left = MaxCalls /\ captures_left = MaxCaptures /\ stats_left = MaxStats
    /\ broken = FALSE

Report(s, callback) == report' = [report EXCEPT ![s] = Append(@, callback)]

--------------------------------------------------------------------------------
(* The application's thread. *)

MayCall == calls_left > 0 /\ calls_left' = calls_left - 1
Unnamed == {s \in Sessions : ~complete[s]}

\* Mutant: a puller is never made known.
CreateUnknown(s, named) ==
    /\ MayCall /\ phase[s] = "none" /\ (named \/ Cardinality(Unnamed) < MaxUnnamed)
    /\ phase' = [phase EXCEPT ![s] = "created"]
    /\ complete' = [complete EXCEPT ![s] = named]
    /\ worker' = IF s \in Pushers THEN Append(worker, Task("AddObject", s)) ELSE worker
    /\ UNCHANGED <<gateway, api, async_objs_, request_list_, done, peer_connection_,
                   stats_timer_, report, capture, stats_left, broken>>

(* CreatePusher, CreatePuller with a uid and a name: the object is made known to  *)
(* HttpManager.                                                                   *)
Create(s, named) ==
    /\ MayCall /\ phase[s] = "none" /\ (named \/ Cardinality(Unnamed) < MaxUnnamed)
    /\ phase' = [phase EXCEPT ![s] = "created"]
    /\ complete' = [complete EXCEPT ![s] = named]
    /\ worker' = Append(worker, Task("AddObject", s))
    /\ UNCHANGED <<gateway, api, async_objs_, request_list_, done, peer_connection_,
                   stats_timer_, report, capture, stats_left, broken>>

\* What Start of a pusher and of a puller have in common: offers is CreateOffer's callback.
Starts(s, offers) ==
    /\ MayCall /\ phase[s] = "created"
    /\ phase' = [phase EXCEPT ![s] = "started"]
    /\ peer_connection_' = [peer_connection_ EXCEPT ![s] = TRUE]
    /\ IF offers THEN api' = Append(api, Task("OnOffer", s)) /\ UNCHANGED report
       ELSE Report(s, "OnPushFailed") /\ UNCHANGED api
    /\ UNCHANGED <<gateway, worker, async_objs_, request_list_, done, complete, stats_timer_, capture,
                   stats_left, broken>>

\* A pusher that can add neither track has failed.
StartPush(s, tracks) == s \in Pushers /\ Starts(s, tracks)
StartPull(s) == s \in Pullers /\ Starts(s, TRUE)

\* SendStopRequest of both, and the connection released.
Stops(s) ==
    /\ MayCall /\ phase[s] = "started" /\ (Patient => report[s] # <<>>)
    /\ phase' = [phase EXCEPT ![s] = "stopped"]
    /\ request_list_' = request_list_ \cup {Request(s, Closing(s))}
    /\ peer_connection_' = [peer_connection_ EXCEPT ![s] = FALSE]
    /\ UNCHANGED <<gateway, api, worker, async_objs_, done, complete, report, capture, stats_left,
                   broken>>

\* The timer is joined, and KRTCPusher drops its reference to the implementation.
StopPush(s) == s \in Pushers /\ Stops(s) /\ stats_timer_' = [stats_timer_ EXCEPT ![s] = FALSE]
StopPull(s) == s \in Pullers /\ Stops(s) /\ UNCHANGED stats_timer_

--------------------------------------------------------------------------------
(* The api thread. *)

RunsApi(name) == api # <<>> /\ Head(api).name = name

\* The offer is made (OnSuccess) or not (OnFailure).
Offered(made, failed) ==
    LET s == Head(api).s
    IN /\ api' = Tail(api)
       /\ IF made
          THEN /\ request_list_' = IF peer_connection_[s]
                                   THEN request_list_ \cup {Request(s, Opening(s))} ELSE request_list_
               /\ broken' = ~peer_connection_[s]
               /\ UNCHANGED report
          ELSE Report(s, failed) /\ UNCHANGED <<request_list_, broken>>
       /\ UNCHANGED <<gateway, worker, async_objs_, done, phase, complete, peer_connection_,
                      stats_timer_, capture, calls_left, stats_left>>
OnPushOffer(made) ==
    RunsApi("OnOffer") /\ Head(api).s \in Pushers /\ Offered(made, "OnPushFailed")
OnPullOffer(made) ==
    RunsApi("OnOffer") /\ Head(api).s \in Pullers /\ Offered(made, "OnPullFailed")

\* Mutant: the error number in the response is not looked at.
AcceptedTransfer(reply) == reply # "closed"

\* ParseReply and the checks before it: a transfer that worked, and no error inside.
Accepted(reply) == reply = Ok

\* A failed pull is reported as a failed push; success needs the connection.
Handled(success, timer) ==
    LET s == Head(api).s
    IN /\ api' = Tail(api)
       /\ IF ~Accepted(Head(api).reply)
          THEN Report(s, "OnPushFailed") /\ UNCHANGED <<stats_timer_, broken>>
          ELSE IF ~peer_connection_[s]
               THEN broken' = TRUE /\ UNCHANGED <<report, stats_timer_>>
               ELSE /\ Report(s, success)
                    /\ stats_timer_' = [stats_timer_ EXCEPT ![s] = timer]
                    /\ UNCHANGED broken
       /\ UNCHANGED <<gateway, worker, async_objs_, request_list_, done, phase, complete,
                      peer_connection_, capture, calls_left, stats_left>>
HandleHttpPushResponse ==
    RunsApi("HandleResponse") /\ Head(api).s \in Pushers /\ Handled("OnPushSuccess", TRUE)
HandleHttpPullResponse ==
    RunsApi("HandleResponse") /\ Head(api).s \in Pullers /\ Handled("OnPullSuccess", FALSE)

\* The timer's thread posts GetRtcStats; the task finds the pusher alive or not.
TimerFires(s) ==
    /\ stats_timer_[s] /\ stats_left > 0
    /\ stats_left' = stats_left - 1
    /\ api' = Append(api, Task("GetRtcStats", s))
    /\ UNCHANGED <<gateway, worker, async_objs_, request_list_, done, phase, complete, peer_connection_,
                   stats_timer_, report, capture, calls_left, broken>>

GetRtcStats ==
    /\ RunsApi("GetRtcStats")
    /\ api' = Tail(api)
    /\ broken' = (phase[Head(api).s] = "stopped")
    /\ UNCHANGED <<gateway, worker, async_objs_, request_list_, done, phase, complete, peer_connection_,
                   stats_timer_, report, capture, calls_left, stats_left>>

--------------------------------------------------------------------------------
(* HttpManager and the network to the gateway. *)

\* Its transfer has not ended.
InMulti(q) == q \in request_list_ /\ \A i \in DOMAIN done : done[i].q # q

\* curl sends a request of the list and the gateway takes it.
Transfer(q, connects) ==
    /\ InMulti(q)
    /\ \/ q.kind = "push" /\ PushAction(q, complete[q.s], connects)
       \/ q.kind = "pull" /\ PullAction(q, complete[q.s], connects)
       \/ q.kind = "stoppush" /\ StopPushAction(q, complete[q.s], connects)
       \/ q.kind = "stoppull" /\ StopPullAction(q, complete[q.s], connects)
    /\ UNCHANGED <<sdk, capture, calls_left, stats_left, broken>>

\* The response arrives at curl.
Response(q) ==
    /\ q \in DOMAIN calls /\ InMulti(q) /\ calls[q].reply # NoReply
    /\ done' = Append(done, [q |-> q, reply |-> calls[q].reply])
    /\ UNCHANGED <<gateway, api, worker, async_objs_, request_list_, phase, complete, peer_connection_,
                   stats_timer_, report, capture, calls_left, stats_left, broken>>

\* The transfer takes longer than CURLOPT_TIMEOUT.
TransferTimeout(q) ==
    /\ InMulti(q) /\ MayLose(q) /\ (q \in DOMAIN calls => calls[q].reply = NoReply)
    /\ done' = Append(done, [q |-> q, reply |-> "closed"])
    /\ lost' = lost \cup {q}
    /\ UNCHANGED <<curIndex, calls, written, msgs, streams, api, worker, async_objs_, request_list_,
                   phase, complete, peer_connection_, stats_timer_, report, capture, calls_left, stats_left, broken>>

(* One round of the HTTP thread: poll, perform, and at most one finished transfer *)
(* is read; the others wait until poll returns again.                             *)
HttpRound ==
    /\ done # <<>>
    /\ done' = Tail(done)
    /\ request_list_' = request_list_ \ {Head(done).q}
    /\ worker' = Append(worker, [name |-> "HttpReply", s |-> Head(done).q,
                                 reply |-> Head(done).reply])
    /\ UNCHANGED <<gateway, api, async_objs_, phase, complete, peer_connection_, stats_timer_, report,
                   capture, calls_left, stats_left, broken>>

--------------------------------------------------------------------------------
(* The worker thread. *)

RunsWorker(name) == worker # <<>> /\ Head(worker).name = name

AddObject ==
    /\ RunsWorker("AddObject")
    /\ worker' = Tail(worker)
    /\ async_objs_' = async_objs_ \cup {Head(worker).s}
    /\ UNCHANGED <<gateway, api, request_list_, done, phase, complete, peer_connection_, stats_timer_,
                   report, capture, calls_left, stats_left, broken>>

\* The reply reaches the callback if its object is known; that of a stop only logs.
HttpReply ==
    LET t == Head(worker)
        q == t.s
    IN /\ RunsWorker("HttpReply")
       /\ worker' = Tail(worker)
       /\ api' = IF q.s \in async_objs_ /\ q.kind = Opening(q.s)
                 THEN Append(api, [Task("HandleResponse", q.s) EXCEPT !.reply = t.reply])
                 ELSE api
       /\ UNCHANGED <<gateway, async_objs_, request_list_, done, phase, complete, peer_connection_,
                      stats_timer_, report, capture, calls_left, stats_left, broken>>

--------------------------------------------------------------------------------
(* The devices. MicImpl works on the worker thread, the video sources on the api  *)
(* thread; VcmCapturer::Start posts a second task to it, Stop does not.           *)

\* The first task of a Start of the camera, which makes the first report, has not run.
Unreported == \E i \in DOMAIN api : api[i].name = "Start" /\ api[i].s = "camera"

\* A call of Start or Stop on a device.
CallDevice(d, op) ==
    /\ MayCall /\ captures_left > 0 /\ captures_left' = captures_left - 1
    /\ last' = [last EXCEPT ![d] = op]
    /\ early' = IF d = "camera" THEN op = "Stop" /\ Unreported ELSE early
    /\ UNCHANGED <<gateway, async_objs_, request_list_, done, phase, complete, peer_connection_,
                   stats_timer_, report, gone, stats_left, broken>>

\* Mutant: Stop of the microphone does its work on the caller's thread.
CallStopsHere(d, op) ==
    /\ CallDevice(d, op)
    /\ device' = [device EXCEPT ![d] = @ /\ ~(d = "mic" /\ op = "Stop")]
    /\ worker' = IF d = "mic" /\ op = "Start" THEN Append(worker, Task(op, d)) ELSE worker
    /\ api' = IF d # "mic" THEN Append(api, Task(op, d)) ELSE api

\* Start and Stop of a device post a task each.
Call(d, op) ==
    /\ CallDevice(d, op)
    /\ IF d = "mic" THEN worker' = Append(worker, Task(op, d)) /\ UNCHANGED api
       ELSE api' = Append(api, Task(op, d)) /\ UNCHANGED worker
    /\ UNCHANGED device

\* Start of MicImpl and VcmCapturer: the device may fail, a running one is left alone.
Started(d, works) == device' = [device EXCEPT ![d] = @ \/ works]

MicStart(works) ==
    /\ RunsWorker("Start")
    /\ worker' = Tail(worker)
    /\ Started("mic", works)
    /\ UNCHANGED <<gateway, api, async_objs_, request_list_, done, phase, complete, peer_connection_,
                   stats_timer_, report, last, early, gone, captures_left, calls_left, stats_left, broken>>

MicStop ==
    /\ RunsWorker("Stop")
    /\ worker' = Tail(worker)
    /\ device' = [device EXCEPT !["mic"] = FALSE]
    /\ UNCHANGED <<gateway, api, async_objs_, request_list_, done, phase, complete, peer_connection_,
                   stats_timer_, report, last, early, gone, captures_left, calls_left, stats_left, broken>>

(* StartVcmCapturerSource: its task posts the one that starts the camera and then *)
(* reports OnPreviewSuccess, before that one has run.                             *)
CameraStart ==
    /\ RunsApi("Start") /\ Head(api).s = "camera"
    /\ api' = Append(Tail(api), Task("VcmStart", "camera"))
    /\ UNCHANGED <<gateway, worker, async_objs_, request_list_, done, phase, complete, peer_connection_,
                   stats_timer_, report, capture, calls_left, stats_left, broken>>

VcmStart(works) ==
    /\ RunsApi("VcmStart")
    /\ api' = Tail(api)
    /\ Started("camera", works)
    /\ UNCHANGED <<gateway, worker, async_objs_, request_list_, done, phase, complete, peer_connection_,
                   stats_timer_, report, last, early, gone, captures_left, calls_left, stats_left, broken>>

(* StartDesktopCapturerSource: the capture thread is made at once. A second one   *)
(* would overwrite the first, and after Stop there is no capturer to run.         *)
DesktopStart ==
    /\ RunsApi("Start") /\ Head(api).s = "desktop"
    /\ api' = Tail(api)
    /\ broken' = (device["desktop"] \/ gone)
    /\ Started("desktop", TRUE)
    /\ UNCHANGED <<gateway, worker, async_objs_, request_list_, done, phase, complete, peer_connection_,
                   stats_timer_, report, last, early, gone, captures_left, calls_left, stats_left>>

\* Stop of the video sources: a desktop source also loses its capturer.
VideoStop ==
    LET d == Head(api).s
    IN /\ RunsApi("Stop")
       /\ api' = Tail(api)
       /\ device' = [device EXCEPT ![d] = FALSE]
       /\ gone' = (gone \/ d = "desktop")
       /\ UNCHANGED <<gateway, worker, async_objs_, request_list_, done, phase, complete, peer_connection_,
                      stats_timer_, report, last, early, captures_left, calls_left, stats_left, broken>>

--------------------------------------------------------------------------------
App ==
    \/ \E s \in Sessions, named \in BOOLEAN : Create(s, named)
    \/ \E s \in Pushers, tracks \in BOOLEAN : StartPush(s, tracks)
    \/ \E s \in Pullers : StartPull(s) \/ StopPull(s)
    \/ \E s \in Pushers : StopPush(s)
    \/ \E d \in Devices, op \in {"Start", "Stop"} : Call(d, op)

ApiThread ==
    \/ \E b \in BOOLEAN : OnPushOffer(b) \/ OnPullOffer(b) \/ VcmStart(b)
    \/ HandleHttpPushResponse \/ HandleHttpPullResponse \/ GetRtcStats \/ CameraStart \/ DesktopStart \/ VideoStop

WorkerThread == AddObject \/ HttpReply \/ MicStop \/ \E b \in BOOLEAN : MicStart(b)

Network ==
    \/ \E q \in request_list_ : Response(q) \/ TransferTimeout(q)
    \/ \E q \in request_list_, connects \in BOOLEAN : Transfer(q, connects)

Aside == UNCHANGED <<sdk, capture, calls_left, stats_left, broken>>

Answers ==
    /\ \/ \E r \in DOMAIN calls : ProcessRequest(r) \/ ReadResponse(r) \/ DeadlineExceeded(r)
       \/ \E a \in Addresses : Serve(a)
    /\ Aside

Removals == (\E a \in Addresses : OnStreamException(a)) /\ Aside

Next ==
    /\ ~broken
    /\ \/ App \/ ApiThread \/ WorkerThread \/ HttpRound \/ Network \/ Answers \/ Removals
       \/ \E s \in Pushers : TimerFires(s)

\* The threads of the client, the gateway and the server together.
Threads == ApiThread \/ WorkerThread \/ HttpRound \/ Network \/ Answers

Spec == Init /\ [][Next]_vars /\ WF_vars(~broken /\ Threads)

--------------------------------------------------------------------------------
OpeningCall(s) == Request(s, Opening(s))
Succeeded(s) == \E i \in DOMAIN report[s] : report[s][i] \in {"OnPushSuccess", "OnPullSuccess"}

ClosingCall(s) == Request(s, Closing(s))

\* The connection of q got an answer, but not its own.
Misled(q) == q \in DOMAIN calls /\ \E e \in calls[q].heard : e.from # q
Holds(a, s) == IF s \in Pushers THEN s \in published[a] ELSE s \in pulled[a]
CarriedOut(q) == q \in DOMAIN calls /\ calls[q].result = Ok

(* What the application is told and what the media server did agree, across the   *)
(* api, HTTP and worker threads, the gateway and the threads of the server:       *)
(* nothing is reported twice, success is reported only of a command the server    *)
(* carried out, failure of one it carried out only if someone gave up waiting for *)
(* the answer. A session stopped after its report is gone from the server once    *)
(* the server, which answers a stop first, has carried it out. A call that got    *)
(* the answer of another is left out, and there is none until someone gave up.    *)
ViewsAgree ==
    \A s \in Sessions :
        LET q == OpeningCall(s)
            c == ClosingCall(s)
        IN /\ Len(report[s]) <= 1
           /\ Misled(q) => lost # {}
           /\ Succeeded(s) => CarriedOut(q) \/ Misled(q)
           /\ report[s] # <<>> /\ ~Succeeded(s) /\ CarriedOut(q) => q \in lost \/ Misled(q)
           /\ Patient /\ CarriedOut(c) /\ q \notin lost /\ ~Misled(q) => ~Holds(calls[c].addr, s)

(* Once the posted tasks have run, a device the application stopped last is off,  *)
(* in whatever order it called Start and Stop. The one exception is the camera,   *)
(* whose Start is two tasks and whose Stop is one: it may stay on if Stop was     *)
(* called before Start made its first report, OnPreviewSuccess. After that report *)
(* the second task, though it has not run, is queued before whatever follows.     *)
StoppedDeviceIsOff ==
    api = <<>> /\ worker = <<>> /\ ~broken =>
        \A d \in Devices : device[d] => last[d] = "Start" \/ (d = "camera" /\ early)

(* Every Start is followed by one of the callbacks, whatever is lost on the way,  *)
(* unless the application stops first: a started session stays started until it   *)
(* is stopped and a report is never taken back, so in the end no session waits.   *)
EveryStartReported ==
    <>[](broken \/ \A s \in Sessions : phase[s] = "started" => report[s] # <<>>)
================================================================================
