---------------------------- MODULE ClientSdkProofs ----------------------------
(* Proofs about ClientSdk: what the application is told and what the media server *)
(* did agree, and a stopped device is off, for any number of pushers, pullers,    *)
(* servers and lost answers.                                                      *)
EXTENDS ClientSdk, TLAPS

--------------------------------------------------------------------------------
(* The types. *)

Requests == {Request(s, Opening(s)) : s \in Sessions} \cup {Request(s, Closing(s)) : s \in Sessions}
Replies == {Ok, ErrParam, ErrNetwork, "closed"}
Callbacks == {"OnPushSuccess", "OnPullSuccess", "OnPushFailed", "OnPullFailed"}

ApiTask ==
    [name : {"OnOffer"}, s : Sessions, reply : {NoReply}]
    \cup [name : {"HandleResponse"}, s : Sessions, reply : Replies]
    \cup [name : {"GetRtcStats"}, s : Pushers, reply : {NoReply}]
    \cup [name : {"Start", "Stop"}, s : Devices \ {"mic"}, reply : {NoReply}]
    \cup [name : {"VcmStart"}, s : Devices \cap {"camera"}, reply : {NoReply}]

WorkerTask ==
    [name : {"AddObject"}, s : Sessions, reply : {NoReply}]
    \cup [name : {"HttpReply"}, s : Requests, reply : Replies]
    \cup [name : {"Start", "Stop"}, s : Devices \cap {"mic"}, reply : {NoReply}]

CallRecord ==
    [kind : {"push", "pull", "stoppush", "stoppull"}, addr : Addresses \cup {"nowhere"},
     state : {"sent", "abandoned", "done"}, reply : Replies \cup {NoReply},
     result : {NoReply, Ok, ErrNetwork},
     heard : SUBSET [from : Requests, says : {Ok, ErrNetwork}], after : SUBSET Requests]

TypeOK ==
    /\ curIndex \in 0 .. Len(Servers) - 1
    /\ DOMAIN calls \subseteq Requests /\ calls \in [DOMAIN calls -> CallRecord]
    /\ written \subseteq Requests /\ msgs \in [Addresses -> Seq(Requests)]
    /\ published \in [Addresses -> SUBSET Sessions]
    /\ pulled \in [Addresses -> SUBSET Sessions]
    /\ lost \subseteq Requests
    /\ api \in Seq(ApiTask) /\ worker \in Seq(WorkerTask)
    /\ async_objs_ \subseteq Sessions /\ request_list_ \subseteq Requests
    /\ done \in Seq([q : Requests, reply : Replies])
    /\ phase \in [Sessions -> {"none", "created", "started", "stopped"}]
    /\ complete \in [Sessions -> BOOLEAN]
    /\ peer_connection_ \in [Sessions -> BOOLEAN]
    /\ stats_timer_ \in [Sessions -> BOOLEAN]
    /\ report \in [Sessions -> Seq(Callbacks)]
    /\ device \in [Devices -> BOOLEAN]
    /\ last \in [Devices -> {"Start", "Stop"}]
    /\ early \in BOOLEAN /\ gone \in BOOLEAN /\ broken \in BOOLEAN
    /\ calls_left \in Nat /\ captures_left \in Nat /\ stats_left \in Nat

--------------------------------------------------------------------------------
(* The inductive invariant. *)

Has(q, S) == \E i \in DOMAIN q : q[i] \in S
Once(q, S) == \A i, j \in DOMAIN q : q[i] \in S /\ q[j] \in S => i = j

\* Where the one attempt of session s to open may be.
OfferOf(s) == {t \in ApiTask : t.name = "OnOffer" /\ t.s = s}
AnswerOf(s, R) == {t \in ApiTask : t.name = "HandleResponse" /\ t.s = s /\ t.reply \in R}
ApiOf(s) == OfferOf(s) \cup AnswerOf(s, Replies)
ReplyOf(s, R) == {t \in WorkerTask : t.name = "HttpReply" /\ t.s = OpeningCall(s) /\ t.reply \in R}
DoneOf(q, R) == {e \in [q : Requests, reply : Replies] : e.q = q /\ e.reply \in R}

Opens(q) == q.kind \in {"push", "pull"}

\* A command of a call is on a connection, or in the queue of its server, once.
Queues ==
    /\ \A q \in written : /\ q \in DOMAIN calls /\ calls[q].addr \in Addresses /\ calls[q].result = NoReply
    /\ \A a \in Addresses : \A i \in DOMAIN msgs[a] :
          /\ msgs[a][i] \in DOMAIN calls \ written
          /\ calls[msgs[a][i]].addr = a /\ calls[msgs[a][i]].result = NoReply
          /\ \A j \in DOMAIN msgs[a] : msgs[a][i] = msgs[a][j] => i = j

\* The media server has still to answer it.
Unanswered(q) == q \in written \/ (Opens(q) /\ q \in Due)

\* It was not and will not be carried out, unless someone gave up on it.
Failed(q) == q \in lost \/ Misled(q) \/ (calls[q].state = "done" /\ q \notin Due /\ calls[q].result # Ok)

(* What the gateway knows of a call that opens a session: the server carried it   *)
(* out if the reply is Ok, and failed otherwise, unless someone gave up on it or  *)
(* its connection got the answer of another, for which someone gave up before.    *)
CallSound(q) ==
    /\ calls[q].kind = q.kind
    /\ calls[q].reply = NoReply => calls[q].state = "sent"
    /\ calls[q].reply # "closed"
    /\ calls[q].state = "abandoned" => q \in lost
    /\ Unanswered(q) /\ calls[q].state # "sent" => lost # {}
    /\ Misled(q) => lost # {}
    /\ calls[q].result # NoReply => calls[q].addr \in Addresses
    /\ \A e \in calls[q].heard :
          e.from = q => q \notin written /\ (Opens(q) => calls[q].result = e.says)
    /\ Opens(q) /\ calls[q].reply = Ok => calls[q].result = Ok \/ Misled(q)
    /\ Opens(q) /\ calls[q].reply \notin {NoReply, Ok} => Failed(q)
CallsInv == Queues /\ \A q \in DOMAIN calls : CallSound(q)

\* A finished transfer is on the list until the HTTP thread reads it, and there once.
Transfers ==
    \A q \in Requests : Once(done, DoneOf(q, Replies)) /\ (Has(done, DoneOf(q, Replies)) => q \in request_list_)

\* A session opens once: its attempt is in one place, until it is reported.
Single(s) ==
    /\ Once(api, ApiOf(s)) /\ Once(worker, ReplyOf(s, Replies)) /\ Len(report[s]) <= 1
    /\ Has(api, ApiOf(s)) => /\ ~Has(worker, ReplyOf(s, Replies))
                             /\ OpeningCall(s) \notin request_list_ /\ report[s] = <<>>
    /\ Has(worker, ReplyOf(s, Replies)) => OpeningCall(s) \notin request_list_ /\ report[s] = <<>>
    /\ OpeningCall(s) \in request_list_ => report[s] = <<>>
    /\ phase[s] \in {"none", "created"} =>
           /\ ~Has(api, ApiOf(s)) /\ ~Has(worker, ReplyOf(s, Replies))
           /\ OpeningCall(s) \notin request_list_ /\ report[s] = <<>>
           /\ OpeningCall(s) \notin DOMAIN calls
    /\ Has(api, OfferOf(s)) => OpeningCall(s) \notin DOMAIN calls

\* The answer R is on its way to session s.
OnItsWay(s, R) ==
    \/ Has(api, AnswerOf(s, R)) \/ Has(worker, ReplyOf(s, R)) \/ Has(done, DoneOf(OpeningCall(s), R))

Served(q) == CarriedOut(q) \/ Misled(q)
Hopeless(q) == q \in DOMAIN calls => Failed(q)

Evidence(s) ==
    /\ OnItsWay(s, {Ok}) \/ Succeeded(s) => Served(OpeningCall(s))
    /\ OnItsWay(s, Replies \ {Ok}) \/ (report[s] # <<>> /\ ~Succeeded(s)) => Hopeless(OpeningCall(s))

\* Only a stopped session asks to close.
Closings ==
    \A s \in Sessions : ClosingCall(s) \in request_list_ \cup DOMAIN calls => phase[s] = "stopped"

\* A patient application stops what was reported; once that is carried out, it is gone.
Leaves(s) ==
    /\ Patient /\ phase[s] = "stopped" => report[s] # <<>>
    /\ Patient /\ CarriedOut(ClosingCall(s)) /\ OpeningCall(s) \notin lost /\ ~Misled(OpeningCall(s))
           => ~Holds(calls[ClosingCall(s)].addr, s)

Views == \A s \in Sessions : Single(s) /\ Evidence(s) /\ Leaves(s)

\* The tasks that start and stop a device.
StartOf(d) == {t \in ApiTask \cup WorkerTask : t.name \in {"Start", "VcmStart"} /\ t.s = d}
FirstOf(d) == {t \in ApiTask : t.name = "Start" /\ t.s = d}
StopOf(d) == {t \in ApiTask \cup WorkerTask : t.name = "Stop" /\ t.s = d}

\* Once the tasks of q have run, device d, now on or not, is off.
Off(q, d, on) ==
    \/ \E i \in DOMAIN q : q[i] \in StopOf(d) /\ \A j \in DOMAIN q : j > i => q[j] \notin StartOf(d)
    \/ ~on /\ ~Has(q, StartOf(d))

DevicesInv ==
    /\ "mic" \in Devices /\ last["mic"] = "Stop" => Off(worker, "mic", device["mic"])
    /\ "desktop" \in Devices /\ last["desktop"] = "Stop" => Off(api, "desktop", device["desktop"])
    /\ "camera" \in Devices /\ last["camera"] = "Stop" /\ ~early =>
           Off(api, "camera", device["camera"]) /\ ~Has(api, FirstOf("camera"))

IInv == TypeOK /\ CallsInv /\ Transfers /\ Closings /\ Views /\ DevicesInv

--------------------------------------------------------------------------------
(* Queues of tasks. *)

LEMMA Ends ==
  ASSUME NEW T, NEW q \in Seq(T), q # <<>>
  PROVE  /\ Head(q) \in T /\ Head(q) = q[1] /\ 1 \in DOMAIN q
         /\ Tail(q) \in Seq(T) /\ DOMAIN Tail(q) = 1 .. Len(q) - 1 /\ DOMAIN q = 1 .. Len(q) /\ Len(q) \in Nat
         /\ \A i \in DOMAIN Tail(q) : Tail(q)[i] = q[i + 1] /\ i + 1 \in DOMAIN q
OBVIOUS

LEMMA Longer ==
  ASSUME NEW T, NEW q \in Seq(T), NEW e \in T
  PROVE  /\ Append(q, e) \in Seq(T) /\ DOMAIN Append(q, e) = 1 .. Len(q) + 1 /\ DOMAIN q = 1 .. Len(q)
         /\ Len(q) \in Nat /\ Append(q, e)[Len(q) + 1] = e
         /\ \A i \in DOMAIN q : Append(q, e)[i] = q[i]
OBVIOUS

LEMMA Member ==
  ASSUME NEW T, NEW q \in Seq(T), NEW i \in DOMAIN q
  PROVE  q[i] \in T
OBVIOUS

LEMMA TailHas ==
  ASSUME NEW T, NEW q \in Seq(T), q # <<>>, NEW S
  PROVE  /\ Tail(q) \in Seq(T) /\ Head(q) \in T
         /\ Has(Tail(q), S) => Has(q, S)
         /\ Head(q) \notin S => (Has(Tail(q), S) <=> Has(q, S))
         /\ Head(q) \in S => Has(q, S)
         /\ Once(q, S) => Once(Tail(q), S)
         /\ Once(q, S) /\ Head(q) \in S => ~Has(Tail(q), S)
<1>1. Has(Tail(q), S) => Has(q, S)
  BY Ends DEF Has
<1>2. ASSUME Head(q) \notin S, Has(q, S) PROVE Has(Tail(q), S)
  <2>1. PICK i \in DOMAIN q : q[i] \in S
    BY <1>2 DEF Has
  <2>2. i # 1
    BY <2>1, <1>2, Ends
  <2>3. i - 1 \in DOMAIN Tail(q) /\ Tail(q)[i - 1] = q[i]
    BY <2>2, Ends
  <2> QED BY <2>1, <2>3 DEF Has
<1>3. Head(q) \in S => Has(q, S)
  BY Ends DEF Has
<1>4. ASSUME Once(q, S) PROVE Once(Tail(q), S)
  <2> SUFFICES ASSUME NEW i \in DOMAIN Tail(q), NEW j \in DOMAIN Tail(q), Tail(q)[i] \in S, Tail(q)[j] \in S
               PROVE  i = j
    BY DEF Once
  <2>1. i + 1 = j + 1
    BY <1>4, Ends DEF Once
  <2> QED BY <2>1, Ends
<1>5. ASSUME Once(q, S), Head(q) \in S, Has(Tail(q), S) PROVE FALSE
  <2>1. PICK i \in DOMAIN Tail(q) : Tail(q)[i] \in S
    BY <1>5 DEF Has
  <2>2. i + 1 = 1
    BY <2>1, <1>5, Ends DEF Once
  <2> QED BY <2>2, Ends
<1> QED BY <1>1, <1>2, <1>3, <1>4, <1>5, Ends

LEMMA AppendHas ==
  ASSUME NEW T, NEW q \in Seq(T), NEW e \in T, NEW S
  PROVE  /\ Append(q, e) \in Seq(T)
         /\ Has(Append(q, e), S) <=> Has(q, S) \/ e \in S
         /\ Once(q, S) /\ (e \in S => ~Has(q, S)) => Once(Append(q, e), S)
<1>1. Has(Append(q, e), S) <=> Has(q, S) \/ e \in S
  <2>1. ASSUME Has(Append(q, e), S), ~Has(q, S) PROVE e \in S
    <3>1. PICK i \in DOMAIN Append(q, e) : Append(q, e)[i] \in S
      BY <2>1 DEF Has
    <3>2. CASE i \in DOMAIN q
      BY <3>1, <3>2, <2>1, Longer DEF Has
    <3>3. CASE i = Len(q) + 1
      BY <3>1, <3>3, Longer
    <3> QED BY <3>2, <3>3, Longer
  <2>2. ASSUME Has(q, S) PROVE Has(Append(q, e), S)
    <3>1. PICK i \in DOMAIN q : q[i] \in S
      BY <2>2 DEF Has
    <3>2. i \in DOMAIN Append(q, e) /\ Append(q, e)[i] \in S
      BY <3>1, Longer
    <3> QED BY <3>2 DEF Has
  <2>3. ASSUME e \in S PROVE Has(Append(q, e), S)
    <3>1. Len(q) + 1 \in DOMAIN Append(q, e)
      BY Longer
    <3> QED BY <3>1, <2>3, Longer DEF Has
  <2> QED BY <2>1, <2>2, <2>3
<1>2. ASSUME Once(q, S), e \in S => ~Has(q, S) PROVE Once(Append(q, e), S)
  <2> SUFFICES ASSUME NEW i \in DOMAIN Append(q, e), NEW j \in DOMAIN Append(q, e),
                      Append(q, e)[i] \in S, Append(q, e)[j] \in S
               PROVE  i = j
    BY DEF Once
  <2>1. CASE i \in DOMAIN q /\ j \in DOMAIN q
    BY <2>1, <1>2, Longer DEF Once
  <2>2. CASE i \in DOMAIN q /\ j = Len(q) + 1
    BY <2>2, <1>2, Longer DEF Has
  <2>3. CASE j \in DOMAIN q /\ i = Len(q) + 1
    BY <2>3, <1>2, Longer DEF Has
  <2> QED BY <2>1, <2>2, <2>3, Longer
<1> QED BY <1>1, <1>2, Longer

LEMMA EmptyHas ==
  ASSUME NEW T, NEW S
  PROVE  <<>> \in Seq(T) /\ ~Has(<<>>, S) /\ Once(<<>>, S)
BY DEF Has, Once

LEMMA Smaller ==
  ASSUME NEW q, NEW S, NEW R, S \subseteq R
  PROVE  (Has(q, S) => Has(q, R)) /\ (Once(q, R) => Once(q, S))
BY DEF Has, Once

--------------------------------------------------------------------------------
(* Requests. *)

LEMMA RequestFacts ==
  /\ \A s \in Sessions :
        /\ OpeningCall(s) \in Requests /\ OpeningCall(s).s = s /\ OpeningCall(s).kind = Opening(s)
        /\ Opening(s) \in {"push", "pull"} /\ Closing(s) \in {"stoppush", "stoppull"}
        /\ ClosingCall(s) \in Requests /\ ClosingCall(s).s = s /\ ClosingCall(s).kind = Closing(s)
        /\ \A t \in Sessions : /\ OpeningCall(s) # ClosingCall(t)
                               /\ OpeningCall(s) = OpeningCall(t) => s = t
  /\ \A q \in Requests :
        /\ q.s \in Sessions /\ q.kind \in {"push", "pull", "stoppush", "stoppull"}
        /\ q.kind = Opening(q.s) => q = OpeningCall(q.s)
        /\ q.kind # Opening(q.s) => q = ClosingCall(q.s) /\ q.kind = Closing(q.s)
        /\ q = OpeningCall(q.s) \/ q = ClosingCall(q.s)
BY DEF Requests, Request, OpeningCall, ClosingCall, Opening, Closing

LEMMA ServerFacts ==
  /\ Servers \in Seq(Addresses) /\ Len(Servers) \in Nat \ {0}
  /\ \A i \in 1 .. Len(Servers) : Servers[i] \in Addresses
  /\ DOMAIN Servers = 1 .. Len(Servers)
BY ServersAssumption DEF Addresses

LEMMA DueIs ==
  /\ \A x : x \in Due <=> x \in written \/ \E a \in Addresses : \E i \in DOMAIN msgs[a] : msgs[a][i] = x
  /\ \A x : x \in Due' <=> x \in written' \/ \E a \in Addresses : \E i \in DOMAIN msgs'[a] : msgs'[a][i] = x
<1>1. \A a, x : /\ x \in Range(msgs[a]) <=> \E i \in DOMAIN msgs[a] : msgs[a][i] = x
                /\ x \in Range(msgs'[a]) <=> \E i \in DOMAIN msgs'[a] : msgs'[a][i] = x
  BY DEF Range
<1>2. Due = written \cup UNION {Range(msgs[a]) : a \in Addresses} /\ Due' = written' \cup UNION {Range(msgs'[a]) : a \in Addresses}
  BY DEF Due
<1>3. \A x : x \in Due <=> x \in written \/ \E a \in Addresses : x \in Range(msgs[a])
  BY <1>2
<1>4. \A x : x \in Due' <=> x \in written' \/ \E a \in Addresses : x \in Range(msgs'[a])
  BY <1>2
<1>5. \A x : x \in Due <=> x \in written \/ \E a \in Addresses : \E i \in DOMAIN msgs[a] : msgs[a][i] = x
  BY <1>1, <1>3
<1>6. \A x : x \in Due' <=> x \in written' \/ \E a \in Addresses : \E i \in DOMAIN msgs'[a] : msgs'[a][i] = x
  BY <1>1, <1>4
<1> QED BY <1>5, <1>6

LEMMA DueFacts ==
  ASSUME TypeOK
  PROVE  /\ Due \subseteq Requests
         /\ Queues => \A x \in Due : x \in DOMAIN calls /\ calls[x].addr \in Addresses /\ calls[x].result = NoReply
<1>1. ASSUME NEW a \in Addresses, NEW i \in DOMAIN msgs[a] PROVE msgs[a][i] \in Requests
  <2>1. msgs[a] \in Seq(Requests)
    BY DEF TypeOK
  <2> QED BY <2>1, Member
<1>2. Due \subseteq Requests
  BY <1>1, DueIs DEF TypeOK
<1>3. ASSUME Queues, NEW x \in Due
      PROVE  x \in DOMAIN calls /\ calls[x].addr \in Addresses /\ calls[x].result = NoReply
  <2>1. CASE x \in written
    BY <1>3, <2>1 DEF Queues
  <2>2. ASSUME NEW a \in Addresses, NEW i \in DOMAIN msgs[a], msgs[a][i] = x
        PROVE  x \in DOMAIN calls /\ calls[x].addr \in Addresses /\ calls[x].result = NoReply
    BY <1>3, <2>2 DEF Queues
  <2> QED BY <2>1, <2>2, DueIs
<1> QED BY <1>2, <1>3

--------------------------------------------------------------------------------
(* Types. *)

LEMMA TypeInit == Init => TypeOK
<1> SUFFICES ASSUME Init PROVE TypeOK
  OBVIOUS
<1> USE DEF Init, GatewayInit
<1>0. written \subseteq Requests /\ msgs \in [Addresses -> Seq(Requests)]
  OBVIOUS
<1>1. curIndex \in 0 .. Len(Servers) - 1
  BY ServerFacts
<1>2. DOMAIN calls = {} /\ calls \in [DOMAIN calls -> CallRecord]
  OBVIOUS
<1>3. report \in [Sessions -> Seq(Callbacks)] /\ complete \in [Sessions -> BOOLEAN]
  OBVIOUS
<1>4. done \in Seq([q : Requests, reply : Replies]) /\ api \in Seq(ApiTask) /\ worker \in Seq(WorkerTask)
  OBVIOUS
<1>5. /\ published \in [Addresses -> SUBSET Sessions] /\ pulled \in [Addresses -> SUBSET Sessions]
      /\ phase \in [Sessions -> {"none", "created", "started", "stopped"}]
      /\ last \in [Devices -> {"Start", "Stop"}]
  OBVIOUS
<1>6. /\ peer_connection_ \in [Sessions -> BOOLEAN] /\ stats_timer_ \in [Sessions -> BOOLEAN]
      /\ device \in [Devices -> BOOLEAN] /\ early \in BOOLEAN /\ gone \in BOOLEAN /\ broken \in BOOLEAN
  OBVIOUS
<1>7. /\ lost \subseteq Requests /\ async_objs_ \subseteq Sessions /\ request_list_ \subseteq Requests
      /\ DOMAIN calls \subseteq Requests /\ calls_left \in Nat /\ captures_left \in Nat /\ stats_left \in Nat
  BY <1>2, SdkAssumption
<1> QED BY <1>0, <1>1, <1>2, <1>3, <1>4, <1>5, <1>6, <1>7 DEF TypeOK

LEMMA TypeApp ==
  ASSUME TypeOK, App
  PROVE  TypeOK'
<1> USE DEF TypeOK, MayCall, gateway, sdk, capture
<1>1. ASSUME NEW s \in Sessions, NEW named \in BOOLEAN, Create(s, named) PROVE TypeOK'
  <2>1. Task("AddObject", s) \in WorkerTask
    BY DEF Task, WorkerTask
  <2>2. worker' \in Seq(WorkerTask)
    BY <1>1, <2>1, Longer DEF Create
  <2> QED BY <1>1, <2>2 DEF Create
<1>2. ASSUME NEW s \in Sessions, NEW offers \in BOOLEAN, Starts(s, offers), UNCHANGED stats_timer_ PROVE TypeOK'
  <2>1. Task("OnOffer", s) \in ApiTask
    BY DEF Task, ApiTask
  <2>2. api' \in Seq(ApiTask)
    <3>1. CASE UNCHANGED api
      BY <3>1
    <3>2. CASE api' = Append(api, Task("OnOffer", s))
      BY <3>2, <2>1
    <3> QED BY <3>1, <3>2, <1>2 DEF Starts
  <2>3. report' \in [Sessions -> Seq(Callbacks)]
    <3>1. CASE UNCHANGED report
      BY <3>1
    <3>2. CASE Report(s, "OnPushFailed")
      BY <3>2 DEF Report, Callbacks
    <3> QED BY <3>1, <3>2, <1>2 DEF Starts
  <2>4. /\ phase' = [phase EXCEPT ![s] = "started"] /\ calls_left' = calls_left - 1 /\ calls_left > 0
        /\ peer_connection_' = [peer_connection_ EXCEPT ![s] = TRUE]
        /\ UNCHANGED <<gateway, worker, async_objs_, request_list_, done, complete, capture, stats_left, broken>>
    BY <1>2 DEF Starts
  <2> QED BY <1>2, <2>2, <2>3, <2>4
<1>3. ASSUME NEW s \in Sessions, Stops(s), stats_timer_' \in [Sessions -> BOOLEAN] PROVE TypeOK'
  <2>1. Request(s, Closing(s)) \in Requests
    BY DEF Requests
  <2>2. /\ phase' = [phase EXCEPT ![s] = "stopped"] /\ calls_left' = calls_left - 1 /\ calls_left > 0
        /\ request_list_' = request_list_ \cup {Request(s, Closing(s))}
        /\ peer_connection_' = [peer_connection_ EXCEPT ![s] = FALSE]
        /\ UNCHANGED <<gateway, api, worker, async_objs_, done, complete, report, capture, stats_left, broken>>
    BY <1>3 DEF Stops
  <2> QED BY <1>3, <2>1, <2>2
<1>4. ASSUME NEW d \in Devices, NEW op \in {"Start", "Stop"}, Call(d, op) PROVE TypeOK'
  <2>1. d = "mic" => Task(op, d) \in WorkerTask
    BY DEF Task, WorkerTask
  <2>2. d # "mic" => Task(op, d) \in ApiTask
    BY DEF Task, ApiTask
  <2>3. worker' \in Seq(WorkerTask)
    <3>1. CASE UNCHANGED worker
      BY <3>1
    <3>2. CASE d = "mic" /\ worker' = Append(worker, Task(op, d))
      BY <3>2, <2>1
    <3> QED BY <3>1, <3>2, <1>4 DEF Call
  <2>4. api' \in Seq(ApiTask)
    <3>1. CASE UNCHANGED api
      BY <3>1
    <3>2. CASE d # "mic" /\ api' = Append(api, Task(op, d))
      BY <3>2, <2>2
    <3> QED BY <3>1, <3>2, <1>4 DEF Call
  <2>5. last' \in [Devices -> {"Start", "Stop"}]
    BY <1>4 DEF Call, CallDevice
  <2>7. early' \in BOOLEAN
    <3>1. early' = IF d = "camera" THEN op = "Stop" /\ Unreported ELSE early
      BY <1>4 DEF Call, CallDevice
    <3>2. (op = "Stop" /\ Unreported) \in BOOLEAN
      BY Zenon
    <3> QED BY <3>1, <3>2
  <2>6. /\ calls_left > 0 /\ calls_left' = calls_left - 1
        /\ captures_left > 0 /\ captures_left' = captures_left - 1
        /\ UNCHANGED <<gateway, async_objs_, request_list_, done, phase, complete, peer_connection_,
                       stats_timer_, report, device, gone, stats_left, broken>>
    BY <1>4 DEF Call, CallDevice
  <2> QED BY <2>3, <2>4, <2>5, <2>6, <2>7
<1> QED BY <1>1, <1>2, <1>3, <1>4 DEF App, StartPush, StartPull, StopPush, StopPull, Sessions, Starts

LEMMA StartedTypes ==
  ASSUME TypeOK, NEW d, NEW works \in BOOLEAN, Started(d, works)
  PROVE  device' \in [Devices -> BOOLEAN]
<1> DEFINE w == device[d] \/ works
<1>1. w \in BOOLEAN
  OBVIOUS
<1>2. device' = [device EXCEPT ![d] = w]
  BY DEF Started
<1> HIDE DEF w
<1> QED BY <1>1, <1>2 DEF TypeOK

LEMMA TypeApi ==
  ASSUME TypeOK, ApiThread
  PROVE  TypeOK'
<1> USE DEF TypeOK, gateway, sdk, capture
<1>1. api # <<>> /\ Head(api) \in ApiTask /\ Tail(api) \in Seq(ApiTask)
  BY Ends DEF ApiThread, OnPushOffer, OnPullOffer, VcmStart, HandleHttpPushResponse, HandleHttpPullResponse,
       GetRtcStats, CameraStart, DesktopStart, VideoStop, RunsApi
<1>2. ASSUME NEW made \in BOOLEAN, NEW failed \in Callbacks, RunsApi("OnOffer"), Offered(made, failed) PROVE TypeOK'
  <2>1. Head(api).s \in Sessions
    BY <1>1, <1>2 DEF RunsApi, ApiTask
  <2>2. request_list_' \subseteq Requests
    BY <1>2, <2>1, RequestFacts DEF Offered, OpeningCall
  <2>3. report' \in [Sessions -> Seq(Callbacks)]
    <3>1. CASE UNCHANGED report
      BY <3>1
    <3>2. CASE Report(Head(api).s, failed)
      BY <3>2, <2>1 DEF Report
    <3> QED BY <3>1, <3>2, <1>2 DEF Offered
  <2>4. broken' \in BOOLEAN
    BY <1>2, <2>1, Zenon DEF Offered
  <2> QED BY <1>1, <1>2, <2>2, <2>3, <2>4 DEF Offered
<1>3. ASSUME NEW success \in Callbacks, NEW timer \in BOOLEAN, RunsApi("HandleResponse"), Handled(success, timer) PROVE TypeOK'
  <2>1. Head(api).s \in Sessions
    BY <1>1, <1>3 DEF RunsApi, ApiTask
  <2>2. report' \in [Sessions -> Seq(Callbacks)]
    <3>1. CASE UNCHANGED report
      BY <3>1
    <3>2. ASSUME NEW c \in Callbacks, Report(Head(api).s, c) PROVE report' \in [Sessions -> Seq(Callbacks)]
      BY <3>2, <2>1 DEF Report
    <3>3. "OnPushFailed" \in Callbacks
      BY DEF Callbacks
    <3> QED BY <3>1, <3>2, <3>3, <1>3 DEF Handled
  <2>3. broken' \in BOOLEAN /\ stats_timer_' \in [Sessions -> BOOLEAN]
    BY <1>3, <2>1 DEF Handled
  <2> QED BY <1>1, <1>3, <2>2, <2>3 DEF Handled
<1>4. CASE GetRtcStats
  <2>1. broken' \in BOOLEAN
    BY <1>4, Zenon DEF GetRtcStats
  <2> QED BY <1>1, <1>4, <2>1 DEF GetRtcStats
<1>5. CASE CameraStart
  <2>1. Task("VcmStart", "camera") \in ApiTask
    BY <1>1, <1>5 DEF CameraStart, RunsApi, ApiTask, Task
  <2>2. api' \in Seq(ApiTask)
    BY <1>1, <1>5, <2>1, Longer DEF CameraStart
  <2> QED BY <1>5, <2>2 DEF CameraStart
<1>6. ASSUME NEW works \in BOOLEAN, VcmStart(works) PROVE TypeOK'
  BY <1>1, <1>6, StartedTypes DEF VcmStart
<1>7. CASE DesktopStart
  <2>1. broken' \in BOOLEAN
    BY <1>7, Zenon DEF DesktopStart
  <2> QED BY <1>1, <1>7, <2>1, StartedTypes DEF DesktopStart
<1>8. CASE VideoStop
  <2>1. gone' \in BOOLEAN
    BY <1>8, Zenon DEF VideoStop
  <2> QED BY <1>1, <1>8, <2>1 DEF VideoStop
<1>9. CASE HandleHttpPushResponse \/ HandleHttpPullResponse
  BY <1>9, <1>3 DEF HandleHttpPushResponse, HandleHttpPullResponse, Callbacks
<1>10. ASSUME NEW b \in BOOLEAN, OnPushOffer(b) \/ OnPullOffer(b) PROVE TypeOK'
  BY <1>10, <1>2 DEF OnPushOffer, OnPullOffer, Callbacks
<1> QED BY <1>4, <1>5, <1>6, <1>7, <1>8, <1>9, <1>10 DEF ApiThread

LEMMA TypeWorker ==
  ASSUME TypeOK, WorkerThread
  PROVE  TypeOK'
<1> USE DEF TypeOK, gateway, sdk, capture
<1>1. worker # <<>> /\ Head(worker) \in WorkerTask /\ Tail(worker) \in Seq(WorkerTask)
  BY Ends DEF WorkerThread, AddObject, HttpReply, MicStop, MicStart, RunsWorker
<1>2. CASE AddObject
  <2>1. Head(worker).s \in Sessions
    BY <1>1, <1>2 DEF AddObject, RunsWorker, WorkerTask
  <2> QED BY <1>1, <1>2, <2>1 DEF AddObject
<1>3. CASE HttpReply
  <2>1. Head(worker).s \in Requests /\ Head(worker).reply \in Replies
    BY <1>1, <1>3 DEF HttpReply, RunsWorker, WorkerTask
  <2>2. [Task("HandleResponse", Head(worker).s.s) EXCEPT !.reply = Head(worker).reply] \in ApiTask
    BY <2>1, RequestFacts DEF Task, ApiTask
  <2>3. api' \in Seq(ApiTask)
    <3>1. CASE UNCHANGED api
      BY <3>1
    <3>2. CASE api' = Append(api, [Task("HandleResponse", Head(worker).s.s) EXCEPT !.reply = Head(worker).reply])
      BY <3>2, <2>2
    <3> QED BY <3>1, <3>2, <1>3 DEF HttpReply
  <2> QED BY <1>1, <1>3, <2>3 DEF HttpReply
<1>4. CASE MicStop
  BY <1>1, <1>4 DEF MicStop
<1>5. ASSUME NEW works \in BOOLEAN, MicStart(works) PROVE TypeOK'
  BY <1>1, <1>5, StartedTypes DEF MicStart
<1> QED BY <1>2, <1>3, <1>4, <1>5 DEF WorkerThread

LEMMA TypeHttp ==
  ASSUME TypeOK, HttpRound \/ (\E s \in Pushers : TimerFires(s))
  PROVE  TypeOK'
<1> USE DEF TypeOK, gateway, sdk, capture
<1>1. CASE HttpRound
  <2>1. done # <<>> /\ Head(done) \in [q : Requests, reply : Replies] /\ Tail(done) \in Seq([q : Requests, reply : Replies])
    BY <1>1, Ends DEF HttpRound
  <2>2. [name |-> "HttpReply", s |-> Head(done).q, reply |-> Head(done).reply] \in WorkerTask
    BY <2>1 DEF WorkerTask
  <2>3. worker' \in Seq(WorkerTask)
    BY <1>1, <2>2 DEF HttpRound
  <2> QED BY <1>1, <2>1, <2>3 DEF HttpRound
<1>2. ASSUME NEW s \in Pushers, TimerFires(s) PROVE TypeOK'
  <2>1. Task("GetRtcStats", s) \in ApiTask
    BY DEF Task, ApiTask
  <2>2. api' \in Seq(ApiTask)
    BY <1>2, <2>1 DEF TimerFires
  <2> QED BY <1>2, <2>2 DEF TimerFires
<1> QED BY <1>1, <1>2

(* A transfer reaches the gateway as one new call. *)
NewlyCalled(q, c) ==
    /\ q \in request_list_ /\ ~Has(done, DoneOf(q, Replies)) /\ q \notin DOMAIN calls
    /\ calls' = Entered(q, c) /\ c \in CallRecord
    /\ c.kind = q.kind /\ c.result = NoReply /\ c.heard = {} /\ c.reply \in {NoReply, ErrParam}
    /\ c.reply = NoReply => c.state = "sent" /\ c.addr \in Addresses /\ written' = written \cup {q}
    /\ c.reply = ErrParam => c.state = "done" /\ written' = written
    /\ lost \subseteq lost' /\ lost' \subseteq lost \cup {q}
    /\ curIndex' \in 0 .. Len(Servers) - 1
    /\ UNCHANGED <<msgs, published, pulled, sdk, capture, calls_left, stats_left, broken>>

LEMMA InMultiHas ==
  ASSUME TypeOK, NEW q \in Requests
  PROVE  InMulti(q) <=> q \in request_list_ /\ ~Has(done, DoneOf(q, Replies))
<1>1. ASSUME NEW i \in DOMAIN done PROVE done[i] \in [q : Requests, reply : Replies]
  <2>1. done \in Seq([q : Requests, reply : Replies])
    BY DEF TypeOK
  <2> QED BY <2>1, Member
<1>2. ASSUME NEW i \in DOMAIN done PROVE done[i] \in DoneOf(q, Replies) <=> done[i].q = q
  BY <1>1 DEF DoneOf
<1>3. Has(done, DoneOf(q, Replies)) <=> \E i \in DOMAIN done : done[i].q = q
  BY <1>2 DEF Has
<1> QED BY <1>3 DEF InMulti

LEMMA TransferCalls ==
  ASSUME TypeOK, NEW q \in request_list_, NEW connects \in BOOLEAN, Transfer(q, connects)
  PROVE  \E c : NewlyCalled(q, c)
<1> USE DEF TypeOK
<1>1. q \in Requests /\ q.kind \in {"push", "pull", "stoppush", "stoppull"}
  BY RequestFacts
<1>0. {x \in Due : calls[x].state # "sent"} \in SUBSET Requests
  BY DueFacts
<1>2. Execute(q, q.kind, complete[q.s], connects)
  BY <1>1 DEF Transfer, PushAction, PullAction, StopPushAction, StopPullAction
<1>3. q \in request_list_ /\ ~Has(done, DoneOf(q, Replies))
      /\ UNCHANGED <<sdk, capture, calls_left, stats_left, broken>>
  BY <1>1, InMultiHas DEF Transfer
<1>4. CASE Refuse(q, q.kind)
  <2> DEFINE c == NewCall(q.kind, "nowhere", "done", ErrParam)
  <2>1. /\ c \in CallRecord /\ c.kind = q.kind /\ c.result = NoReply /\ c.reply = ErrParam /\ c.state = "done"
        /\ c.heard = {}
    BY <1>0, <1>1 DEF NewCall, CallRecord, Replies, ErrParam, NoReply
  <2>2. /\ q \notin DOMAIN calls /\ calls' = Entered(q, c)
        /\ UNCHANGED <<curIndex, written, msgs, published, pulled, lost>>
    BY <1>4 DEF Refuse, streams
  <2> HIDE DEF c
  <2>3. NewlyCalled(q, c)
    BY <1>3, <2>1, <2>2 DEF NewlyCalled, ErrParam, NoReply
  <2> QED BY <2>3
<1>5. CASE Do(q, q.kind, connects)
  <2>1. Picked \in DOMAIN Servers /\ Servers[Picked] \in Addresses /\ NextIndex \in 0 .. Len(Servers) - 1
    BY ServerFacts DEF Picked, NextIndex
  <2> DEFINE c == IF connects THEN NewCall(q.kind, Servers[Picked], "sent", NoReply)
                  ELSE NewCall(q.kind, Servers[Picked], "done", ErrParam)
  <2>2. q \notin DOMAIN calls /\ calls' = Entered(q, c) /\ UNCHANGED <<msgs, published, pulled>>
    BY <1>5, Zenon DEF Do, streams
  <2>3. curIndex' = NextIndex /\ (lost' = lost \/ lost' = lost \cup {q})
    BY <1>5, Zenon DEF Do
  <2>4. \/ c = NewCall(q.kind, Servers[Picked], "sent", NoReply) /\ written' = written \cup {q}
        \/ c = NewCall(q.kind, Servers[Picked], "done", ErrParam) /\ written' = written
    BY <1>5, Zenon DEF Do
  <2> HIDE DEF c
  <2>5. /\ c \in CallRecord /\ c.kind = q.kind /\ c.result = NoReply /\ c.addr \in Addresses /\ c.heard = {}
        /\ \/ c.reply = NoReply /\ c.state = "sent" /\ written' = written \cup {q}
           \/ c.reply = ErrParam /\ c.state = "done" /\ written' = written
    BY <1>0, <1>1, <2>1, <2>4 DEF NewCall, CallRecord, Replies, ErrParam, NoReply
  <2>6. NewlyCalled(q, c)
    BY <1>3, <2>1, <2>2, <2>3, <2>5 DEF NewlyCalled, ErrParam, NoReply
  <2> QED BY <2>6
<1> QED BY <1>2, <1>4, <1>5 DEF Execute

LEMMA TypeNetwork ==
  ASSUME TypeOK, Network
  PROVE  TypeOK'
<1> USE DEF TypeOK, gateway, sdk, capture
<1>1. ASSUME NEW q \in request_list_, Response(q) PROVE TypeOK'
  <2>1. calls[q].reply \in Replies
    BY <1>1 DEF Response, CallRecord
  <2>2. done' \in Seq([q : Requests, reply : Replies])
    BY <1>1, <2>1 DEF Response
  <2> QED BY <1>1, <2>2 DEF Response
<1>2. ASSUME NEW q \in request_list_, TransferTimeout(q) PROVE TypeOK'
  <2>1. "closed" \in Replies
    BY DEF Replies
  <2>2. done' \in Seq([q : Requests, reply : Replies])
    BY <1>2, <2>1 DEF TransferTimeout
  <2> QED BY <1>2, <2>2 DEF TransferTimeout, streams
<1>3. ASSUME NEW q \in request_list_, NEW connects \in BOOLEAN, Transfer(q, connects) PROVE TypeOK'
  <2>1. PICK c : NewlyCalled(q, c)
    BY <1>3, TransferCalls
  <2>2. DOMAIN calls' = DOMAIN calls \cup {q} /\ calls' \in [DOMAIN calls' -> CallRecord]
    BY <2>1 DEF NewlyCalled, Entered
  <2> QED BY <2>1, <2>2 DEF NewlyCalled
<1> QED BY <1>1, <1>2, <1>3 DEF Network

(* The steps of the gateway and the server, with what they do to a call. *)
Answer(r, says) == [from |-> r, says |-> says]

\* Those of H hear the answer of r; the results of the calls may have changed.
Tells(H, r, says) ==
    /\ DOMAIN calls' = DOMAIN calls /\ calls' = [x \in DOMAIN calls' |-> calls'[x]]
    /\ \A x \in DOMAIN calls :
          /\ calls'[x] \in CallRecord
          /\ calls'[x].kind = calls[x].kind /\ calls'[x].addr = calls[x].addr
          /\ calls'[x].state = calls[x].state /\ calls'[x].reply = calls[x].reply
          /\ calls'[x].heard = IF x \in H THEN {Answer(r, says)} ELSE calls[x].heard
    /\ \A x \in H : /\ calls[x].heard = {}
                    /\ x # r => calls[r].state # "sent"

\* The command at the head of the queue of server a.
First(a) == Head(msgs[a])

LEMMA FirstFacts ==
  ASSUME TypeOK, Queues, NEW a \in Addresses, msgs[a] # <<>>
  PROVE  /\ First(a) \in Requests /\ First(a) \in DOMAIN calls /\ First(a) \in Due /\ First(a) \notin written
         /\ calls[First(a)].addr = a /\ calls[First(a)].result = NoReply
<1>1. msgs[a] \in Seq(Requests)
  BY DEF TypeOK
<1>2. 1 \in DOMAIN msgs[a] /\ First(a) = msgs[a][1] /\ First(a) \in Requests
  BY <1>1, Ends DEF First
<1>3. First(a) \in Due
  BY <1>2, DueIs
<1> QED BY <1>2, <1>3 DEF Queues

LEMMA HearersFacts ==
  ASSUME NEW r, NEW H \in Hearers(r), r \in DOMAIN calls
  PROVE  \A x \in H : x \in DOMAIN calls /\ calls[x].heard = {} /\ (x # r => calls[r].state # "sent")
BY DEF Hearers

LEMMA HearingTells ==
  ASSUME TypeOK, NEW r \in DOMAIN calls, NEW H \in Hearers(r), NEW says \in {Ok, ErrNetwork},
         NEW c, DOMAIN c = DOMAIN calls, \A x \in DOMAIN calls : c[x] \in CallRecord,
         \A x \in DOMAIN calls :
             /\ c[x].kind = calls[x].kind /\ c[x].addr = calls[x].addr
             /\ c[x].state = calls[x].state /\ c[x].reply = calls[x].reply /\ c[x].heard = calls[x].heard,
         calls' = Hearing(c, H, r, says)
  PROVE  /\ Tells(H, r, says)
         /\ \A x \in DOMAIN calls : calls'[x].result = c[x].result
<1>1. r \in Requests /\ Answer(r, says) \in [from : Requests, says : {Ok, ErrNetwork}]
  BY DEF TypeOK, Answer
<1>2. /\ DOMAIN calls' = DOMAIN calls /\ calls' = [x \in DOMAIN calls' |-> calls'[x]]
      /\ \A x \in DOMAIN calls : calls'[x] = IF x \in H THEN [c[x] EXCEPT !.heard = {Answer(r, says)}] ELSE c[x]
  BY DEF Hearing, Answer
<1>3. ASSUME NEW x \in DOMAIN calls
      PROVE  /\ calls'[x] \in CallRecord /\ calls'[x].result = c[x].result
             /\ calls'[x].kind = c[x].kind /\ calls'[x].addr = c[x].addr
             /\ calls'[x].state = c[x].state /\ calls'[x].reply = c[x].reply
             /\ calls'[x].heard = IF x \in H THEN {Answer(r, says)} ELSE c[x].heard
  <2>1. c[x] \in CallRecord
    OBVIOUS
  <2>2. PICK h : h = {Answer(r, says)}
    OBVIOUS
  <2>3. h \in SUBSET [from : Requests, says : {Ok, ErrNetwork}]
    BY <1>1, <2>2
  <2>4. CASE x \in H
    <3>1. calls'[x] = [c[x] EXCEPT !.heard = h]
      BY <1>2, <2>2, <2>4
    <3> QED BY <2>1, <2>2, <2>3, <2>4, <3>1 DEF CallRecord
  <2>5. CASE x \notin H
    BY <1>2, <2>1, <2>5
  <2> QED BY <2>4, <2>5
<1>4. \A x \in H : calls[x].heard = {} /\ (x # r => calls[r].state # "sent")
  BY HearersFacts
<1>5. \A x \in DOMAIN calls : calls'[x].result = c[x].result
  BY <1>3
<1> HIDE DEF Answer
<1>6. ASSUME NEW x \in DOMAIN calls
      PROVE  /\ calls'[x] \in CallRecord
             /\ calls'[x].kind = calls[x].kind /\ calls'[x].addr = calls[x].addr
             /\ calls'[x].state = calls[x].state /\ calls'[x].reply = calls[x].reply
             /\ calls'[x].heard = IF x \in H THEN {Answer(r, says)} ELSE calls[x].heard
  BY <1>3, <1>6
<1> QED BY <1>2, <1>4, <1>5, <1>6 DEF Tells

(* What ProcessRequest and Serve do. *)
LEMMA ProcessTells ==
  ASSUME TypeOK, Queues, NEW r \in DOMAIN calls, ProcessRequest(r)
  PROVE  \E H : /\ Tells(H, r, Ok) /\ \A x \in DOMAIN calls : calls'[x].result = calls[x].result
                /\ H # {} => IsStop(r)
<1>1. \A x \in DOMAIN calls : calls[x] \in CallRecord
  BY DEF TypeOK
<1>2. CASE IsStop(r)
  <2>1. PICK H \in Hearers(r) : calls' = Hearing(calls, H, r, Ok)
    BY <1>2 DEF ProcessRequest
  <2> QED BY <1>1, <1>2, <2>1, HearingTells
<1>3. CASE ~IsStop(r)
  <2>1. calls' = calls
    BY <1>3 DEF ProcessRequest
  <2>2. Tells({}, r, Ok)
    <3>1. calls = [x \in DOMAIN calls |-> calls[x]]
      BY DEF TypeOK
    <3> QED BY <1>1, <2>1, <3>1 DEF Tells
  <2> QED BY <2>1, <2>2
<1> QED BY <1>2, <1>3

LEMMA ResultFacts ==
  ASSUME NEW r
  PROVE  Result(r) \in {Ok, ErrNetwork}
BY DEF Result

LEMMA ServeTells ==
  ASSUME TypeOK, Queues, NEW a \in Addresses, Serve(a)
  PROVE  \E H : /\ Tells(H, First(a), Result(First(a)))
                /\ \A x \in DOMAIN calls : calls'[x].result = IF x = First(a) THEN Result(First(a)) ELSE calls[x].result
                /\ H # {} => ~IsStop(First(a))
<1>1. PICK r, v : r = First(a) /\ v = Result(First(a))
  OBVIOUS
<1>2. r \in DOMAIN calls /\ v \in {Ok, ErrNetwork}
  BY <1>1, FirstFacts, ResultFacts DEF Serve
<1>3. PICK c : c = [calls EXCEPT ![r].result = v]
  OBVIOUS
<1>4. c = WithResult(r)
  BY <1>1, <1>3 DEF WithResult
<1>5. ASSUME NEW x \in DOMAIN calls
      PROVE  /\ c[x] \in CallRecord /\ c[x].result = IF x = r THEN v ELSE calls[x].result
             /\ c[x].kind = calls[x].kind /\ c[x].addr = calls[x].addr
             /\ c[x].state = calls[x].state /\ c[x].reply = calls[x].reply /\ c[x].heard = calls[x].heard
  <2>1. calls[x] \in CallRecord
    BY DEF TypeOK
  <2>2. CASE x = r
    <3>1. c[x] = [calls[x] EXCEPT !.result = v]
      BY <1>3, <2>2
    <3> QED BY <1>2, <2>1, <2>2, <3>1 DEF CallRecord
  <2>3. CASE x # r
    BY <1>3, <2>1, <2>3
  <2> QED BY <2>2, <2>3
<1>6. DOMAIN c = DOMAIN calls
  BY <1>3
<1>7. CASE ~IsStop(r)
  <2>1. PICK H \in Hearers(r) : calls' = Hearing(c, H, r, v)
    BY <1>1, <1>4, <1>7 DEF Serve, First
  <2>2. Tells(H, r, v) /\ \A x \in DOMAIN calls : calls'[x].result = c[x].result
    BY <1>2, <1>5, <1>6, <2>1, HearingTells
  <2> QED BY <1>1, <1>5, <1>7, <2>2
<1>8. CASE IsStop(r)
  <2>1. calls' = c
    BY <1>1, <1>4, <1>8 DEF Serve, First
  <2>2. Tells({}, r, v)
    <3>1. c = [x \in DOMAIN c |-> c[x]]
      BY <1>3
    <3> QED BY <1>5, <1>6, <2>1, <3>1 DEF Tells
  <2> QED BY <1>1, <1>5, <2>1, <2>2
<1> QED BY <1>7, <1>8

LEMMA TellsType ==
  ASSUME TypeOK, NEW H, NEW r, NEW says, Tells(H, r, says)
  PROVE  calls' \in [DOMAIN calls' -> CallRecord] /\ DOMAIN calls' \subseteq Requests
<1>1. calls' = [x \in DOMAIN calls' |-> calls'[x]] /\ DOMAIN calls' = DOMAIN calls
  BY DEF Tells
<1>2. \A x \in DOMAIN calls' : calls'[x] \in CallRecord
  BY DEF Tells
<1>3. DOMAIN calls' \subseteq Requests
  BY <1>1 DEF TypeOK
<1> QED BY <1>1, <1>2, <1>3

LEMMA TypeAnswers ==
  ASSUME TypeOK, CallsInv, Answers \/ Removals
  PROVE  TypeOK'
<1> USE DEF TypeOK, gateway, sdk, capture, streams
<1>0. UNCHANGED <<sdk, capture, calls_left, stats_left, broken>> /\ Queues
  BY DEF Answers, Removals, Aside, CallsInv
<1>1. ASSUME NEW r \in DOMAIN calls, ProcessRequest(r) PROVE TypeOK'
  <2>1. PICK H : Tells(H, r, Ok)
    BY <1>0, <1>1, ProcessTells
  <2>2. r \in Requests /\ calls[r].addr \in Addresses
    BY <1>0, <1>1 DEF ProcessRequest, Queues
  <2>3. msgs' \in [Addresses -> Seq(Requests)]
    BY <1>1, <2>2 DEF ProcessRequest
  <2>4. written' \subseteq Requests /\ UNCHANGED <<curIndex, published, pulled, lost>>
    BY <1>1 DEF ProcessRequest
  <2> QED BY <1>0, <2>1, <2>3, <2>4, TellsType
<1>2. ASSUME NEW a \in Addresses, Serve(a) PROVE TypeOK'
  <2>1. PICK H : Tells(H, First(a), Result(First(a)))
    BY <1>0, <1>2, ServeTells
  <2>2. First(a) \in Requests /\ First(a).s \in Sessions
    BY <1>0, <1>2, FirstFacts, RequestFacts DEF Serve
  <2>3. msgs' \in [Addresses -> Seq(Requests)]
    <3>1. Tail(msgs[a]) \in Seq(Requests)
      BY <1>2, Ends DEF Serve
    <3> QED BY <1>2, <3>1 DEF Serve
  <2>4. UNCHANGED <<curIndex, written, lost>>
    BY <1>2 DEF Serve
  <2>5. \E P \in SUBSET Sessions : published' = [published EXCEPT ![a] = P]
    <3>1. published[a] \subseteq Sessions
      OBVIOUS
    <3> QED BY <1>2, <2>2, <3>1 DEF Serve, First
  <2>6. \E P \in SUBSET Sessions : pulled' = [pulled EXCEPT ![a] = P]
    <3>1. pulled[a] \subseteq Sessions
      OBVIOUS
    <3> QED BY <1>2, <2>2, <3>1 DEF Serve, First
  <2>7. published' \in [Addresses -> SUBSET Sessions] /\ pulled' \in [Addresses -> SUBSET Sessions]
    BY <2>5, <2>6
  <2> QED BY <1>0, <2>1, <2>3, <2>4, <2>7, TellsType
<1>3. ASSUME NEW r \in DOMAIN calls, ReadResponse(r) PROVE TypeOK'
  <2>1. r \in Requests /\ calls[r] \in CallRecord
    OBVIOUS
  <2>2. \E v \in {ErrNetwork, Ok} : calls' = [calls EXCEPT ![r].state = "done", ![r].reply = v]
    BY <1>3 DEF ReadResponse, Replied
  <2>3. calls' \in [DOMAIN calls -> CallRecord]
    <3>1. PICK v \in {ErrNetwork, Ok} : calls' = [calls EXCEPT ![r].state = "done", ![r].reply = v]
      BY <2>2
    <3>2. [calls[r] EXCEPT !.state = "done", !.reply = v] \in CallRecord
      BY <2>1 DEF CallRecord, Replies
    <3> QED BY <3>1, <3>2
  <2> QED BY <1>0, <1>3, <2>3 DEF ReadResponse
<1>4. ASSUME NEW r \in DOMAIN calls, DeadlineExceeded(r) PROVE TypeOK'
  <2>1. r \in Requests /\ calls[r] \in CallRecord
    OBVIOUS
  <2>2. calls' \in [DOMAIN calls -> CallRecord]
    BY <1>4, <2>1 DEF CallRecord, Replies, DeadlineExceeded
  <2> QED BY <1>0, <1>4, <2>1, <2>2 DEF DeadlineExceeded
<1>5. ASSUME NEW a \in Addresses, OnStreamException(a) PROVE TypeOK'
  BY <1>0, <1>5 DEF OnStreamException
<1> QED BY <1>1, <1>2, <1>3, <1>4, <1>5 DEF Answers, Removals

--------------------------------------------------------------------------------
(* Steps that have nothing to do with the opening of a session. *)

OpeningTasks == {t \in ApiTask : t.name \in {"OnOffer", "HandleResponse"}}
ReplyTasks == {t \in WorkerTask : t.name = "HttpReply"}
Keeping(q, p, S) == (Has(p, S) <=> Has(q, S)) /\ (Once(q, S) => Once(p, S))
SameApi == \A S \in SUBSET OpeningTasks : Keeping(api, api', S)
SameWorker == \A S \in SUBSET ReplyTasks : Keeping(worker, worker', S)
Quiet ==
    /\ SameApi /\ SameWorker
    /\ UNCHANGED <<gateway, request_list_, done, report>>
    /\ \/ UNCHANGED phase
       \/ \E s \in Sessions : phase[s] = "none" /\ phase' = [phase EXCEPT ![s] = "created"]

LEMMA QuietApp ==
  ASSUME TypeOK, (\E s \in Sessions, named \in BOOLEAN : Create(s, named))
                 \/ (\E d \in Devices, op \in {"Start", "Stop"} : Call(d, op))
  PROVE  Quiet
<1> USE DEF TypeOK
<1>1. ASSUME NEW s \in Sessions, NEW named \in BOOLEAN, Create(s, named) PROVE Quiet
  <2>1. Task("AddObject", s) \in WorkerTask \ ReplyTasks
    BY DEF Task, WorkerTask, ReplyTasks
  <2>2. worker' = Append(worker, Task("AddObject", s)) /\ UNCHANGED <<api, gateway, request_list_, done, report>>
        /\ phase[s] = "none" /\ phase' = [phase EXCEPT ![s] = "created"]
    BY <1>1 DEF Create
  <2>3. SameWorker
    <3> SUFFICES ASSUME NEW S \in SUBSET ReplyTasks PROVE Keeping(worker, worker', S)
      BY DEF SameWorker
    <3>1. Task("AddObject", s) \notin S
      BY <2>1
    <3> QED BY <2>1, <2>2, <3>1, AppendHas DEF Keeping
  <2>4. SameApi
    BY <2>2 DEF SameApi, Keeping
  <2> QED BY <2>2, <2>3, <2>4 DEF Quiet
<1>2. ASSUME NEW d \in Devices, NEW op \in {"Start", "Stop"}, Call(d, op) PROVE Quiet
  <2>0. UNCHANGED <<gateway, request_list_, done, report, phase>>
    BY <1>2 DEF Call, CallDevice
  <2>1. CASE d = "mic"
    <3>1. Task(op, d) \in WorkerTask \ ReplyTasks
      BY <2>1 DEF Task, WorkerTask, ReplyTasks
    <3>2. worker' = Append(worker, Task(op, d)) /\ UNCHANGED api
      BY <1>2, <2>1 DEF Call
    <3>3. SameWorker
      <4> SUFFICES ASSUME NEW S \in SUBSET ReplyTasks PROVE Keeping(worker, worker', S)
        BY DEF SameWorker
      <4>1. Task(op, d) \notin S
        BY <3>1
      <4> QED BY <3>1, <3>2, <4>1, AppendHas DEF Keeping
    <3>4. SameApi
      BY <3>2 DEF SameApi, Keeping
    <3> QED BY <2>0, <3>3, <3>4 DEF Quiet
  <2>2. CASE d # "mic"
    <3>1. Task(op, d) \in ApiTask \ OpeningTasks
      BY <2>2 DEF Task, ApiTask, OpeningTasks
    <3>2. api' = Append(api, Task(op, d)) /\ UNCHANGED worker
      BY <1>2, <2>2 DEF Call
    <3>3. SameApi
      <4> SUFFICES ASSUME NEW S \in SUBSET OpeningTasks PROVE Keeping(api, api', S)
        BY DEF SameApi
      <4>1. Task(op, d) \notin S
        BY <3>1
      <4> QED BY <3>1, <3>2, <4>1, AppendHas DEF Keeping
    <3>4. SameWorker
      BY <3>2 DEF SameWorker, Keeping
    <3> QED BY <2>0, <3>3, <3>4 DEF Quiet
  <2> QED BY <2>1, <2>2
<1> QED BY <1>1, <1>2

LEMMA QuietTimer ==
  ASSUME TypeOK, NEW s \in Pushers, TimerFires(s)
  PROVE  Quiet
<1>1. Task("GetRtcStats", s) \in ApiTask \ OpeningTasks
  BY DEF Task, ApiTask, OpeningTasks
<1>2. api' = Append(api, Task("GetRtcStats", s)) /\ UNCHANGED <<worker, gateway, request_list_, done, report, phase>>
  BY DEF TimerFires
<1>3. SameApi
  <2> SUFFICES ASSUME NEW S \in SUBSET OpeningTasks PROVE Keeping(api, api', S)
    BY DEF SameApi
  <2>1. Task("GetRtcStats", s) \notin S
    BY <1>1
  <2> QED BY <1>1, <1>2, <2>1, AppendHas DEF Keeping, TypeOK
<1>4. SameWorker
  BY <1>2 DEF SameWorker, Keeping
<1> QED BY <1>2, <1>3, <1>4 DEF Quiet

LEMMA QuietApi ==
  ASSUME TypeOK, GetRtcStats \/ CameraStart \/ DesktopStart \/ VideoStop \/ (\E b \in BOOLEAN : VcmStart(b))
  PROVE  Quiet
<1> USE DEF TypeOK
<1>1. api # <<>> /\ Head(api).name \in {"GetRtcStats", "Start", "Stop", "VcmStart"}
  BY DEF GetRtcStats, CameraStart, DesktopStart, VideoStop, VcmStart, RunsApi
<1>2. Tail(api) \in Seq(ApiTask)
  BY <1>1, Ends
<1>3. UNCHANGED <<worker, gateway, request_list_, done, report, phase>>
  BY DEF GetRtcStats, CameraStart, DesktopStart, VideoStop, VcmStart, RunsApi
<1>4. CASE api' = Tail(api)
  <2>1. SameApi
    <3> SUFFICES ASSUME NEW S \in SUBSET OpeningTasks PROVE Keeping(api, api', S)
      BY DEF SameApi
    <3>1. Head(api) \notin S
      BY <1>1 DEF OpeningTasks
    <3> QED BY <1>1, <1>4, <3>1, TailHas DEF Keeping
  <2> QED BY <2>1, <1>3 DEF Quiet, SameWorker, Keeping
<1>5. CASE CameraStart
  <2>0. Head(api) \in ApiTask
    BY <1>1, Ends
  <2>1. Task("VcmStart", "camera") \in ApiTask \ OpeningTasks
    BY <1>1, <1>5, <2>0 DEF CameraStart, RunsApi, ApiTask, Task, OpeningTasks
  <2>2. api' = Append(Tail(api), Task("VcmStart", "camera"))
    BY <1>5 DEF CameraStart
  <2>3. SameApi
    <3> SUFFICES ASSUME NEW S \in SUBSET OpeningTasks PROVE Keeping(api, api', S)
      BY DEF SameApi
    <3>1. Head(api) \notin S /\ Task("VcmStart", "camera") \notin S
      BY <1>1, <2>1 DEF OpeningTasks
    <3>2. Keeping(api, Tail(api), S)
      BY <1>1, <3>1, TailHas DEF Keeping
    <3>3. Keeping(Tail(api), api', S)
      <4> DEFINE p == Tail(api)
      <4> HIDE DEF p
      <4>1. p \in Seq(ApiTask) /\ api' = Append(p, Task("VcmStart", "camera"))
        BY <1>2, <2>2 DEF p
      <4>2. Keeping(p, api', S)
        BY <2>1, <3>1, <4>1, AppendHas DEF Keeping
      <4> QED BY <4>2 DEF p
    <3> QED BY <3>2, <3>3 DEF Keeping
  <2> QED BY <2>3, <1>3 DEF Quiet, SameWorker, Keeping
<1> QED BY <1>4, <1>5 DEF GetRtcStats, DesktopStart, VideoStop, VcmStart

LEMMA QuietWorker ==
  ASSUME TypeOK, AddObject \/ MicStop \/ (\E b \in BOOLEAN : MicStart(b))
  PROVE  Quiet
<1> USE DEF TypeOK
<1>1. worker # <<>> /\ Head(worker).name \in {"AddObject", "Start", "Stop"}
  BY DEF AddObject, MicStop, MicStart, RunsWorker
<1>2. worker' = Tail(worker) /\ UNCHANGED <<api, gateway, request_list_, done, report, phase>>
  BY DEF AddObject, MicStop, MicStart
<1>3. SameWorker
  <2> SUFFICES ASSUME NEW S \in SUBSET ReplyTasks PROVE Keeping(worker, worker', S)
    BY DEF SameWorker
  <2>1. Head(worker) \notin S
    BY <1>1 DEF ReplyTasks
  <2> QED BY <1>1, <1>2, <2>1, TailHas DEF Keeping
<1> QED BY <1>2, <1>3 DEF Quiet, SameApi, Keeping

--------------------------------------------------------------------------------
(* The attempt of a session that a step does not touch. *)

LEMMA TaskSets ==
  ASSUME NEW s \in Sessions
  PROVE  /\ OfferOf(s) \subseteq OpeningTasks /\ ApiOf(s) \subseteq OpeningTasks /\ OfferOf(s) \subseteq ApiOf(s)
         /\ \A R \in SUBSET Replies :
               /\ AnswerOf(s, R) \subseteq OpeningTasks /\ AnswerOf(s, R) \subseteq ApiOf(s)
               /\ ReplyOf(s, R) \subseteq ReplyTasks /\ ReplyOf(s, R) \subseteq ReplyOf(s, Replies)
               /\ DoneOf(OpeningCall(s), R) \subseteq DoneOf(OpeningCall(s), Replies)
         /\ ReplyOf(s, Replies) \subseteq ReplyTasks
BY DEF OfferOf, ApiOf, AnswerOf, ReplyOf, OpeningTasks, ReplyTasks, DoneOf

\* Of session s everything is as before; more may be lost.
Untouched(s) ==
    /\ Keeping(api, api', ApiOf(s)) /\ Keeping(api, api', OfferOf(s))
    /\ Keeping(worker, worker', ReplyOf(s, Replies))
    /\ \A R \in SUBSET Replies : /\ Keeping(api, api', AnswerOf(s, R))
                                 /\ Keeping(worker, worker', ReplyOf(s, R))
                                 /\ Keeping(done, done', DoneOf(OpeningCall(s), R))
    /\ report'[s] = report[s]
    /\ OpeningCall(s) \in request_list_' <=> OpeningCall(s) \in request_list_
    /\ phase'[s] \in {"none", "created"} => phase[s] \in {"none", "created"}
    /\ OpeningCall(s) \in DOMAIN calls' <=> OpeningCall(s) \in DOMAIN calls
    /\ OpeningCall(s) \in DOMAIN calls => calls'[OpeningCall(s)] = calls[OpeningCall(s)]
    /\ OpeningCall(s) \in Due' => OpeningCall(s) \in Due
    /\ lost \subseteq lost'

LEMMA UntouchedSound ==
  ASSUME NEW s \in Sessions, Single(s), Evidence(s), Untouched(s)
  PROVE  Single(s)' /\ Evidence(s)'
<1>1. Single(s)'
  BY DEF Single, Untouched, Keeping
<1>2. Succeeded(s)' <=> Succeeded(s)
  BY DEF Succeeded, Untouched
<1>3. (Served(OpeningCall(s))' <=> Served(OpeningCall(s))) /\ (Hopeless(OpeningCall(s)) => Hopeless(OpeningCall(s))')
  BY DEF Served, Hopeless, CarriedOut, Misled, Failed, Untouched
<1>4. ASSUME NEW R \in SUBSET Replies PROVE OnItsWay(s, R)' <=> OnItsWay(s, R)
  BY DEF OnItsWay, Untouched, Keeping
<1>5. {Ok} \in SUBSET Replies /\ Replies \ {Ok} \in SUBSET Replies
  BY DEF Replies
<1>6. (report[s] # <<>>)' <=> report[s] # <<>>
  BY DEF Untouched
<1> QED BY <1>1, <1>2, <1>3, <1>4, <1>5, <1>6 DEF Evidence

LEMMA SameCalls ==
  ASSUME UNCHANGED <<calls, written, msgs>>, lost \subseteq lost'
  PROVE  /\ Due' = Due
         /\ \A q : /\ Served(q)' <=> Served(q)
                   /\ Failed(q) => Failed(q)'
                   /\ Hopeless(q) => Hopeless(q)'
<1>1. Due' = Due
  BY DEF Due
<1>2. \A q : (Failed(q) => Failed(q)') /\ (Served(q)' <=> Served(q))
  BY <1>1 DEF Failed, Misled, Served, CarriedOut
<1> QED BY <1>1, <1>2 DEF Hopeless

LEMMA CallsSame ==
  ASSUME CallsInv, UNCHANGED <<calls, written, msgs>>, lost \subseteq lost'
  PROVE  CallsInv'
<1>1. Due' = Due /\ \A q : Failed(q) => Failed(q)'
  BY SameCalls
<1>2. Queues'
  BY DEF CallsInv, Queues
<1>3. ASSUME NEW q \in DOMAIN calls PROVE CallSound(q)'
  <2>1. CallSound(q)
    BY DEF CallsInv
  <2>2. (Unanswered(q)' <=> Unanswered(q)) /\ (Misled(q)' <=> Misled(q))
    BY <1>1 DEF Unanswered, Misled
  <2> QED BY <1>1, <2>1, <2>2 DEF CallSound
<1> QED BY <1>2, <1>3 DEF CallsInv

LEMMA LeavesSame ==
  ASSUME NEW s \in Sessions, Leaves(s), UNCHANGED <<calls, published, pulled>>, lost \subseteq lost',
         phase'[s] = "stopped" => phase[s] = "stopped" \/ (Patient => report[s] # <<>>),
         report[s] # <<>> => report'[s] # <<>>
  PROVE  Leaves(s)'
BY DEF Leaves, CarriedOut, Misled, Holds

LEMMA QuietStep ==
  ASSUME TypeOK, CallsInv, Transfers, Closings, Views, Quiet
  PROVE  CallsInv' /\ Transfers' /\ Closings' /\ Views'
<1> USE DEF Quiet, gateway
<1>1. \A t \in Sessions : /\ phase[t] = "stopped" <=> phase'[t] = "stopped"
                          /\ phase'[t] \in {"none", "created"} => phase[t] \in {"none", "created"}
  BY DEF TypeOK
<1>2. CallsInv'
  BY CallsSame
<1>3. Transfers' /\ Closings'
  BY <1>1 DEF Transfers, Closings
<1>4. ASSUME NEW s \in Sessions PROVE Single(s)' /\ Evidence(s)' /\ Leaves(s)'
  <2>1. Untouched(s)
    BY <1>1, TaskSets, SameCalls DEF Untouched, SameApi, SameWorker, Keeping
  <2> QED BY <1>1, <2>1, UntouchedSound, LeavesSame DEF Views
<1> QED BY <1>2, <1>3, <1>4 DEF Views

--------------------------------------------------------------------------------
(* Steps on the attempt of one session. *)

TransferType == [q : Requests, reply : Replies]
\* p is q, without its first element or with one more, none of S.
Moves(q, p, T, S) ==
    \/ p = q
    \/ q # <<>> /\ Head(q) \notin S /\ p = Tail(q)
    \/ \E x \in T \ S : p = Append(q, x)

LEMMA MovesKeep ==
  ASSUME NEW T, NEW q \in Seq(T), NEW p, NEW S, Moves(q, p, T, S), NEW U \in SUBSET S
  PROVE  Keeping(q, p, U)
<1>1. CASE p = q
  BY <1>1 DEF Keeping
<1>2. CASE q # <<>> /\ Head(q) \notin S /\ p = Tail(q)
  BY <1>2, TailHas DEF Keeping
<1>3. ASSUME NEW x \in T \ S, p = Append(q, x) PROVE Keeping(q, p, U)
  BY <1>3, AppendHas DEF Keeping
<1> QED BY <1>1, <1>2, <1>3 DEF Moves

LEMMA OthersUntouched ==
  ASSUME TypeOK, NEW t \in Sessions,
         Moves(api, api', ApiTask, ApiOf(t)),
         Moves(worker, worker', WorkerTask, ReplyOf(t, Replies)),
         Moves(done, done', TransferType, DoneOf(OpeningCall(t), Replies)),
         report'[t] = report[t],
         OpeningCall(t) \in request_list_' <=> OpeningCall(t) \in request_list_,
         phase'[t] \in {"none", "created"} => phase[t] \in {"none", "created"},
         OpeningCall(t) \in DOMAIN calls' <=> OpeningCall(t) \in DOMAIN calls,
         OpeningCall(t) \in DOMAIN calls => calls'[OpeningCall(t)] = calls[OpeningCall(t)],
         OpeningCall(t) \in Due' => OpeningCall(t) \in Due,
         lost \subseteq lost'
  PROVE  Untouched(t)
<1>1. api \in Seq(ApiTask) /\ worker \in Seq(WorkerTask) /\ done \in Seq(TransferType)
  BY DEF TypeOK, TransferType
<1>2. Keeping(api, api', ApiOf(t)) /\ Keeping(api, api', OfferOf(t))
  BY <1>1, MovesKeep, TaskSets
<1>3. Keeping(worker, worker', ReplyOf(t, Replies))
  BY <1>1, MovesKeep
<1>4. ASSUME NEW R \in SUBSET Replies
      PROVE  /\ Keeping(api, api', AnswerOf(t, R)) /\ Keeping(worker, worker', ReplyOf(t, R))
             /\ Keeping(done, done', DoneOf(OpeningCall(t), R))
  <2>1. /\ AnswerOf(t, R) \in SUBSET ApiOf(t) /\ ReplyOf(t, R) \in SUBSET ReplyOf(t, Replies)
        /\ DoneOf(OpeningCall(t), R) \in SUBSET DoneOf(OpeningCall(t), Replies)
    BY TaskSets
  <2> QED BY <1>1, <2>1, MovesKeep
<1> QED BY <1>2, <1>3, <1>4 DEF Untouched

LEMMA Told ==
  ASSUME TypeOK, NEW s \in Sessions, NEW c \in Callbacks, report[s] = <<>>, Report(s, c)
  PROVE  /\ report'[s] = <<c>> /\ Len(report'[s]) = 1 /\ report'[s] # <<>>
         /\ Succeeded(s)' <=> c \in {"OnPushSuccess", "OnPullSuccess"}
         /\ \A t \in Sessions : t # s => report'[t] = report[t]
<1>1. report'[s] = <<c>> /\ \A t \in Sessions : t # s => report'[t] = report[t]
  BY DEF Report, TypeOK
<1>2. Succeeded(s)' <=> c \in {"OnPushSuccess", "OnPullSuccess"}
  BY <1>1 DEF Succeeded
<1> QED BY <1>1, <1>2

\* The attempt of s is nowhere on its way.
Nowhere(s) == ~Has(api, ApiOf(s)) /\ ~Has(worker, ReplyOf(s, Replies)) /\ ~Has(done, DoneOf(OpeningCall(s), Replies))

LEMMA NotOnItsWay ==
  ASSUME NEW s \in Sessions, Nowhere(s), NEW R \in SUBSET Replies
  PROVE  ~OnItsWay(s, R)
<1>1. /\ AnswerOf(s, R) \subseteq ApiOf(s) /\ ReplyOf(s, R) \subseteq ReplyOf(s, Replies)
      /\ DoneOf(OpeningCall(s), R) \subseteq DoneOf(OpeningCall(s), Replies)
  BY TaskSets
<1> QED BY <1>1, Smaller DEF Nowhere, OnItsWay

\* Of an attempt that ended, with what was reported of it.
LEMMA Ended ==
  ASSUME NEW s \in Sessions, Nowhere(s)', Once(api', ApiOf(s)), Once(worker', ReplyOf(s, Replies)),
         OpeningCall(s) \notin request_list_', phase'[s] \notin {"none", "created"}, Len(report'[s]) <= 1,
         Succeeded(s)' => Served(OpeningCall(s))',
         (report[s] # <<>>)' /\ ~Succeeded(s)' => Hopeless(OpeningCall(s))'
  PROVE  Single(s)' /\ Evidence(s)'
<1>1. ASSUME NEW R \in SUBSET Replies PROVE ~OnItsWay(s, R)'
  <2>1. /\ AnswerOf(s, R) \subseteq ApiOf(s) /\ ReplyOf(s, R) \subseteq ReplyOf(s, Replies)
        /\ DoneOf(OpeningCall(s), R) \subseteq DoneOf(OpeningCall(s), Replies)
    BY TaskSets
  <2> QED BY <2>1, Smaller DEF Nowhere, OnItsWay
<1>2. {Ok} \in SUBSET Replies /\ Replies \ {Ok} \in SUBSET Replies
  BY DEF Replies
<1>3. Evidence(s)'
  BY <1>1, <1>2 DEF Evidence
<1>4. ~Has(api', OfferOf(s))
  BY TaskSets, Smaller DEF Nowhere
<1>5. Single(s)'
  BY <1>4 DEF Single, Nowhere
<1> QED BY <1>3, <1>5

LEMMA StartsStep ==
  ASSUME TypeOK, CallsInv, Transfers, Closings, Views, NEW s \in Sessions, NEW offers \in BOOLEAN, Starts(s, offers)
  PROVE  CallsInv' /\ Transfers' /\ Closings' /\ Views'
<1>1. /\ phase[s] = "created" /\ phase' = [phase EXCEPT ![s] = "started"]
      /\ UNCHANGED <<gateway, worker, request_list_, done>>
  BY DEF Starts
<1>2. \/ api' = Append(api, Task("OnOffer", s)) /\ UNCHANGED report
      \/ UNCHANGED api /\ Report(s, "OnPushFailed")
  BY DEF Starts
<1>3. \A t \in Sessions : phase[t] = "stopped" => phase'[t] = "stopped"
  BY <1>1 DEF TypeOK
<1>4. CallsInv' /\ Transfers' /\ Closings'
  BY <1>1, <1>3, CallsSame DEF gateway, Transfers, Closings
<1>5. /\ ~Has(api, ApiOf(s)) /\ ~Has(worker, ReplyOf(s, Replies)) /\ OpeningCall(s) \notin request_list_
      /\ report[s] = <<>> /\ OpeningCall(s) \notin DOMAIN calls
      /\ Once(api, ApiOf(s)) /\ Once(worker, ReplyOf(s, Replies))
  BY <1>1 DEF Views, Single
<1>6. ~Has(done, DoneOf(OpeningCall(s), Replies))
  BY <1>5, RequestFacts DEF Transfers
<1>7. phase'[s] = "started"
  BY <1>1 DEF TypeOK
<1>8. Task("OnOffer", s) \in ApiTask /\ Task("OnOffer", s) \in OfferOf(s) /\ Task("OnOffer", s) \in ApiOf(s)
  BY DEF Task, ApiTask, OfferOf, ApiOf
<1>9. ASSUME NEW t \in Sessions, t # s PROVE Single(t)' /\ Evidence(t)'
  <2>1. Task("OnOffer", s) \notin ApiOf(t)
    BY <1>9 DEF Task, ApiOf, OfferOf, AnswerOf
  <2>2. report'[t] = report[t]
    BY <1>2, <1>9 DEF Report, TypeOK
  <2>3. Moves(api, api', ApiTask, ApiOf(t)) /\ Moves(worker, worker', WorkerTask, ReplyOf(t, Replies))
        /\ Moves(done, done', TransferType, DoneOf(OpeningCall(t), Replies))
    BY <1>1, <1>2, <1>8, <2>1 DEF Moves
  <2>4. Untouched(t)
    BY <1>1, <1>9, <2>2, <2>3, OthersUntouched DEF gateway, Due, TypeOK
  <2> QED BY <2>4, UntouchedSound DEF Views
<1>10. Single(s)' /\ Evidence(s)'
  <2>1. CASE UNCHANGED api /\ Report(s, "OnPushFailed")
    <3>1. /\ Len(report'[s]) = 1 /\ ~Succeeded(s)'
      BY <2>1, <1>5, Told DEF Callbacks
    <3>2. Hopeless(OpeningCall(s))'
      BY <1>1, <1>5 DEF Hopeless, gateway
    <3>3. Nowhere(s)'
      BY <2>1, <1>1, <1>5, <1>6 DEF Nowhere
    <3>4. /\ Once(api', ApiOf(s)) /\ Once(worker', ReplyOf(s, Replies)) /\ Len(report'[s]) <= 1
          /\ OpeningCall(s) \notin request_list_' /\ phase'[s] \notin {"none", "created"}
      BY <2>1, <1>1, <1>5, <1>7, <3>1
    <3> QED BY <3>1, <3>2, <3>3, <3>4, Ended
  <2>2. CASE api' = Append(api, Task("OnOffer", s)) /\ UNCHANGED report
    <3>1. Once(api', ApiOf(s)) /\ Has(api', ApiOf(s))
      BY <2>2, <1>5, <1>8, AppendHas DEF TypeOK
    <3>2. Single(s)'
      BY <2>2, <1>1, <1>5, <1>7, <3>1 DEF Single, gateway
    <3>3. ASSUME NEW R \in SUBSET Replies PROVE ~OnItsWay(s, R)'
      <4>1. Task("OnOffer", s) \notin AnswerOf(s, R)
        BY DEF Task, AnswerOf
      <4>2. ~Has(api, AnswerOf(s, R)) /\ ~Has(worker, ReplyOf(s, R)) /\ ~Has(done, DoneOf(OpeningCall(s), R))
        BY <1>5, <1>6, TaskSets, Smaller
      <4>3. ~Has(api', AnswerOf(s, R))
        BY <2>2, <4>1, <4>2, <1>8, AppendHas DEF TypeOK
      <4> QED BY <1>1, <4>2, <4>3 DEF OnItsWay
    <3>4. {Ok} \in SUBSET Replies /\ Replies \ {Ok} \in SUBSET Replies
      BY DEF Replies
    <3>5. report'[s] = <<>> /\ ~Succeeded(s)'
      BY <2>2, <1>5 DEF Succeeded
    <3> QED BY <3>2, <3>3, <3>4, <3>5 DEF Evidence
  <2> QED BY <2>1, <2>2, <1>2
<1>11. ASSUME NEW t \in Sessions PROVE Leaves(t)'
  <2>1. report[t] # <<>> => report'[t] = report[t]
    BY <1>2, <1>5 DEF Report, TypeOK
  <2> QED BY <1>1, <1>3, <2>1, LeavesSame DEF Views, gateway
<1> QED BY <1>4, <1>9, <1>10, <1>11 DEF Views

LEMMA StopsStep ==
  ASSUME TypeOK, CallsInv, Transfers, Closings, Views, NEW s \in Sessions, Stops(s)
  PROVE  CallsInv' /\ Transfers' /\ Closings' /\ Views'
<1>1. /\ phase[s] = "started" /\ phase' = [phase EXCEPT ![s] = "stopped"]
      /\ request_list_' = request_list_ \cup {Request(s, Closing(s))}
      /\ UNCHANGED <<gateway, api, worker, done, report>> /\ (Patient => report[s] # <<>>)
  BY DEF Stops
<1>2. \A t \in Sessions : /\ phase[t] = "stopped" => phase'[t] = "stopped"
                          /\ phase'[t] \in {"none", "created"} => phase[t] \in {"none", "created"}
  BY <1>1 DEF TypeOK
<1>3. phase'[s] = "stopped"
  BY <1>1 DEF TypeOK
<1>4. CallsInv' /\ Transfers'
  BY <1>1, CallsSame DEF gateway, Transfers
<1>5. Closings'
  <2> SUFFICES ASSUME NEW t \in Sessions, ClosingCall(t) \in request_list_' \cup DOMAIN calls'
               PROVE  phase'[t] = "stopped"
    BY DEF Closings
  <2>1. CASE ClosingCall(t) = Request(s, Closing(s))
    BY <2>1, <1>3, RequestFacts DEF ClosingCall
  <2>2. CASE ClosingCall(t) \in request_list_ \cup DOMAIN calls
    BY <2>2, <1>2 DEF Closings
  <2> QED BY <2>1, <2>2, <1>1 DEF gateway
<1>6. ASSUME NEW t \in Sessions PROVE Single(t)' /\ Evidence(t)' /\ Leaves(t)'
  <2>1. OpeningCall(t) \in request_list_' <=> OpeningCall(t) \in request_list_
    BY <1>1, RequestFacts DEF ClosingCall
  <2>2. Moves(api, api', ApiTask, ApiOf(t)) /\ Moves(worker, worker', WorkerTask, ReplyOf(t, Replies))
        /\ Moves(done, done', TransferType, DoneOf(OpeningCall(t), Replies))
    BY <1>1 DEF Moves
  <2>3. Untouched(t)
    BY <1>1, <1>2, <2>1, <2>2, OthersUntouched DEF gateway, Due
  <2>4. phase'[t] = "stopped" => phase[t] = "stopped" \/ (Patient => report[t] # <<>>)
    BY <1>1 DEF TypeOK
  <2> QED BY <1>1, <2>3, <2>4, UntouchedSound, LeavesSame DEF Views, gateway
<1> QED BY <1>4, <1>5, <1>6 DEF Views

LEMMA OfferedStep ==
  ASSUME TypeOK, CallsInv, Transfers, Closings, Views, NEW made \in BOOLEAN, RunsApi("OnOffer"),
         NEW failed \in {"OnPushFailed", "OnPullFailed"}, Offered(made, failed)
  PROVE  CallsInv' /\ Transfers' /\ Closings' /\ Views'
<1>0. PICK s : s = Head(api).s
  OBVIOUS
<1>1. api # <<>> /\ Head(api) \in ApiTask /\ Head(api).name = "OnOffer" /\ api \in Seq(ApiTask)
  BY Ends DEF RunsApi, TypeOK
<1>2. s \in Sessions /\ Head(api) \in OfferOf(s) /\ Head(api) \in ApiOf(s)
  BY <1>0, <1>1 DEF ApiTask, OfferOf, ApiOf
<1>3. api' = Tail(api) /\ UNCHANGED <<gateway, worker, done, phase>>
  BY DEF Offered
<1>4. \/ request_list_' = request_list_ \cup {OpeningCall(s)} /\ UNCHANGED report
      \/ UNCHANGED <<request_list_, report>>
      \/ UNCHANGED request_list_ /\ Report(s, failed)
  BY <1>0 DEF Offered, OpeningCall
<1>5. CallsInv'
  BY <1>3, CallsSame DEF gateway
<1>6. Transfers' /\ Closings'
  <2>1. request_list_ \subseteq request_list_' /\ request_list_' \subseteq request_list_ \cup {OpeningCall(s)}
    BY <1>4
  <2>2. Transfers'
    BY <1>3, <2>1 DEF Transfers
  <2>3. Closings'
    <3> SUFFICES ASSUME NEW t \in Sessions, ClosingCall(t) \in request_list_' \cup DOMAIN calls'
                 PROVE  phase'[t] = "stopped"
      BY DEF Closings
    <3>1. ClosingCall(t) # OpeningCall(s)
      BY <1>2, RequestFacts
    <3> QED BY <1>3, <2>1, <3>1 DEF Closings, gateway
  <2> QED BY <2>2, <2>3
<1>7. Has(api, ApiOf(s)) /\ Has(api, OfferOf(s)) /\ Once(api, ApiOf(s)) /\ Single(s)
  BY <1>1, <1>2, TailHas DEF Views, Single
<1>8. /\ ~Has(worker, ReplyOf(s, Replies)) /\ OpeningCall(s) \notin request_list_ /\ report[s] = <<>>
      /\ phase[s] \notin {"none", "created"} /\ OpeningCall(s) \notin DOMAIN calls
      /\ Once(worker, ReplyOf(s, Replies))
  BY <1>7 DEF Single
<1>9. ~Has(done, DoneOf(OpeningCall(s), Replies))
  BY <1>2, <1>8, RequestFacts DEF Transfers
<1>10. ~Has(api', ApiOf(s)) /\ Once(api', ApiOf(s))
  BY <1>1, <1>2, <1>3, <1>7, TailHas
<1>11. Nowhere(s)'
  BY <1>3, <1>8, <1>9, <1>10 DEF Nowhere
<1>12. ASSUME NEW t \in Sessions, t # s PROVE Single(t)' /\ Evidence(t)'
  <2>1. Head(api) \notin ApiOf(t)
    BY <1>2, <1>12 DEF ApiOf, OfferOf, AnswerOf
  <2>2. report'[t] = report[t]
    BY <1>2, <1>4, <1>12 DEF Report, TypeOK
  <2>3. OpeningCall(t) \in request_list_' <=> OpeningCall(t) \in request_list_
    BY <1>2, <1>4, <1>12, RequestFacts
  <2>4. Moves(api, api', ApiTask, ApiOf(t)) /\ Moves(worker, worker', WorkerTask, ReplyOf(t, Replies))
        /\ Moves(done, done', TransferType, DoneOf(OpeningCall(t), Replies))
    BY <1>1, <1>3, <2>1 DEF Moves
  <2>5. Untouched(t)
    BY <1>3, <2>2, <2>3, <2>4, OthersUntouched DEF gateway, Due
  <2> QED BY <2>5, UntouchedSound DEF Views
<1>13. Single(s)' /\ Evidence(s)'
  <2>1. CASE UNCHANGED <<request_list_, report>>
    <3>1. /\ Once(api', ApiOf(s)) /\ Once(worker', ReplyOf(s, Replies)) /\ Len(report'[s]) <= 1
          /\ OpeningCall(s) \notin request_list_' /\ phase'[s] \notin {"none", "created"}
      BY <2>1, <1>3, <1>8, <1>10
    <3>2. report'[s] = <<>> /\ ~Succeeded(s)'
      BY <2>1, <1>8 DEF Succeeded
    <3> QED BY <1>2, <1>11, <3>1, <3>2, Ended
  <2>2. CASE UNCHANGED request_list_ /\ Report(s, failed)
    <3>1. Len(report'[s]) = 1 /\ ~Succeeded(s)'
      BY <2>2, <1>2, <1>8, Told DEF Callbacks
    <3>2. /\ Once(api', ApiOf(s)) /\ Once(worker', ReplyOf(s, Replies)) /\ Len(report'[s]) <= 1
          /\ OpeningCall(s) \notin request_list_' /\ phase'[s] \notin {"none", "created"}
      BY <2>2, <1>3, <1>8, <1>10, <3>1
    <3>3. Hopeless(OpeningCall(s))'
      BY <1>3, <1>8 DEF Hopeless, gateway
    <3> QED BY <1>2, <1>11, <3>1, <3>2, <3>3, Ended
  <2>3. CASE request_list_' = request_list_ \cup {OpeningCall(s)} /\ UNCHANGED report
    <3>1. ~Has(api', OfferOf(s))
      BY <1>2, <1>10, TaskSets, Smaller
    <3>2. Single(s)'
      BY <2>3, <1>3, <1>8, <1>10, <3>1 DEF Single
    <3>3. report'[s] = <<>> /\ ~Succeeded(s)'
      BY <2>3, <1>8 DEF Succeeded
    <3>4. ASSUME NEW R \in SUBSET Replies PROVE ~OnItsWay(s, R)'
      <4>1. /\ AnswerOf(s, R) \subseteq ApiOf(s) /\ ReplyOf(s, R) \subseteq ReplyOf(s, Replies)
            /\ DoneOf(OpeningCall(s), R) \subseteq DoneOf(OpeningCall(s), Replies)
        BY <1>2, TaskSets
      <4> QED BY <4>1, <1>11, Smaller DEF Nowhere, OnItsWay
    <3>5. {Ok} \in SUBSET Replies /\ Replies \ {Ok} \in SUBSET Replies
      BY DEF Replies
    <3> QED BY <3>2, <3>3, <3>4, <3>5 DEF Evidence
  <2> QED BY <2>1, <2>2, <2>3, <1>4
<1>14. ASSUME NEW t \in Sessions PROVE Leaves(t)'
  <2>1. report[t] # <<>> => report'[t] = report[t]
    BY <1>2, <1>4, <1>8 DEF Report, TypeOK
  <2> QED BY <1>3, <2>1, LeavesSame DEF Views, gateway
<1> QED BY <1>5, <1>6, <1>12, <1>13, <1>14 DEF Views

LEMMA HandledStep ==
  ASSUME TypeOK, CallsInv, Transfers, Closings, Views, NEW timer \in BOOLEAN, RunsApi("HandleResponse"),
         NEW success \in {"OnPushSuccess", "OnPullSuccess"}, Handled(success, timer)
  PROVE  CallsInv' /\ Transfers' /\ Closings' /\ Views'
<1>0. PICK s, v : s = Head(api).s /\ v = Head(api).reply
  OBVIOUS
<1>1. api # <<>> /\ Head(api) \in ApiTask /\ Head(api).name = "HandleResponse" /\ api \in Seq(ApiTask)
  BY Ends DEF RunsApi, TypeOK
<1>2. s \in Sessions /\ v \in Replies /\ Head(api) \in ApiOf(s)
  BY <1>0, <1>1 DEF ApiTask, AnswerOf, ApiOf
<1>3. ASSUME NEW R \in SUBSET Replies, v \in R PROVE OnItsWay(s, R)
  <2>1. Head(api) \in AnswerOf(s, R)
    BY <1>0, <1>1, <1>3 DEF AnswerOf
  <2> QED BY <1>1, <2>1, TailHas DEF OnItsWay
<1>4. api' = Tail(api) /\ UNCHANGED <<gateway, worker, request_list_, done, phase>>
  BY DEF Handled
<1>5. \/ v # Ok /\ Report(s, "OnPushFailed")
      \/ UNCHANGED report
      \/ v = Ok /\ Report(s, success)
  BY <1>0 DEF Handled, Accepted
<1>6. CallsInv' /\ Transfers' /\ Closings'
  BY <1>4, CallsSame DEF gateway, Transfers, Closings
<1>7. Has(api, ApiOf(s)) /\ Once(api, ApiOf(s)) /\ Single(s) /\ Evidence(s)
  BY <1>1, <1>2, TailHas DEF Views, Single
<1>8. /\ ~Has(worker, ReplyOf(s, Replies)) /\ OpeningCall(s) \notin request_list_ /\ report[s] = <<>>
      /\ phase[s] \notin {"none", "created"} /\ Once(worker, ReplyOf(s, Replies))
  BY <1>7 DEF Single
<1>9. ~Has(done, DoneOf(OpeningCall(s), Replies))
  BY <1>2, <1>8, RequestFacts DEF Transfers
<1>10. ~Has(api', ApiOf(s)) /\ Once(api', ApiOf(s))
  BY <1>1, <1>2, <1>4, <1>7, TailHas
<1>11. Nowhere(s)'
  BY <1>4, <1>8, <1>9, <1>10 DEF Nowhere
<1>12. ASSUME NEW t \in Sessions, t # s PROVE Single(t)' /\ Evidence(t)'
  <2>1. Head(api) \notin ApiOf(t)
    BY <1>2, <1>12 DEF ApiOf, OfferOf, AnswerOf
  <2>2. report'[t] = report[t]
    BY <1>2, <1>5, <1>12 DEF Report, TypeOK
  <2>4. Moves(api, api', ApiTask, ApiOf(t)) /\ Moves(worker, worker', WorkerTask, ReplyOf(t, Replies))
        /\ Moves(done, done', TransferType, DoneOf(OpeningCall(t), Replies))
    BY <1>1, <1>4, <2>1 DEF Moves
  <2>5. Untouched(t)
    BY <1>4, <2>2, <2>4, OthersUntouched DEF gateway, Due
  <2> QED BY <2>5, UntouchedSound DEF Views
<1>13. Single(s)' /\ Evidence(s)'
  <2>0. /\ Once(api', ApiOf(s)) /\ Once(worker', ReplyOf(s, Replies))
        /\ OpeningCall(s) \notin request_list_' /\ phase'[s] \notin {"none", "created"}
    BY <1>4, <1>8, <1>10
  <2>1. CASE UNCHANGED report
    <3>1. report'[s] = <<>> /\ ~Succeeded(s)' /\ Len(report'[s]) <= 1
      BY <2>1, <1>8 DEF Succeeded
    <3> QED BY <1>2, <1>11, <2>0, <3>1, Ended
  <2>2. CASE v # Ok /\ Report(s, "OnPushFailed")
    <3>0. Len(report'[s]) = 1 /\ ~Succeeded(s)'
      BY <2>2, <1>2, <1>8, Told DEF Callbacks
    <3>1. Len(report'[s]) <= 1 /\ ~Succeeded(s)'
      BY <3>0
    <3>2. Hopeless(OpeningCall(s))
      <4>1. Replies \ {Ok} \in SUBSET Replies /\ v \in Replies \ {Ok}
        BY <2>2, <1>2
      <4> QED BY <4>1, <1>3, <1>7 DEF Evidence
    <3>3. Hopeless(OpeningCall(s))'
      BY <1>4, <3>2, SameCalls DEF gateway
    <3> QED BY <1>2, <1>11, <2>0, <3>1, <3>3, Ended
  <2>3. CASE v = Ok /\ Report(s, success)
    <3>0. Len(report'[s]) = 1 /\ Succeeded(s)'
      <4>1. success \in Callbacks
        BY DEF Callbacks
      <4> QED BY <2>3, <1>2, <1>8, <4>1, Told
    <3>1. Len(report'[s]) <= 1 /\ Succeeded(s)'
      BY <3>0
    <3>2. Served(OpeningCall(s))
      <4>1. {Ok} \in SUBSET Replies /\ v \in {Ok}
        BY <2>3 DEF Replies
      <4> QED BY <4>1, <1>3, <1>7 DEF Evidence
    <3>3. Served(OpeningCall(s))'
      BY <1>4, <3>2, SameCalls DEF gateway
    <3> QED BY <1>2, <1>11, <2>0, <3>1, <3>3, Ended
  <2> QED BY <2>1, <2>2, <2>3, <1>5
<1>14. ASSUME NEW t \in Sessions PROVE Leaves(t)'
  <2>1. report[t] # <<>> => report'[t] = report[t]
    BY <1>2, <1>5, <1>8 DEF Report, TypeOK
  <2> QED BY <1>4, <2>1, LeavesSame DEF Views, gateway
<1> QED BY <1>6, <1>12, <1>13, <1>14 DEF Views

LEMMA HttpReplyStep ==
  ASSUME TypeOK, CallsInv, Transfers, Closings, Views, HttpReply
  PROVE  CallsInv' /\ Transfers' /\ Closings' /\ Views'
<1>0. PICK x, q, v, s : x = Head(worker) /\ q = x.s /\ v = x.reply /\ s = q.s
  OBVIOUS
<1>1. worker # <<>> /\ x \in WorkerTask /\ x.name = "HttpReply" /\ worker \in Seq(WorkerTask) /\ api \in Seq(ApiTask)
  BY <1>0, Ends DEF HttpReply, RunsWorker, TypeOK
<1>2. q \in Requests /\ v \in Replies /\ s \in Sessions
  BY <1>0, <1>1, RequestFacts DEF WorkerTask
<1>3. worker' = Tail(worker) /\ UNCHANGED <<gateway, request_list_, done, phase, report>>
  BY DEF HttpReply
<1>4. PICK a : a = [Task("HandleResponse", s) EXCEPT !.reply = v]
  OBVIOUS
<1>5. /\ a \in ApiTask /\ a \in ApiOf(s) /\ a \notin OfferOf(s)
      /\ \A R \in SUBSET Replies : a \in AnswerOf(s, R) <=> v \in R
      /\ \A t \in Sessions : t # s => a \notin ApiOf(t)
  BY <1>2, <1>4 DEF Task, ApiTask, ApiOf, OfferOf, AnswerOf
<1>6. UNCHANGED api \/ (q.kind = Opening(s) /\ api' = Append(api, a))
  BY <1>0, <1>4 DEF HttpReply
<1>7. CallsInv' /\ Transfers' /\ Closings'
  BY <1>3, CallsSame DEF gateway, Transfers, Closings
<1>8. ASSUME NEW t \in Sessions, t # s \/ q # OpeningCall(s) PROVE Single(t)' /\ Evidence(t)'
  <2>1. x \notin ReplyOf(t, Replies)
    BY <1>0, <1>8, RequestFacts DEF ReplyOf
  <2>2. UNCHANGED api \/ (t # s /\ api' = Append(api, a))
    BY <1>0, <1>2, <1>6, <1>8, RequestFacts
  <2>3. Moves(api, api', ApiTask, ApiOf(t)) /\ Moves(worker, worker', WorkerTask, ReplyOf(t, Replies))
        /\ Moves(done, done', TransferType, DoneOf(OpeningCall(t), Replies))
    BY <1>0, <1>1, <1>3, <1>5, <2>1, <2>2 DEF Moves
  <2>4. Untouched(t)
    BY <1>3, <2>3, OthersUntouched DEF gateway, Due
  <2> QED BY <2>4, UntouchedSound DEF Views
<1>9. ASSUME q = OpeningCall(s) PROVE Single(s)' /\ Evidence(s)'
  <2>1. ASSUME NEW R \in SUBSET Replies PROVE x \in ReplyOf(s, R) <=> v \in R
    BY <1>0, <1>1, <1>9 DEF ReplyOf
  <2>2. x \in ReplyOf(s, Replies) /\ Single(s) /\ Evidence(s)
    BY <1>2, <2>1 DEF Views
  <2>3. Has(worker, ReplyOf(s, Replies)) /\ ~Has(worker', ReplyOf(s, Replies)) /\ Once(worker', ReplyOf(s, Replies))
    BY <1>0, <1>1, <1>3, <2>2, TailHas DEF Single
  <2>4. /\ ~Has(api, ApiOf(s)) /\ OpeningCall(s) \notin request_list_ /\ report[s] = <<>>
        /\ phase[s] \notin {"none", "created"} /\ Once(api, ApiOf(s))
    BY <2>2, <2>3 DEF Single
  <2>5. Once(api', ApiOf(s)) /\ ~Has(api', OfferOf(s))
    <3>1. ~Has(api, OfferOf(s))
      BY <1>2, <2>4, TaskSets, Smaller
    <3>2. CASE UNCHANGED api
      BY <2>4, <3>1, <3>2
    <3>3. CASE api' = Append(api, a)
      <4>1. Once(api', ApiOf(s))
        BY <1>1, <1>5, <2>4, <3>3, AppendHas
      <4>2. ~Has(api', OfferOf(s))
        BY <1>1, <1>5, <3>1, <3>3, AppendHas
      <4> QED BY <4>1, <4>2
    <3> QED BY <1>6, <3>2, <3>3
  <2>6. Single(s)'
    BY <1>3, <2>3, <2>4, <2>5 DEF Single
  <2>7. ASSUME NEW R \in SUBSET Replies, OnItsWay(s, R)' PROVE OnItsWay(s, R)
    <3>1. CASE Has(done', DoneOf(OpeningCall(s), R))
      BY <1>3, <3>1 DEF OnItsWay
    <3>2. CASE Has(worker', ReplyOf(s, R))
      BY <1>1, <1>3, <3>2, TailHas DEF OnItsWay
    <3>3. CASE Has(api', AnswerOf(s, R))
      <4>1. CASE v \in R
        <5>1. Has(worker, ReplyOf(s, R))
          BY <1>0, <1>1, <2>1, <4>1, TailHas
        <5> QED BY <5>1 DEF OnItsWay
      <4>2. CASE v \notin R
        <5>1. a \notin AnswerOf(s, R)
          BY <1>5, <4>2
        <5>2. CASE UNCHANGED api
          BY <3>3, <5>2 DEF OnItsWay
        <5>3. CASE api' = Append(api, a)
          BY <1>1, <1>5, <3>3, <5>1, <5>3, AppendHas DEF OnItsWay
        <5> QED BY <1>6, <5>2, <5>3
      <4> QED BY <4>1, <4>2
    <3> QED BY <2>7, <3>1, <3>2, <3>3 DEF OnItsWay
  <2>8. {Ok} \in SUBSET Replies /\ Replies \ {Ok} \in SUBSET Replies
    BY DEF Replies
  <2>9. /\ ~Succeeded(s)' /\ report'[s] = <<>>
        /\ Served(OpeningCall(s))' <=> Served(OpeningCall(s))
        /\ Hopeless(OpeningCall(s)) => Hopeless(OpeningCall(s))'
    BY <1>3, <2>4, SameCalls DEF Succeeded, gateway
  <2> QED BY <2>2, <2>6, <2>7, <2>8, <2>9 DEF Evidence
<1>10. ASSUME NEW t \in Sessions PROVE Leaves(t)'
  BY <1>3, LeavesSame DEF Views, gateway
<1> QED BY <1>7, <1>8, <1>9, <1>10 DEF Views

LEMMA HttpRoundStep ==
  ASSUME TypeOK, CallsInv, Transfers, Closings, Views, HttpRound
  PROVE  CallsInv' /\ Transfers' /\ Closings' /\ Views'
<1>0. PICK x, q, v, s, w : /\ x = Head(done) /\ q = x.q /\ v = x.reply /\ s = q.s
                           /\ w = [name |-> "HttpReply", s |-> q, reply |-> v]
  OBVIOUS
<1>1. done # <<>> /\ x \in TransferType /\ done \in Seq(TransferType) /\ worker \in Seq(WorkerTask)
  BY <1>0, Ends DEF HttpRound, TypeOK, TransferType
<1>2. q \in Requests /\ v \in Replies /\ s \in Sessions /\ w \in WorkerTask
  BY <1>0, <1>1, RequestFacts DEF TransferType, WorkerTask
<1>3. /\ done' = Tail(done) /\ request_list_' = request_list_ \ {q} /\ worker' = Append(worker, w)
      /\ UNCHANGED <<gateway, api, phase, report>>
  BY <1>0 DEF HttpRound
<1>4. ASSUME NEW p \in Requests, NEW R PROVE x \in DoneOf(p, R) <=> p = q /\ v \in R
  BY <1>0, <1>1, <1>4 DEF DoneOf, TransferType
<1>5. ASSUME NEW t \in Sessions, NEW R PROVE w \in ReplyOf(t, R) <=> q = OpeningCall(t) /\ v \in R
  BY <1>0, <1>2, <1>5 DEF ReplyOf
<1>6. CallsInv' /\ Closings'
  BY <1>3, CallsSame DEF gateway, Closings
<1>7. Transfers'
  <2> SUFFICES ASSUME NEW p \in Requests
               PROVE  Once(done', DoneOf(p, Replies)) /\ (Has(done', DoneOf(p, Replies)) => p \in request_list_')
    BY DEF Transfers
  <2>1. Once(done, DoneOf(p, Replies)) /\ (Has(done, DoneOf(p, Replies)) => p \in request_list_)
    BY DEF Transfers
  <2>2. Once(done', DoneOf(p, Replies)) /\ (Has(done', DoneOf(p, Replies)) => Has(done, DoneOf(p, Replies)))
    BY <1>1, <1>3, <2>1, TailHas
  <2>3. CASE p = q
    <3>1. x \in DoneOf(p, Replies)
      BY <1>2, <1>4, <2>3
    <3>2. ~Has(done', DoneOf(p, Replies))
      BY <1>0, <1>1, <1>3, <2>1, <3>1, TailHas
    <3> QED BY <2>2, <3>2
  <2>4. CASE p # q
    BY <1>3, <2>1, <2>2, <2>4
  <2> QED BY <2>3, <2>4
<1>8. ASSUME NEW t \in Sessions, q # OpeningCall(t) PROVE Single(t)' /\ Evidence(t)'
  <2>1. w \notin ReplyOf(t, Replies) /\ x \notin DoneOf(OpeningCall(t), Replies)
    BY <1>4, <1>5, <1>8, RequestFacts
  <2>2. OpeningCall(t) \in request_list_' <=> OpeningCall(t) \in request_list_
    BY <1>3, <1>8
  <2>3. Moves(api, api', ApiTask, ApiOf(t)) /\ Moves(worker, worker', WorkerTask, ReplyOf(t, Replies))
        /\ Moves(done, done', TransferType, DoneOf(OpeningCall(t), Replies))
    BY <1>0, <1>1, <1>2, <1>3, <2>1 DEF Moves
  <2>4. Untouched(t)
    BY <1>3, <2>2, <2>3, OthersUntouched DEF gateway, Due
  <2> QED BY <2>4, UntouchedSound DEF Views
<1>9. ASSUME NEW t \in Sessions, q = OpeningCall(t) PROVE Single(t)' /\ Evidence(t)'
  <2>1. x \in DoneOf(q, Replies) /\ w \in ReplyOf(t, Replies) /\ Single(t) /\ Evidence(t)
    BY <1>2, <1>4, <1>5, <1>9 DEF Views
  <2>2. q \in request_list_ /\ q \notin request_list_'
    BY <1>0, <1>1, <1>2, <1>3, <2>1, TailHas DEF Transfers
  <2>3. /\ ~Has(api, ApiOf(t)) /\ ~Has(worker, ReplyOf(t, Replies)) /\ report[t] = <<>>
        /\ phase[t] \notin {"none", "created"} /\ Once(api, ApiOf(t)) /\ Once(worker, ReplyOf(t, Replies))
    BY <1>9, <2>1, <2>2 DEF Single
  <2>4. Once(worker', ReplyOf(t, Replies)) /\ ~Has(api, OfferOf(t))
    BY <1>1, <1>2, <1>3, <2>3, AppendHas, TaskSets, Smaller
  <2>5. Single(t)'
    BY <1>3, <1>9, <2>2, <2>3, <2>4 DEF Single
  <2>6. ASSUME NEW R \in SUBSET Replies, OnItsWay(t, R)' PROVE OnItsWay(t, R)
    <3>1. CASE Has(api', AnswerOf(t, R))
      BY <1>3, <3>1 DEF OnItsWay
    <3>2. CASE Has(done', DoneOf(OpeningCall(t), R))
      BY <1>1, <1>3, <3>2, TailHas DEF OnItsWay
    <3>3. CASE Has(worker', ReplyOf(t, R))
      <4>1. CASE v \in R
        <5>1. x \in DoneOf(OpeningCall(t), R)
          BY <1>2, <1>4, <1>9, <4>1
        <5>2. Has(done, DoneOf(OpeningCall(t), R))
          BY <1>0, <1>1, <5>1, TailHas
        <5> QED BY <5>2 DEF OnItsWay
      <4>2. CASE v \notin R
        <5>1. w \notin ReplyOf(t, R)
          BY <1>5, <4>2
        <5> QED BY <1>1, <1>2, <1>3, <3>3, <5>1, AppendHas DEF OnItsWay
      <4> QED BY <4>1, <4>2
    <3> QED BY <2>6, <3>1, <3>2, <3>3 DEF OnItsWay
  <2>7. {Ok} \in SUBSET Replies /\ Replies \ {Ok} \in SUBSET Replies
    BY DEF Replies
  <2>8. /\ ~Succeeded(t)' /\ report'[t] = <<>>
        /\ Served(OpeningCall(t))' <=> Served(OpeningCall(t))
        /\ Hopeless(OpeningCall(t)) => Hopeless(OpeningCall(t))'
    BY <1>3, <2>3, SameCalls DEF Succeeded, gateway
  <2> QED BY <2>1, <2>5, <2>6, <2>7, <2>8 DEF Evidence
<1>10. ASSUME NEW t \in Sessions PROVE Leaves(t)'
  BY <1>3, LeavesSame DEF Views, gateway
<1> QED BY <1>6, <1>7, <1>8, <1>9, <1>10 DEF Views

LEMMA ArrivalStep ==
  ASSUME TypeOK, CallsInv, Transfers, Closings, Views, NEW q \in request_list_, Response(q) \/ TransferTimeout(q)
  PROVE  CallsInv' /\ Transfers' /\ Closings' /\ Views'
<1>1. PICK v : /\ done' = Append(done, [q |-> q, reply |-> v])
               /\ (Response(q) /\ v = calls[q].reply) \/ (TransferTimeout(q) /\ v = "closed")
  BY DEF Response, TransferTimeout
<1>2. /\ UNCHANGED <<calls, written, msgs, published, pulled, api, worker, request_list_, phase, report>>
      /\ lost \subseteq lost' /\ (TransferTimeout(q) => q \in lost')
  BY <1>1 DEF Response, TransferTimeout, gateway, streams
<1>3. q \in Requests /\ v \in Replies /\ done \in Seq(TransferType) /\ [q |-> q, reply |-> v] \in TransferType
  <2>1. q \in Requests /\ done \in Seq(TransferType)
    BY DEF TypeOK, TransferType
  <2>2. v \in Replies
    BY <1>1 DEF TypeOK, Response, CallRecord, Replies
  <2> QED BY <2>1, <2>2 DEF TransferType
<1>4. ~Has(done, DoneOf(q, Replies))
  BY <1>1, <1>3, InMultiHas DEF Response, TransferTimeout
<1>5. PICK x : x = [q |-> q, reply |-> v]
  OBVIOUS
<1>6. ASSUME NEW p \in Requests, NEW R PROVE x \in DoneOf(p, R) <=> p = q /\ v \in R
  BY <1>3, <1>5 DEF DoneOf
<1>7. x \in TransferType /\ done' = Append(done, x)
  BY <1>1, <1>3, <1>5
<1>8. CallsInv'
  BY <1>2, CallsSame
<1>9. Closings'
  BY <1>2 DEF Closings
<1>10. Transfers'
  <2> SUFFICES ASSUME NEW p \in Requests
               PROVE  Once(done', DoneOf(p, Replies)) /\ (Has(done', DoneOf(p, Replies)) => p \in request_list_')
    BY DEF Transfers
  <2>1. Once(done, DoneOf(p, Replies)) /\ (Has(done, DoneOf(p, Replies)) => p \in request_list_)
    BY DEF Transfers
  <2>2. x \in DoneOf(p, Replies) => p = q
    BY <1>6
  <2>3. Once(done', DoneOf(p, Replies))
    BY <1>3, <1>4, <1>7, <2>1, <2>2, AppendHas
  <2>4. Has(done', DoneOf(p, Replies)) => Has(done, DoneOf(p, Replies)) \/ p = q
    BY <1>3, <1>7, <2>2, AppendHas
  <2> QED BY <1>2, <2>1, <2>3, <2>4
<1>11. ASSUME NEW t \in Sessions, q # OpeningCall(t) PROVE Single(t)' /\ Evidence(t)'
  <2>1. x \notin DoneOf(OpeningCall(t), Replies)
    BY <1>6, <1>11, RequestFacts
  <2>3. Moves(api, api', ApiTask, ApiOf(t)) /\ Moves(worker, worker', WorkerTask, ReplyOf(t, Replies))
        /\ Moves(done, done', TransferType, DoneOf(OpeningCall(t), Replies))
    BY <1>2, <1>7, <2>1 DEF Moves
  <2>4. Untouched(t)
    BY <1>2, <2>3, OthersUntouched DEF Due
  <2> QED BY <2>4, UntouchedSound DEF Views
<1>12. ASSUME NEW t \in Sessions, q = OpeningCall(t) PROVE Single(t)' /\ Evidence(t)'
  <2>1. Single(t) /\ Evidence(t)
    BY DEF Views
  <2>2. Single(t)'
    BY <1>2, <2>1 DEF Single
  <2>3. report[t] = <<>>
    BY <1>12, <2>1 DEF Single
  <2>4. ~Succeeded(t)' /\ report'[t] = <<>>
    BY <1>2, <2>3 DEF Succeeded
  <2>5. ASSUME NEW R \in SUBSET Replies, OnItsWay(t, R)' PROVE OnItsWay(t, R) \/ v \in R
    <3>1. CASE Has(done', DoneOf(OpeningCall(t), R))
      <4>1. x \in DoneOf(OpeningCall(t), R) => v \in R
        BY <1>3, <1>6, <1>12
      <4> QED BY <1>3, <1>7, <3>1, <4>1, AppendHas DEF OnItsWay
    <3>2. CASE Has(api', AnswerOf(t, R)) \/ Has(worker', ReplyOf(t, R))
      BY <1>2, <3>2 DEF OnItsWay
    <3> QED BY <2>5, <3>1, <3>2 DEF OnItsWay
  <2>0. Opens(q)
    BY <1>12, RequestFacts DEF Opens
  <2>6. v = Ok => Served(q)
    BY <1>1, <2>0 DEF Response, CallsInv, CallSound, Served, CarriedOut, Ok
  <2>8. (Served(q)' <=> Served(q)) /\ (Hopeless(q) => Hopeless(q)')
    BY <1>2, SameCalls
  <2>7. v # Ok => Hopeless(q)'
    <3>1. CASE TransferTimeout(q)
      BY <1>2, <3>1 DEF Hopeless, Failed
    <3>2. CASE Response(q) /\ v # Ok
      <4>1. q \in DOMAIN calls /\ calls[q].reply \notin {NoReply, Ok} /\ CallSound(q)
        BY <1>1, <3>2 DEF Response, TransferTimeout, CallsInv
      <4>2. Failed(q)
        BY <2>0, <4>1 DEF CallSound
      <4> QED BY <2>8, <4>2 DEF Hopeless
    <3> QED BY <1>1, <3>1, <3>2
  <2>9. OnItsWay(t, {Ok})' => Served(q)'
    <3>1. {Ok} \in SUBSET Replies
      BY DEF Replies
    <3> QED BY <1>12, <2>1, <2>5, <2>6, <2>8, <3>1 DEF Evidence
  <2>10. OnItsWay(t, Replies \ {Ok})' => Hopeless(q)'
    BY <1>12, <2>1, <2>5, <2>7, <2>8 DEF Evidence
  <2> QED BY <1>12, <2>2, <2>4, <2>9, <2>10 DEF Evidence
<1>13. ASSUME NEW t \in Sessions PROVE Leaves(t)'
  BY <1>2, LeavesSame DEF Views
<1> QED BY <1>8, <1>9, <1>10, <1>11, <1>12, <1>13 DEF Views

LEMMA TransferStep ==
  ASSUME TypeOK, CallsInv, Transfers, Closings, Views, NEW q, NEW c, NewlyCalled(q, c)
  PROVE  CallsInv' /\ Transfers' /\ Closings' /\ Views'
<1>1. /\ q \in request_list_ /\ q \in Requests /\ ~Has(done, DoneOf(q, Replies)) /\ q \notin DOMAIN calls
      /\ DOMAIN calls' = DOMAIN calls \cup {q} /\ calls'[q] = c
      /\ \A p \in DOMAIN calls : calls'[p] = calls[p]
      /\ lost \subseteq lost'
      /\ UNCHANGED <<published, pulled, api, worker, request_list_, done, phase, report>>
  BY DEF NewlyCalled, Entered, sdk, TypeOK
<1>7. Queues /\ q \notin Due /\ Due' \subseteq Due \cup {q} /\ (written' = written => Due' = Due)
  <2>1. Queues /\ q \notin Due
    BY <1>1, DueFacts DEF CallsInv
  <2>2. msgs' = msgs /\ written' \subseteq written \cup {q}
    BY DEF NewlyCalled
  <2>3. Due' \subseteq Due \cup {q} /\ (written' = written => Due' = Due)
    BY <2>2 DEF Due
  <2> QED BY <2>1, <2>3
<1>2. CallsInv'
  <2>1. Queues'
    <3>1. ASSUME NEW p \in written' PROVE p \in DOMAIN calls' /\ calls'[p].addr \in Addresses /\ calls'[p].result = NoReply
      <4>1. CASE p = q
        BY <1>1, <1>7, <3>1, <4>1, DueIs DEF NewlyCalled
      <4>2. CASE p # q
        BY <1>1, <1>7, <3>1, <4>2 DEF NewlyCalled, Queues
      <4> QED BY <4>1, <4>2
    <3>2. ASSUME NEW a \in Addresses, NEW i \in DOMAIN msgs[a]
          PROVE  /\ msgs[a][i] \in DOMAIN calls' \ written'
                 /\ calls'[msgs[a][i]].addr = a /\ calls'[msgs[a][i]].result = NoReply
                 /\ \A j \in DOMAIN msgs[a] : msgs[a][i] = msgs[a][j] => i = j
      <4>1. /\ msgs[a][i] \in DOMAIN calls \ written
            /\ calls[msgs[a][i]].addr = a /\ calls[msgs[a][i]].result = NoReply
            /\ \A j \in DOMAIN msgs[a] : msgs[a][i] = msgs[a][j] => i = j
        BY <1>7 DEF Queues
      <4>2. written' \subseteq written \cup {q}
        BY DEF NewlyCalled
      <4> QED BY <1>1, <4>1, <4>2
    <3>3. msgs' = msgs
      BY DEF NewlyCalled
    <3> QED BY <3>1, <3>2, <3>3 DEF Queues
  <2>2. CallSound(q)'
    <3>1. ~Misled(q)' /\ calls'[q].heard = {}
      BY <1>1 DEF NewlyCalled, Misled
    <3>2. Unanswered(q)' => calls'[q].state = "sent"
      BY <1>1, <1>7, DueIs DEF NewlyCalled, Unanswered
    <3>3. calls'[q].reply # NoReply => Failed(q)'
      BY <1>1, <1>7 DEF NewlyCalled, Failed, Ok, NoReply
    <3> QED BY <1>1, <3>1, <3>2, <3>3 DEF NewlyCalled, CallSound, Ok, ErrParam, NoReply
  <2>3. ASSUME NEW p \in DOMAIN calls PROVE CallSound(p)'
    <3>1. p # q /\ calls'[p] = calls[p] /\ CallSound(p) /\ (p \in Due' => p \in Due) /\ (p \in written' => p \in written)
      BY <1>1, <1>7 DEF CallsInv, NewlyCalled
    <3>2. (Unanswered(p)' => Unanswered(p)) /\ (Misled(p)' <=> Misled(p)) /\ (Failed(p) => Failed(p)')
      BY <1>1, <3>1 DEF Unanswered, Misled, Failed
    <3> QED BY <1>1, <3>1, <3>2 DEF CallSound
  <2> QED BY <1>1, <2>1, <2>2, <2>3 DEF CallsInv
<1>3. Transfers' /\ Closings'
  BY <1>1 DEF Transfers, Closings
<1>4. ASSUME NEW t \in Sessions, q # OpeningCall(t) PROVE Single(t)' /\ Evidence(t)'
  <2>1. Moves(api, api', ApiTask, ApiOf(t)) /\ Moves(worker, worker', WorkerTask, ReplyOf(t, Replies))
        /\ Moves(done, done', TransferType, DoneOf(OpeningCall(t), Replies))
    BY <1>1 DEF Moves
  <2>2. Untouched(t)
    BY <1>1, <1>4, <1>7, <2>1, OthersUntouched
  <2> QED BY <2>2, UntouchedSound DEF Views
<1>5. ASSUME NEW t \in Sessions, q = OpeningCall(t) PROVE Single(t)' /\ Evidence(t)'
  <2>1. Single(t)
    BY DEF Views
  <2>2. /\ ~Has(api, ApiOf(t)) /\ ~Has(worker, ReplyOf(t, Replies)) /\ report[t] = <<>>
        /\ phase[t] \notin {"none", "created"} /\ Once(api, ApiOf(t)) /\ Once(worker, ReplyOf(t, Replies))
    BY <1>1, <1>5, <2>1 DEF Single
  <2>3. ~Has(api, OfferOf(t))
    BY <2>2, TaskSets, Smaller
  <2>4. Single(t)'
    BY <1>1, <2>2, <2>3 DEF Single
  <2>5. Nowhere(t)
    BY <1>1, <1>5, <2>2 DEF Nowhere
  <2>6. ASSUME NEW R \in SUBSET Replies PROVE ~OnItsWay(t, R)'
    <3>1. ~OnItsWay(t, R)
      BY <2>5, NotOnItsWay
    <3> QED BY <1>1, <3>1 DEF OnItsWay
  <2>7. {Ok} \in SUBSET Replies /\ Replies \ {Ok} \in SUBSET Replies
    BY DEF Replies
  <2>8. ~Succeeded(t)' /\ report'[t] = <<>>
    BY <1>1, <2>2 DEF Succeeded
  <2> QED BY <2>4, <2>6, <2>7, <2>8 DEF Evidence
<1>6. ASSUME NEW t \in Sessions PROVE Leaves(t)'
  <2>1. CarriedOut(ClosingCall(t))' => CarriedOut(ClosingCall(t)) /\ calls'[ClosingCall(t)] = calls[ClosingCall(t)]
    BY <1>1 DEF CarriedOut, NewlyCalled, Ok, NoReply
  <2>2. Misled(OpeningCall(t)) => Misled(OpeningCall(t))'
    BY <1>1 DEF Misled
  <2>3. Leaves(t)
    BY DEF Views
  <2> QED BY <1>1, <2>1, <2>2, <2>3 DEF Leaves, Holds
<1> QED BY <1>2, <1>3, <1>4, <1>5, <1>6 DEF Views

(* What the gateway and the server do to the calls they know: what is settled     *)
(* stays.                                                                         *)
Settled ==
    /\ DOMAIN calls' = DOMAIN calls /\ lost \subseteq lost' /\ Due' \subseteq Due
    /\ \A x \in DOMAIN calls :
          /\ calls'[x].kind = calls[x].kind /\ calls'[x].addr = calls[x].addr
          /\ calls[x].state = "done" => calls'[x].state = "done"
          /\ calls[x].heard # {} => calls'[x].heard = calls[x].heard
          /\ x \notin Due => calls'[x].result = calls[x].result
          /\ calls[x].result = Ok => calls'[x].result = Ok
    /\ UNCHANGED <<api, worker, request_list_, done, phase, report>>

LEMMA SettledFacts ==
  ASSUME Settled, NEW q
  PROVE  /\ Misled(q) => Misled(q)'
         /\ Served(q) => Served(q)'
         /\ q \in DOMAIN calls /\ Failed(q) => Failed(q)'
         /\ Hopeless(q) => Hopeless(q)'
<1>1. Misled(q) => Misled(q)'
  BY DEF Settled, Misled
<1>2. CarriedOut(q) => CarriedOut(q)'
  BY DEF Settled, CarriedOut
<1>3. q \in DOMAIN calls /\ Failed(q) => Failed(q)'
  BY <1>1 DEF Settled, Failed
<1> QED BY <1>1, <1>2, <1>3 DEF Served, Hopeless, Settled

LEMMA SettledStep ==
  ASSUME Transfers, Closings, Views, Settled
  PROVE  Transfers' /\ Closings' /\ \A t \in Sessions : Single(t)' /\ Evidence(t)'
<1>1. Transfers' /\ Closings'
  BY DEF Settled, Transfers, Closings
<1>2. ASSUME NEW t \in Sessions PROVE Single(t)' /\ Evidence(t)'
  <2>1. Single(t) /\ Evidence(t)
    BY DEF Views
  <2>2. Single(t)'
    BY <2>1 DEF Settled, Single
  <2>3. ASSUME NEW R PROVE OnItsWay(t, R)' <=> OnItsWay(t, R)
    BY DEF Settled, OnItsWay
  <2>4. (Succeeded(t)' <=> Succeeded(t)) /\ report'[t] = report[t]
    BY DEF Settled, Succeeded
  <2> QED BY <2>1, <2>2, <2>3, <2>4, SettledFacts DEF Evidence
<1> QED BY <1>1, <1>2

\* No result changes and no stream is added.
LEMMA SettledLeaves ==
  ASSUME CallsInv, Settled, NEW t \in Sessions, Leaves(t),
         \A x \in DOMAIN calls : calls'[x].result = calls[x].result,
         \A a \in Addresses : published'[a] \subseteq published[a] /\ pulled'[a] \subseteq pulled[a]
  PROVE  Leaves(t)'
<1> DEFINE c == ClosingCall(t)
           q == OpeningCall(t)
<1>1. Patient /\ phase'[t] = "stopped" => report'[t] # <<>>
  BY DEF Settled, Leaves
<1>2. ASSUME Patient, CarriedOut(c)', q \notin lost', ~Misled(q)' PROVE ~Holds(calls[c].addr, t)'
  <2>1. c \in DOMAIN calls /\ calls[c].result = Ok /\ calls'[c].addr = calls[c].addr
    BY <1>2 DEF Settled, CarriedOut
  <2>2. calls[c].addr \in Addresses
    BY <2>1 DEF CallsInv, CallSound, Ok, NoReply
  <2>3. q \notin lost /\ ~Misled(q)
    BY <1>2, SettledFacts DEF Settled
  <2>4. ~Holds(calls[c].addr, t)
    BY <1>2, <2>1, <2>3 DEF Leaves, CarriedOut
  <2> QED BY <2>1, <2>2, <2>4 DEF Holds
<1> QED BY <1>1, <1>2 DEF Leaves

LEMMA ProcessStep ==
  ASSUME TypeOK, CallsInv, NEW r \in DOMAIN calls, ProcessRequest(r), Aside
  PROVE  CallsInv' /\ Settled /\ \A x \in DOMAIN calls : calls'[x].result = calls[x].result
<1>1. PICK H : /\ Tells(H, r, Ok) /\ \A x \in DOMAIN calls : calls'[x].result = calls[x].result
               /\ H # {} => IsStop(r)
  BY ProcessTells DEF CallsInv
<1>2. PICK b : b = calls[r].addr
  OBVIOUS
<1>3. /\ r \in written /\ written' = written \ {r} /\ msgs' = [msgs EXCEPT ![b] = Append(msgs[b], r)]
      /\ UNCHANGED <<published, pulled, lost>>
  BY <1>2 DEF ProcessRequest, streams
<1>4. Queues /\ r \in Requests /\ b \in Addresses /\ calls[r].result = NoReply /\ CallSound(r)
  BY <1>2, <1>3 DEF CallsInv, Queues, TypeOK
<1>5. \A a \in Addresses : msgs[a] \in Seq(Requests)
  BY DEF TypeOK
<1>6. /\ DOMAIN msgs'[b] = DOMAIN msgs[b] \cup {Len(msgs[b]) + 1} /\ msgs'[b][Len(msgs[b]) + 1] = r
      /\ \A i \in DOMAIN msgs[b] : msgs'[b][i] = msgs[b][i]
      /\ \A a \in Addresses : a # b => msgs'[a] = msgs[a]
  <2>1. msgs'[b] = Append(msgs[b], r) /\ \A a \in Addresses : a # b => msgs'[a] = msgs[a]
    BY <1>3, <1>4 DEF TypeOK
  <2> QED BY <1>4, <1>5, <2>1, Longer
<1>7. \A a \in Addresses : \A i \in DOMAIN msgs'[a] :
         (i \in DOMAIN msgs[a] /\ msgs'[a][i] = msgs[a][i]) \/ (a = b /\ i = Len(msgs[b]) + 1 /\ msgs'[a][i] = r)
  BY <1>6
<1>8. Due' \subseteq Due
  BY <1>3, <1>7, DueIs
<1>9. Settled
  BY <1>1, <1>3, <1>8 DEF Settled, Tells, Aside, sdk
<1>10. Queues'
  <2>1. \A q \in written' : q \in DOMAIN calls' /\ calls'[q].addr \in Addresses /\ calls'[q].result = NoReply
    BY <1>1, <1>3, <1>4 DEF Queues, Tells
  <2>2. ASSUME NEW a \in Addresses, NEW i \in DOMAIN msgs'[a]
        PROVE  /\ msgs'[a][i] \in DOMAIN calls' \ written'
               /\ calls'[msgs'[a][i]].addr = a /\ calls'[msgs'[a][i]].result = NoReply
               /\ \A j \in DOMAIN msgs'[a] : msgs'[a][i] = msgs'[a][j] => i = j
    <3>1. ASSUME NEW k \in DOMAIN msgs[a]
          PROVE  /\ msgs[a][k] \in DOMAIN calls \ written /\ msgs[a][k] # r
                 /\ calls[msgs[a][k]].addr = a /\ calls[msgs[a][k]].result = NoReply
                 /\ \A j \in DOMAIN msgs[a] : msgs[a][k] = msgs[a][j] => k = j
      BY <1>3, <1>4 DEF Queues
    <3>2. \A j \in DOMAIN msgs'[a] : msgs'[a][i] = msgs'[a][j] => i = j
      <4> SUFFICES ASSUME NEW j \in DOMAIN msgs'[a], msgs'[a][i] = msgs'[a][j] PROVE i = j
        OBVIOUS
      <4>1. CASE i \in DOMAIN msgs[a] /\ msgs'[a][i] = msgs[a][i]
        BY <1>7, <3>1, <4>1
      <4>2. CASE a = b /\ i = Len(msgs[b]) + 1 /\ msgs'[a][i] = r
        BY <1>7, <3>1, <4>2
      <4> QED BY <1>7, <4>1, <4>2
    <3>3. CASE i \in DOMAIN msgs[a] /\ msgs'[a][i] = msgs[a][i]
      BY <1>1, <1>3, <3>1, <3>2, <3>3 DEF Tells
    <3>4. CASE a = b /\ msgs'[a][i] = r
      BY <1>1, <1>2, <1>3, <1>4, <3>2, <3>4 DEF Tells
    <3> QED BY <1>7, <3>3, <3>4
  <2> QED BY <2>1, <2>2 DEF Queues
<1>11. ASSUME NEW x \in DOMAIN calls PROVE CallSound(x)'
  <2>1. /\ CallSound(x)
        /\ calls'[x].kind = calls[x].kind /\ calls'[x].addr = calls[x].addr
        /\ calls'[x].state = calls[x].state /\ calls'[x].reply = calls[x].reply
        /\ calls'[x].result = calls[x].result
        /\ calls'[x].heard = IF x \in H THEN {Answer(r, Ok)} ELSE calls[x].heard
    BY <1>1 DEF CallsInv, Tells
  <2>2. (Unanswered(x)' => Unanswered(x)) /\ (x \in written' => x \in written)
    BY <1>3, <1>8 DEF Unanswered
  <2>3. (Misled(x) => Misled(x)') /\ (Failed(x) => Failed(x)')
    BY <1>9, SettledFacts
  <2>4. x \in H => x = r \/ lost # {}
    BY <1>1, <1>3, <1>4 DEF Tells, CallSound, Unanswered
  <2>5. Misled(x)' => lost' # {}
    BY <1>3, <2>1, <2>4 DEF Misled, CallSound, Answer
  <2>6. x = r /\ x \in H => ~Opens(x)
    BY <1>1, <1>4 DEF IsStop, Opens, CallSound
  <2>7. \A e \in calls'[x].heard : e.from = x => x \notin written' /\ (Opens(x) => calls'[x].result = e.says)
    <3>1. CASE x \in H
      BY <1>3, <2>1, <2>6, <3>1 DEF Answer
    <3>2. CASE x \notin H
      BY <2>1, <2>2, <3>2 DEF CallSound
    <3> QED BY <3>1, <3>2
  <2> QED BY <1>3, <2>1, <2>2, <2>3, <2>5, <2>7 DEF CallSound
<1> QED BY <1>1, <1>9, <1>10, <1>11 DEF CallsInv, Tells

LEMMA ServeStep ==
  ASSUME TypeOK, CallsInv, NEW a \in Addresses, Serve(a), Aside
  PROVE  CallsInv' /\ Settled
<1>0. PICK r, v : r = First(a) /\ v = Result(r)
  OBVIOUS
<1>1. PICK H : /\ Tells(H, r, v)
               /\ \A x \in DOMAIN calls : calls'[x].result = IF x = r THEN v ELSE calls[x].result
               /\ H # {} => ~IsStop(r)
  BY <1>0, ServeTells DEF CallsInv
<1>2. /\ r \in DOMAIN calls /\ r \in Due /\ r \notin written /\ calls[r].addr = a /\ calls[r].result = NoReply
      /\ Queues /\ v \in {Ok, ErrNetwork} /\ CallSound(r) /\ calls[r] \in CallRecord
  BY <1>0, FirstFacts, ResultFacts DEF Serve, CallsInv, TypeOK
<1>3. msgs[a] # <<>> /\ msgs' = [msgs EXCEPT ![a] = Tail(msgs[a])] /\ UNCHANGED <<written, lost>>
  BY DEF Serve
<1>4. \A b \in Addresses : msgs[b] \in Seq(Requests)
  BY DEF TypeOK
<1>5. /\ 1 \in DOMAIN msgs[a] /\ r = msgs[a][1]
      /\ \A i \in DOMAIN msgs'[a] : i + 1 \in DOMAIN msgs[a] /\ msgs'[a][i] = msgs[a][i + 1] /\ i \in Nat \ {0}
      /\ \A b \in Addresses : b # a => msgs'[b] = msgs[b]
  <2>1. msgs'[a] = Tail(msgs[a]) /\ \A b \in Addresses : b # a => msgs'[b] = msgs[b]
    BY <1>3 DEF TypeOK
  <2>2. PICK m : m = msgs[a]
    OBVIOUS
  <2>3. m \in Seq(Requests) /\ m # <<>> /\ r = Head(m) /\ msgs'[a] = Tail(m)
    BY <1>0, <1>3, <1>4, <2>1, <2>2 DEF First
  <2>4. /\ 1 \in DOMAIN m /\ r = m[1]
        /\ \A i \in DOMAIN Tail(m) : i + 1 \in DOMAIN m /\ Tail(m)[i] = m[i + 1] /\ i \in Nat \ {0}
    BY <2>3, Ends
  <2> QED BY <2>1, <2>2, <2>3, <2>4
<1>6. ASSUME NEW b \in Addresses, NEW i \in DOMAIN msgs'[b]
      PROVE  \E k \in DOMAIN msgs[b] : /\ msgs'[b][i] = msgs[b][k] /\ msgs[b][k] # r
                                       /\ k = IF b = a THEN i + 1 ELSE i
  <2>1. CASE b = a
    <3>1. i + 1 \in DOMAIN msgs[a] /\ msgs'[a][i] = msgs[a][i + 1] /\ i + 1 # 1
      BY <1>5, <2>1
    <3>2. msgs[a][i + 1] # r
      BY <1>2, <1>5, <3>1 DEF Queues
    <3> QED BY <2>1, <3>1, <3>2
  <2>2. CASE b # a
    <3>1. msgs'[b][i] = msgs[b][i] /\ i \in DOMAIN msgs[b]
      BY <1>5, <2>2
    <3>2. calls[msgs[b][i]].addr = b
      BY <1>2, <3>1 DEF Queues
    <3> QED BY <1>2, <2>2, <3>1, <3>2
  <2> QED BY <2>1, <2>2
<1>7. Due' \subseteq Due
  BY <1>3, <1>6, DueIs
<1>8. Settled
  <2>1. \A x \in DOMAIN calls : /\ x \notin Due => calls'[x].result = calls[x].result
                                /\ calls[x].result = Ok => calls'[x].result = Ok
    BY <1>1, <1>2 DEF Ok, NoReply
  <2> QED BY <1>1, <1>3, <1>7, <2>1 DEF Settled, Tells, Aside, sdk
<1>9. Queues'
  <2>1. \A q \in written' : q \in DOMAIN calls' /\ calls'[q].addr \in Addresses /\ calls'[q].result = NoReply
    BY <1>1, <1>2, <1>3 DEF Queues, Tells
  <2>2. ASSUME NEW b \in Addresses, NEW i \in DOMAIN msgs'[b]
        PROVE  /\ msgs'[b][i] \in DOMAIN calls' \ written'
               /\ calls'[msgs'[b][i]].addr = b /\ calls'[msgs'[b][i]].result = NoReply
    <3>1. PICK k \in DOMAIN msgs[b] : msgs'[b][i] = msgs[b][k] /\ msgs[b][k] # r
      BY <1>6
    <3>2. msgs[b][k] \in DOMAIN calls \ written /\ calls[msgs[b][k]].addr = b /\ calls[msgs[b][k]].result = NoReply
      BY <1>2 DEF Queues
    <3> QED BY <1>1, <1>3, <3>1, <3>2 DEF Tells
  <2>3. ASSUME NEW b \in Addresses, NEW i \in DOMAIN msgs'[b], NEW j \in DOMAIN msgs'[b], msgs'[b][i] = msgs'[b][j]
        PROVE  i = j
    <3>1. PICK k \in DOMAIN msgs[b] : msgs'[b][i] = msgs[b][k] /\ k = IF b = a THEN i + 1 ELSE i
      BY <1>6
    <3>2. PICK l \in DOMAIN msgs[b] : msgs'[b][j] = msgs[b][l] /\ l = IF b = a THEN j + 1 ELSE j
      BY <1>6
    <3>3. k = l
      <4>1. \A n \in DOMAIN msgs[b] : \A m \in DOMAIN msgs[b] : msgs[b][n] = msgs[b][m] => n = m
        BY <1>2 DEF Queues
      <4> QED BY <2>3, <3>1, <3>2, <4>1
    <3>4. CASE b = a
      <4>1. i \in Nat /\ j \in Nat
        BY <1>5, <3>4
      <4> QED BY <3>1, <3>2, <3>3, <3>4, <4>1
    <3> QED BY <3>1, <3>2, <3>3, <3>4
  <2> QED BY <2>1, <2>2, <2>3 DEF Queues
<1>10. ASSUME NEW x \in DOMAIN calls PROVE CallSound(x)'
  <2>1. /\ CallSound(x) /\ calls[x] \in CallRecord
        /\ calls'[x].kind = calls[x].kind /\ calls'[x].addr = calls[x].addr
        /\ calls'[x].state = calls[x].state /\ calls'[x].reply = calls[x].reply
        /\ calls'[x].result = IF x = r THEN v ELSE calls[x].result
        /\ calls'[x].heard = IF x \in H THEN {Answer(r, v)} ELSE calls[x].heard
    BY <1>1 DEF CallsInv, Tells, TypeOK
  <2>2. (Unanswered(x)' => Unanswered(x)) /\ (x \in written' <=> x \in written)
    BY <1>3, <1>7 DEF Unanswered
  <2>3. (Misled(x) => Misled(x)') /\ (Failed(x) => Failed(x)')
    BY <1>8, SettledFacts
  <2>4. x \in H => x = r \/ lost # {}
    <3>1. x \in H => Opens(r)
      BY <1>1, <1>2 DEF IsStop, Opens, CallSound, CallRecord
    <3> QED BY <1>1, <1>2, <3>1 DEF Tells, CallSound, Unanswered
  <2>5. Misled(x)' => lost' # {}
    BY <1>3, <2>1, <2>4 DEF Misled, CallSound, Answer
  <2>6. \A e \in calls'[x].heard : e.from = x => x \notin written' /\ (Opens(x) => calls'[x].result = e.says)
    <3>1. CASE x \in H
      BY <1>2, <1>3, <2>1, <3>1 DEF Answer
    <3>2. CASE x \notin H
      <4> SUFFICES ASSUME NEW e \in calls[x].heard, e.from = x
                   PROVE  x \notin written' /\ (Opens(x) => calls'[x].result = e.says)
        BY <2>1, <3>2
      <4>1. x \notin written /\ (Opens(x) => calls[x].result = e.says) /\ e.says \in {Ok, ErrNetwork}
        BY <2>1 DEF CallSound, CallRecord
      <4>2. Opens(x) => x # r
        BY <1>2, <4>1 DEF Ok, ErrNetwork, NoReply
      <4> QED BY <2>1, <2>2, <4>1, <4>2
    <3> QED BY <3>1, <3>2
  <2>7. calls'[x].result # NoReply => calls'[x].addr \in Addresses
    BY <1>2, <2>1 DEF CallSound
  <2>8. calls[x].result = Ok => calls'[x].result = Ok
    BY <1>2, <2>1 DEF Ok, NoReply
  <2> QED BY <1>3, <2>1, <2>2, <2>3, <2>5, <2>6, <2>7, <2>8 DEF CallSound
<1> QED BY <1>1, <1>8, <1>9, <1>10 DEF CallsInv, Tells

\* The two ends of a call at the gateway: the answer read, or given up.
LEMMA EndStep ==
  ASSUME TypeOK, CallsInv, NEW r \in DOMAIN calls, ReadResponse(r) \/ DeadlineExceeded(r), Aside
  PROVE  CallsInv' /\ Settled /\ \A x \in DOMAIN calls : calls'[x].result = calls[x].result
<1>1. calls[r] \in CallRecord /\ CallSound(r) /\ Queues /\ calls[r].state = "sent"
  BY DEF TypeOK, CallsInv, ReadResponse, DeadlineExceeded
<1>2. PICK state, reply : /\ calls' = [calls EXCEPT ![r].state = state, ![r].reply = reply]
                          /\ \/ /\ ReadResponse(r) /\ state = "done"
                                /\ \E e \in calls[r].heard : reply = Replied(e.says)
                             \/ DeadlineExceeded(r) /\ state = "abandoned" /\ reply = ErrParam
  BY DEF ReadResponse, DeadlineExceeded
<1>3. /\ DOMAIN calls' = DOMAIN calls /\ \A x \in DOMAIN calls : x # r => calls'[x] = calls[x]
      /\ calls'[r].state = state /\ calls'[r].reply = reply
      /\ calls'[r].kind = calls[r].kind /\ calls'[r].addr = calls[r].addr
      /\ calls'[r].result = calls[r].result /\ calls'[r].heard = calls[r].heard
  BY <1>1, <1>2 DEF CallRecord
<1>4. UNCHANGED <<written, msgs, published, pulled>> /\ lost \subseteq lost' /\ (DeadlineExceeded(r) => r \in lost')
  BY DEF ReadResponse, DeadlineExceeded, streams
<1>5. Due' = Due
  BY <1>4 DEF Due
<1>6. Settled
  BY <1>1, <1>3, <1>4, <1>5 DEF Settled, Aside, sdk
<1>7. Queues'
  BY <1>1, <1>3, <1>4 DEF Queues
<1>8. ASSUME NEW x \in DOMAIN calls, x # r PROVE CallSound(x)'
  <2>1. CallSound(x) /\ calls'[x] = calls[x] /\ (Failed(x) => Failed(x)')
    BY <1>3, <1>6, <1>8, SettledFacts DEF CallsInv
  <2>2. (Unanswered(x)' <=> Unanswered(x)) /\ (Misled(x)' <=> Misled(x))
    BY <1>3, <1>4, <1>5, <2>1 DEF Unanswered, Misled
  <2> QED BY <1>4, <2>1, <2>2 DEF CallSound
<1>9. CallSound(r)'
  <2>1. (Unanswered(r)' <=> Unanswered(r)) /\ (Misled(r)' <=> Misled(r))
    BY <1>3, <1>4, <1>5 DEF Unanswered, Misled
  <2>2. CASE DeadlineExceeded(r) /\ state = "abandoned" /\ reply = ErrParam
    <3>1. Failed(r)' /\ r \in lost'
      BY <1>4, <2>2 DEF Failed
    <3> QED BY <1>1, <1>3, <1>4, <2>1, <2>2, <3>1 DEF CallSound, ErrParam, NoReply, Ok
  <2>3. ASSUME state = "done", NEW e \in calls[r].heard, reply = Replied(e.says) PROVE CallSound(r)'
    <3>1. e.says \in {Ok, ErrNetwork} /\ reply \in {Ok, ErrNetwork} /\ (reply = Ok <=> e.says = Ok)
      BY <1>1, <2>3 DEF CallRecord, Replied, Ok, ErrNetwork
    <3>2. CASE e.from # r
      <4>1. Misled(r) /\ Misled(r)' /\ lost' # {}
        BY <1>1, <1>4, <2>1, <3>2 DEF Misled, CallSound
      <4> QED BY <1>1, <1>3, <1>4, <2>1, <2>3, <3>1, <4>1 DEF CallSound, Failed, Ok, ErrNetwork, NoReply
    <3>3. CASE e.from = r
      <4>1. r \notin written /\ (Opens(r) => calls[r].result = e.says)
        BY <1>1, <3>3 DEF CallSound
      <4>2. Opens(r) => r \notin Due
        BY <1>1, <3>1, <4>1, DueFacts DEF Ok, ErrNetwork, NoReply
      <4>3. ~Unanswered(r)
        BY <4>1, <4>2 DEF Unanswered
      <4>4. Opens(r) /\ reply # Ok => Failed(r)'
        BY <1>3, <1>5, <2>3, <3>1, <4>1, <4>2 DEF Failed
      <4> QED BY <1>1, <1>3, <1>4, <2>1, <2>3, <3>1, <4>1, <4>3, <4>4 DEF CallSound, Ok, ErrNetwork, NoReply
    <3> QED BY <3>2, <3>3
  <2> QED BY <1>2, <2>2, <2>3
<1> QED BY <1>3, <1>6, <1>7, <1>8, <1>9 DEF CallsInv

(* A session that was stopped after its report: if the server carries out its     *)
(* opening only now, someone gave up on that or its connection was misled.        *)
LEMMA ServeLeaves ==
  ASSUME TypeOK, CallsInv, Closings, Views, NEW a \in Addresses, Serve(a), Settled, NEW t \in Sessions
  PROVE  Leaves(t)'
<1>0. PICK r : r = First(a)
  OBVIOUS
<1>1. /\ r \in DOMAIN calls /\ r \in Due /\ r \in Requests /\ calls[r].addr = a /\ calls[r].result = NoReply
      /\ calls[r].kind = r.kind
  BY <1>0, FirstFacts DEF Serve, CallsInv, CallSound
<1>2. PICK c, q : c = ClosingCall(t) /\ q = OpeningCall(t)
  OBVIOUS
<1>3. Patient /\ phase'[t] = "stopped" => report'[t] # <<>>
  BY DEF Settled, Views, Leaves
<1>4. ASSUME Patient, CarriedOut(c)', q \notin lost', ~Misled(q)' PROVE ~Holds(calls[c].addr, t)'
  <2>1. c \in DOMAIN calls /\ calls'[c].addr = calls[c].addr /\ calls'[c].result = Ok /\ q \notin lost /\ ~Misled(q)
    BY <1>4, SettledFacts DEF Settled, CarriedOut
  <2>2. phase[t] = "stopped" /\ report[t] # <<>> /\ Single(t) /\ Evidence(t) /\ Leaves(t)
    BY <1>2, <1>4, <2>1 DEF Closings, Views, Leaves
  <2>3. q \notin Due
    <3>1. CASE Succeeded(t)
      <4>1. CarriedOut(q)
        BY <1>2, <2>1, <2>2, <3>1 DEF Evidence, Served
      <4> QED BY <4>1, DueFacts DEF CarriedOut, CallsInv, Ok, NoReply
    <3>2. CASE ~Succeeded(t)
      BY <1>2, <2>1, <2>2, <3>2, DueFacts DEF Evidence, Hopeless, Failed, CallsInv
    <3> QED BY <3>1, <3>2
  <2>4. r # q
    BY <1>1, <2>3
  <2>5. /\ published' = [published EXCEPT ![a] = CASE r.kind = "push" -> {r.s}
                                                    [] r.kind = "stoppush" -> published[a] \ {r.s}
                                                    [] OTHER -> published[a]]
        /\ pulled' = [pulled EXCEPT ![a] = CASE r.kind = "pull" /\ Found(a) -> {r.s}
                                              [] r.kind = "stoppull" -> pulled[a] \ {r.s}
                                              [] OTHER -> pulled[a]]
    BY <1>0, <1>1 DEF Serve, First
  <2>6. \A b \in Addresses : b # a => published'[b] = published[b] /\ pulled'[b] = pulled[b]
    BY <2>5 DEF TypeOK
  <2>7. /\ published'[a] = CASE r.kind = "push" -> {r.s}
                              [] r.kind = "stoppush" -> published[a] \ {r.s}
                              [] OTHER -> published[a]
        /\ pulled'[a] = CASE r.kind = "pull" /\ Found(a) -> {r.s}
                           [] r.kind = "stoppull" -> pulled[a] \ {r.s}
                           [] OTHER -> pulled[a]
    BY <2>5 DEF TypeOK
  <2>8. /\ t \in Pushers /\ r.kind = "push" => r.s # t
        /\ t \notin Pushers /\ r.kind = "pull" => r.s # t
    BY <1>1, <1>2, <2>4, RequestFacts DEF Opening
  <2>9. CASE r = c
    <3>1. calls'[c].addr = a /\ r.s = t /\ r.kind = Closing(t)
      BY <1>1, <1>2, <2>1, <2>9, RequestFacts
    <3>2. t \in Pushers => published'[a] = published[a] \ {t}
      BY <2>7, <3>1 DEF Closing
    <3>3. t \notin Pushers => pulled'[a] = pulled[a] \ {t}
      BY <2>7, <3>1 DEF Closing
    <3> QED BY <3>1, <3>2, <3>3 DEF Holds
  <2>10. CASE r # c
    <3>1. calls[c].result = Ok
      <4>1. \A x \in DOMAIN calls : x # r => calls'[x].result = calls[x].result
        BY <1>0, ServeTells DEF CallsInv
      <4> QED BY <2>1, <2>10, <4>1
    <3>2. calls[c].addr \in Addresses
      BY <2>1, <3>1 DEF CallsInv, CallSound, Ok, NoReply
    <3>3. ~Holds(calls[c].addr, t)
      BY <1>2, <1>4, <2>1, <2>2, <3>1 DEF Leaves, CarriedOut
    <3>4. CASE calls[c].addr # a
      BY <2>1, <2>6, <3>2, <3>3, <3>4 DEF Holds
    <3>5. CASE calls[c].addr = a
      <4>1. t \in Pushers => t \notin published[a]
        BY <3>3, <3>5 DEF Holds
      <4>2. t \notin Pushers => t \notin pulled[a]
        BY <3>3, <3>5 DEF Holds
      <4>3. t \in Pushers => t \notin published'[a]
        BY <2>7, <2>8, <4>1
      <4>4. t \notin Pushers => t \notin pulled'[a]
        BY <2>7, <2>8, <4>2
      <4> QED BY <2>1, <3>5, <4>3, <4>4 DEF Holds
    <3> QED BY <3>4, <3>5
  <2> QED BY <2>9, <2>10
<1> QED BY <1>2, <1>3, <1>4 DEF Leaves

LEMMA AnswersStep ==
  ASSUME TypeOK, CallsInv, Transfers, Closings, Views, Answers
  PROVE  CallsInv' /\ Transfers' /\ Closings' /\ Views'
<1>0. Aside /\ \A t \in Sessions : Leaves(t)
  BY DEF Answers, Views
<1>1. ASSUME NEW r \in DOMAIN calls, ProcessRequest(r) PROVE CallsInv' /\ Transfers' /\ Closings' /\ Views'
  <2>1. CallsInv' /\ Settled /\ \A x \in DOMAIN calls : calls'[x].result = calls[x].result
    BY <1>0, <1>1, ProcessStep
  <2>2. UNCHANGED <<published, pulled>>
    BY <1>1 DEF ProcessRequest, streams
  <2>3. \A t \in Sessions : Leaves(t)'
    BY <1>0, <2>1, <2>2, SettledLeaves
  <2> QED BY <2>1, <2>3, SettledStep DEF Views
<1>2. ASSUME NEW r \in DOMAIN calls, ReadResponse(r) \/ DeadlineExceeded(r)
      PROVE  CallsInv' /\ Transfers' /\ Closings' /\ Views'
  <2>1. CallsInv' /\ Settled /\ \A x \in DOMAIN calls : calls'[x].result = calls[x].result
    BY <1>0, <1>2, EndStep
  <2>2. UNCHANGED <<published, pulled>>
    BY <1>2 DEF ReadResponse, DeadlineExceeded, streams
  <2>3. \A t \in Sessions : Leaves(t)'
    BY <1>0, <2>1, <2>2, SettledLeaves
  <2> QED BY <2>1, <2>3, SettledStep DEF Views
<1>3. ASSUME NEW a \in Addresses, Serve(a) PROVE CallsInv' /\ Transfers' /\ Closings' /\ Views'
  <2>1. CallsInv' /\ Settled
    BY <1>0, <1>3, ServeStep
  <2>2. \A t \in Sessions : Leaves(t)'
    BY <1>3, <2>1, ServeLeaves
  <2> QED BY <2>1, <2>2, SettledStep DEF Views
<1> QED BY <1>1, <1>2, <1>3 DEF Answers

LEMMA RemovalsStep ==
  ASSUME TypeOK, CallsInv, Transfers, Closings, Views, Removals
  PROVE  CallsInv' /\ Transfers' /\ Closings' /\ Views'
<1>1. PICK a \in Addresses : OnStreamException(a) /\ Aside
  BY DEF Removals
<1>2. UNCHANGED <<calls, written, msgs, lost>>
  BY <1>1 DEF OnStreamException
<1>3. CallsInv' /\ Due' = Due
  BY <1>2, CallsSame, SameCalls
<1>4. Settled
  BY <1>1, <1>2, <1>3 DEF Settled, Aside, sdk
<1>5. \A b \in Addresses : published'[b] \subseteq published[b] /\ pulled'[b] \subseteq pulled[b]
  BY <1>1 DEF OnStreamException, TypeOK
<1>6. \A t \in Sessions : Leaves(t)'
  BY <1>2, <1>4, <1>5, SettledLeaves DEF Views
<1> QED BY <1>3, <1>4, <1>6, SettledStep DEF Views

LEMMA ViewsInit ==
  ASSUME Init
  PROVE  CallsInv /\ Transfers /\ Closings /\ Views
<1>1. /\ DOMAIN calls = {} /\ api = <<>> /\ worker = <<>> /\ done = <<>> /\ request_list_ = {}
      /\ \A s \in Sessions : report[s] = <<>>
  BY DEF Init, GatewayInit
<1>2. CallsInv /\ Closings
  <2>1. Queues
    BY DEF Init, GatewayInit, Queues
  <2> QED BY <1>1, <2>1 DEF CallsInv, Closings
<1>3. Transfers
  BY <1>1, EmptyHas DEF Transfers
<1>4. ASSUME NEW s \in Sessions PROVE Single(s) /\ Evidence(s) /\ Leaves(s)
  <2>1. Single(s)
    BY <1>1, EmptyHas DEF Single
  <2>2. Nowhere(s) /\ ~Succeeded(s) /\ report[s] = <<>>
    BY <1>1, EmptyHas DEF Nowhere, Succeeded
  <2>3. {Ok} \in SUBSET Replies /\ Replies \ {Ok} \in SUBSET Replies
    BY DEF Replies
  <2>4. Evidence(s)
    BY <2>2, <2>3, NotOnItsWay DEF Evidence
  <2>5. Leaves(s)
    BY <1>1 DEF Leaves, CarriedOut, Init
  <2> QED BY <2>1, <2>4, <2>5
<1> QED BY <1>2, <1>3, <1>4 DEF Views

LEMMA ViewsStep ==
  ASSUME TypeOK, CallsInv, Transfers, Closings, Views, [Next]_vars
  PROVE  CallsInv' /\ Transfers' /\ Closings' /\ Views'
<1>1. CASE UNCHANGED vars
  <2>1. Quiet
    BY <1>1 DEF vars, sdk, Quiet, SameApi, SameWorker, Keeping
  <2> QED BY <2>1, QuietStep
<1>2. CASE App
  <2>1. CASE (\E s \in Sessions, named \in BOOLEAN : Create(s, named)) \/ (\E d \in Devices, op \in {"Start", "Stop"} : Call(d, op))
    BY <2>1, QuietApp, QuietStep
  <2>2. ASSUME NEW s \in Pushers, NEW tracks \in BOOLEAN, StartPush(s, tracks)
        PROVE  CallsInv' /\ Transfers' /\ Closings' /\ Views'
    BY <2>2, StartsStep DEF StartPush, Sessions
  <2>3. ASSUME NEW s \in Pullers, StartPull(s)
        PROVE  CallsInv' /\ Transfers' /\ Closings' /\ Views'
    BY <2>3, StartsStep DEF StartPull, Sessions
  <2>4. ASSUME NEW s \in Sessions, Stops(s)
        PROVE  CallsInv' /\ Transfers' /\ Closings' /\ Views'
    BY <2>4, StopsStep
  <2> QED BY <1>2, <2>1, <2>2, <2>3, <2>4 DEF App, StopPush, StopPull, Sessions
<1>3. CASE ApiThread
  <2>1. CASE GetRtcStats \/ CameraStart \/ DesktopStart \/ VideoStop \/ (\E b \in BOOLEAN : VcmStart(b))
    BY <2>1, QuietApi, QuietStep
  <2>2. ASSUME NEW b \in BOOLEAN, OnPushOffer(b) \/ OnPullOffer(b)
        PROVE  CallsInv' /\ Transfers' /\ Closings' /\ Views'
    BY <2>2, OfferedStep DEF OnPushOffer, OnPullOffer
  <2>3. CASE HandleHttpPushResponse \/ HandleHttpPullResponse
    BY <2>3, HandledStep DEF HandleHttpPushResponse, HandleHttpPullResponse
  <2> QED BY <1>3, <2>1, <2>2, <2>3 DEF ApiThread
<1>4. CASE WorkerThread
  BY <1>4, HttpReplyStep, QuietWorker, QuietStep DEF WorkerThread
<1>5. CASE Network
  BY <1>5, ArrivalStep, TransferCalls, TransferStep DEF Network
<1>6. CASE HttpRound \/ Answers \/ Removals \/ (\E s \in Pushers : TimerFires(s))
  BY <1>6, HttpRoundStep, AnswersStep, RemovalsStep, QuietTimer, QuietStep
<1> QED BY <1>1, <1>2, <1>3, <1>4, <1>5, <1>6 DEF Next

--------------------------------------------------------------------------------
(* The devices. *)

DeviceTasks == {t \in ApiTask \cup WorkerTask : t.name \in {"Start", "Stop", "VcmStart"}}

LEMMA DeviceSets ==
  /\ \A d : StartOf(d) \subseteq DeviceTasks /\ StopOf(d) \subseteq DeviceTasks /\ FirstOf(d) \subseteq DeviceTasks
  /\ \A x \in ApiTask \cup WorkerTask, d \in Devices :
        /\ x \in StartOf(d) <=> x.name \in {"Start", "VcmStart"} /\ x.s = d
        /\ x \in StopOf(d) <=> x.name = "Stop" /\ x.s = d
        /\ x \in DeviceTasks <=> x.name \in {"Start", "Stop", "VcmStart"}
BY DEF StartOf, StopOf, FirstOf, DeviceTasks

LEMMA OffAppend ==
  ASSUME NEW T, NEW q \in Seq(T), NEW e \in T, NEW d, NEW on,
         e \notin StartOf(d), e \in StopOf(d) \/ Off(q, d, on)
  PROVE  Off(Append(q, e), d, on)
<1>1. CASE e \in StopOf(d)
  <2>1. Len(q) + 1 \in DOMAIN Append(q, e) /\ Append(q, e)[Len(q) + 1] = e
        /\ \A j \in DOMAIN Append(q, e) : ~(j > Len(q) + 1)
    BY Longer
  <2> QED BY <1>1, <2>1 DEF Off
<1>2. ASSUME NEW i \in DOMAIN q, q[i] \in StopOf(d), \A j \in DOMAIN q : j > i => q[j] \notin StartOf(d)
      PROVE  Off(Append(q, e), d, on)
  <2>1. i \in DOMAIN Append(q, e) /\ Append(q, e)[i] = q[i]
    BY Longer
  <2>2. ASSUME NEW j \in DOMAIN Append(q, e), j > i PROVE Append(q, e)[j] \notin StartOf(d)
    <3>1. CASE j \in DOMAIN q
      BY <1>2, <2>2, <3>1, Longer
    <3>2. CASE j = Len(q) + 1
      BY <3>2, Longer
    <3> QED BY <3>1, <3>2, Longer
  <2> QED BY <1>2, <2>1, <2>2 DEF Off
<1>3. CASE ~on /\ ~Has(q, StartOf(d))
  BY <1>3, AppendHas DEF Off
<1> QED BY <1>1, <1>2, <1>3 DEF Off

LEMMA OffTail ==
  ASSUME NEW T, NEW q \in Seq(T), q # <<>>, NEW d, NEW on, NEW now, Off(q, d, on),
         now => on \/ Head(q) \in StartOf(d),
         Head(q) \in StopOf(d) => ~now
  PROVE  Off(Tail(q), d, now)
<1>1. ASSUME NEW i \in DOMAIN q, q[i] \in StopOf(d), \A j \in DOMAIN q : j > i => q[j] \notin StartOf(d)
      PROVE  Off(Tail(q), d, now)
  <2>1. CASE i = 1
    <3>1. ~now
      BY <1>1, <2>1, Ends
    <3>2. ~Has(Tail(q), StartOf(d))
      <4> SUFFICES ASSUME NEW k \in DOMAIN Tail(q), Tail(q)[k] \in StartOf(d) PROVE FALSE
        BY DEF Has
      <4>1. k + 1 \in DOMAIN q /\ k + 1 > i /\ Tail(q)[k] = q[k + 1]
        BY <2>1, Ends
      <4> QED BY <1>1, <4>1
    <3> QED BY <3>1, <3>2 DEF Off
  <2>2. CASE i # 1
    <3>1. i - 1 \in DOMAIN Tail(q) /\ Tail(q)[i - 1] = q[i]
      BY <2>2, Ends
    <3>2. ASSUME NEW k \in DOMAIN Tail(q), k > i - 1 PROVE Tail(q)[k] \notin StartOf(d)
      <4>1. k + 1 \in DOMAIN q /\ k + 1 > i /\ Tail(q)[k] = q[k + 1]
        BY <3>2, Ends
      <4> QED BY <1>1, <4>1
    <3> QED BY <1>1, <3>1, <3>2 DEF Off
  <2> QED BY <2>1, <2>2
<1>2. CASE ~on /\ ~Has(q, StartOf(d))
  <2>1. Head(q) \notin StartOf(d) /\ ~Has(Tail(q), StartOf(d))
    BY <1>2, TailHas
  <2> QED BY <1>2, <2>1 DEF Off
<1> QED BY <1>1, <1>2 DEF Off

LEMMA MovesOff ==
  ASSUME NEW T, NEW q \in Seq(T), NEW p, Moves(q, p, T, DeviceTasks), NEW d, NEW on, Off(q, d, on)
  PROVE  Off(p, d, on)
<1>0. StartOf(d) \subseteq DeviceTasks /\ StopOf(d) \subseteq DeviceTasks
  BY DeviceSets
<1>1. CASE p = q
  BY <1>1
<1>2. CASE q # <<>> /\ Head(q) \notin DeviceTasks /\ p = Tail(q)
  <2>1. Head(q) \notin StopOf(d)
    BY <1>0, <1>2
  <2> QED BY <1>2, <2>1, OffTail
<1>3. ASSUME NEW x \in T \ DeviceTasks, p = Append(q, x) PROVE Off(p, d, on)
  <2>1. x \notin StartOf(d)
    BY <1>0
  <2> QED BY <1>3, <2>1, OffAppend
<1> QED BY <1>1, <1>2, <1>3 DEF Moves

LEMMA IdleDevices ==
  ASSUME TypeOK, DevicesInv, UNCHANGED <<device, last, early>>,
         Moves(api, api', ApiTask, DeviceTasks), Moves(worker, worker', WorkerTask, DeviceTasks)
  PROVE  DevicesInv'
<1>1. api \in Seq(ApiTask) /\ worker \in Seq(WorkerTask)
  BY DEF TypeOK
<1>2. Off(worker, "mic", device["mic"]) => Off(worker', "mic", device'["mic"])
  BY <1>1, MovesOff
<1>3. Off(api, "desktop", device["desktop"]) => Off(api', "desktop", device'["desktop"])
  BY <1>1, MovesOff
<1>4. Off(api, "camera", device["camera"]) => Off(api', "camera", device'["camera"])
  BY <1>1, MovesOff
<1>5. Has(api', FirstOf("camera")) <=> Has(api, FirstOf("camera"))
  <2>1. FirstOf("camera") \in SUBSET DeviceTasks
    BY DeviceSets
  <2> QED BY <1>1, <2>1, MovesKeep DEF Keeping
<1> QED BY <1>2, <1>3, <1>4, <1>5 DEF DevicesInv

\* Everything but the calls on devices and the tasks of devices.
LEMMA OtherTasks ==
  ASSUME TypeOK, App \/ ApiThread \/ WorkerThread \/ HttpRound \/ Network \/ Answers \/ Removals
                 \/ (\E s \in Pushers : TimerFires(s)),
         ~(\E d \in Devices, op \in {"Start", "Stop"} : Call(d, op)),
         ~(\E b \in BOOLEAN : VcmStart(b) \/ MicStart(b)),
         ~(CameraStart \/ DesktopStart \/ VideoStop \/ MicStop)
  PROVE  /\ UNCHANGED <<device, last, early>>
         /\ Moves(api, api', ApiTask, DeviceTasks) /\ Moves(worker, worker', WorkerTask, DeviceTasks)
<1> USE DEF TypeOK
<1> DEFINE G == /\ UNCHANGED <<device, last, early>>
                /\ Moves(api, api', ApiTask, DeviceTasks) /\ Moves(worker, worker', WorkerTask, DeviceTasks)
<1>1. ASSUME NEW s \in Sessions, NEW named \in BOOLEAN, Create(s, named) PROVE G
  <2>1. Task("AddObject", s) \in WorkerTask \ DeviceTasks
    BY DEF Task, WorkerTask, DeviceTasks
  <2> QED BY <1>1, <2>1 DEF Create, capture, Moves
<1>2. ASSUME NEW s \in Sessions, NEW offers \in BOOLEAN, Starts(s, offers) PROVE G
  <2>1. Task("OnOffer", s) \in ApiTask \ DeviceTasks
    BY DEF Task, ApiTask, DeviceTasks
  <2>2. UNCHANGED api \/ api' = Append(api, Task("OnOffer", s))
    BY <1>2 DEF Starts
  <2>3. UNCHANGED <<worker, capture>>
    BY <1>2 DEF Starts
  <2> QED BY <2>1, <2>2, <2>3 DEF capture, Moves
<1>3. ASSUME NEW s \in Sessions, Stops(s) PROVE G
  BY <1>3 DEF Stops, capture, Moves
<1>4. CASE App
  BY <1>1, <1>2, <1>3, <1>4 DEF App, StartPush, StartPull, StopPush, StopPull, Sessions
<1>5. ASSUME api # <<>>, Head(api).name \in {"OnOffer", "HandleResponse", "GetRtcStats"}, api' = Tail(api),
             UNCHANGED <<worker, capture>>
      PROVE  G
  <2>1. Head(api) \notin DeviceTasks
    BY <1>5 DEF DeviceTasks
  <2> QED BY <1>5, <2>1 DEF capture, Moves
<1>6. CASE ApiThread
  BY <1>5, <1>6 DEF ApiThread, OnPushOffer, OnPullOffer, HandleHttpPushResponse, HandleHttpPullResponse,
       GetRtcStats, RunsApi, Offered, Handled
<1>7. CASE AddObject
  <2>1. Head(worker) \notin DeviceTasks
    BY <1>7 DEF AddObject, RunsWorker, DeviceTasks
  <2> QED BY <1>7, <2>1 DEF AddObject, RunsWorker, capture, Moves
<1>8. CASE HttpReply
  <2>1. worker # <<>> /\ Head(worker) \notin DeviceTasks
    BY <1>8 DEF HttpReply, RunsWorker, DeviceTasks
  <2>2. Head(worker).s \in Requests /\ Head(worker).reply \in Replies
    <3>1. Head(worker) \in WorkerTask /\ Head(worker).name = "HttpReply"
      BY <1>8, <2>1, Ends DEF HttpReply, RunsWorker
    <3> QED BY <3>1 DEF WorkerTask
  <2>3. [Task("HandleResponse", Head(worker).s.s) EXCEPT !.reply = Head(worker).reply] \in ApiTask \ DeviceTasks
    BY <2>2, RequestFacts DEF Task, ApiTask, DeviceTasks
  <2>4. UNCHANGED api \/ api' = Append(api, [Task("HandleResponse", Head(worker).s.s) EXCEPT !.reply = Head(worker).reply])
    BY <1>8 DEF HttpReply
  <2>5. worker' = Tail(worker) /\ UNCHANGED capture
    BY <1>8 DEF HttpReply
  <2> QED BY <2>1, <2>3, <2>4, <2>5 DEF capture, Moves
<1>9. CASE HttpRound
  <2>1. Head(done) \in TransferType
    BY <1>9, Ends DEF HttpRound, TransferType
  <2>2. [name |-> "HttpReply", s |-> Head(done).q, reply |-> Head(done).reply] \in WorkerTask \ DeviceTasks
    BY <2>1 DEF TransferType, WorkerTask, DeviceTasks
  <2> QED BY <1>9, <2>2 DEF HttpRound, capture, Moves
<1>10. CASE Network \/ Answers \/ Removals
  <2>1. UNCHANGED <<api, worker, capture>>
    BY <1>10 DEF Network, Response, TransferTimeout, Transfer, Answers, Removals, Aside, sdk
  <2> QED BY <2>1 DEF capture, Moves
<1>11. ASSUME NEW s \in Pushers, TimerFires(s) PROVE G
  <2>1. Task("GetRtcStats", s) \in ApiTask \ DeviceTasks
    BY DEF Task, ApiTask, DeviceTasks
  <2> QED BY <1>11, <2>1 DEF TimerFires, capture, Moves
<1> QED BY <1>4, <1>6, <1>7, <1>8, <1>9, <1>10, <1>11 DEF WorkerThread

LEMMA CallStep ==
  ASSUME TypeOK, DevicesInv, NEW d \in Devices, NEW op \in {"Start", "Stop"}, Call(d, op)
  PROVE  DevicesInv'
<1> USE DEF TypeOK
<1>1. PICK x : x = Task(op, d)
  OBVIOUS
<1>2. x.name = op /\ x.s = d
  BY <1>1 DEF Task
<1>3. /\ last' = [last EXCEPT ![d] = op] /\ UNCHANGED device
      /\ early' = IF d = "camera" THEN op = "Stop" /\ Unreported ELSE early
  BY DEF Call, CallDevice
<1>4. CASE d = "mic"
  <2>1. worker' = Append(worker, x) /\ UNCHANGED api
    BY <1>1, <1>4 DEF Call
  <2>2. x \in WorkerTask
    BY <1>1, <1>4 DEF Task, WorkerTask
  <2>3. op = "Stop" => x \in StopOf("mic") /\ x \notin StartOf("mic")
    BY <1>2, <1>4, <2>2, DeviceSets
  <2>4. op = "Stop" => Off(worker', "mic", device'["mic"])
    BY <1>3, <2>1, <2>2, <2>3, OffAppend
  <2>5. last'["mic"] = op /\ early' = early /\ \A e \in Devices : e # "mic" => last'[e] = last[e]
    BY <1>3, <1>4
  <2> QED BY <1>3, <2>1, <2>4, <2>5 DEF DevicesInv
<1>5. CASE d # "mic"
  <2>1. api' = Append(api, x) /\ UNCHANGED worker
    BY <1>1, <1>5 DEF Call
  <2>2. x \in ApiTask
    BY <1>1, <1>5 DEF Task, ApiTask
  <2>3. ASSUME NEW e \in Devices
        PROVE  /\ x \in StartOf(e) <=> e = d /\ op = "Start"
               /\ x \in StopOf(e) <=> e = d /\ op = "Stop"
    BY <1>2, <2>2, DeviceSets
  <2>4. last'[d] = op /\ \A e \in Devices : e # d => last'[e] = last[e]
    BY <1>3
  <2>5. ASSUME "desktop" \in Devices, last'["desktop"] = "Stop" PROVE Off(api', "desktop", device'["desktop"])
    <3>1. x \notin StartOf("desktop") /\ (x \in StopOf("desktop") \/ Off(api, "desktop", device["desktop"]))
      BY <2>3, <2>4, <2>5 DEF DevicesInv
    <3> QED BY <1>3, <2>1, <2>2, <3>1, OffAppend
  <2>6. ASSUME "camera" \in Devices, last'["camera"] = "Stop", ~early'
        PROVE  Off(api', "camera", device'["camera"]) /\ ~Has(api', FirstOf("camera"))
    <3>1. x \notin StartOf("camera") /\ x \notin FirstOf("camera")
      BY <1>2, <2>3, <2>4, <2>6 DEF FirstOf
    <3>2. ~Has(api, FirstOf("camera")) /\ (x \in StopOf("camera") \/ Off(api, "camera", device["camera"]))
      <4>1. CASE d = "camera"
        <5>1. op = "Stop" /\ ~Unreported
          BY <1>3, <2>4, <2>6, <4>1
        <5>2. ~Has(api, FirstOf("camera"))
          BY <5>1 DEF Unreported, Has, FirstOf
        <5> QED BY <2>3, <2>6, <4>1, <5>1, <5>2
      <4>2. CASE d # "camera"
        BY <1>3, <2>4, <2>6, <4>2 DEF DevicesInv
      <4> QED BY <4>1, <4>2
    <3>3. Off(api', "camera", device'["camera"])
      BY <1>3, <2>1, <2>2, <3>1, <3>2, OffAppend
    <3> QED BY <2>1, <2>2, <3>1, <3>2, <3>3, AppendHas
  <2>8. "mic" \in Devices /\ last'["mic"] = "Stop" => Off(worker', "mic", device'["mic"])
    BY <1>3, <1>5, <2>1, <2>4 DEF DevicesInv
  <2> QED BY <2>5, <2>6, <2>8 DEF DevicesInv
<1> QED BY <1>4, <1>5

LEMMA MicStep ==
  ASSUME TypeOK, DevicesInv, MicStop \/ (\E b \in BOOLEAN : MicStart(b))
  PROVE  DevicesInv'
<1> USE DEF TypeOK
<1>1. worker # <<>> /\ Head(worker) \in WorkerTask /\ worker' = Tail(worker) /\ UNCHANGED <<api, last, early>>
  BY Ends DEF MicStop, MicStart, RunsWorker
<1>2. "mic" \in Devices /\ Head(worker).s = "mic" /\ Head(worker).name \in {"Start", "Stop"}
  BY <1>1 DEF MicStop, MicStart, RunsWorker, WorkerTask
<1>3. /\ device'["mic"] => device["mic"] \/ Head(worker) \in StartOf("mic")
      /\ Head(worker) \in StopOf("mic") => ~device'["mic"]
  <2>1. CASE MicStop
    BY <1>2, <2>1 DEF MicStop
  <2>2. CASE \E b \in BOOLEAN : MicStart(b)
    <3>1. Head(worker).name = "Start"
      BY <2>2 DEF MicStart, RunsWorker
    <3> QED BY <1>1, <1>2, <3>1, DeviceSets
  <2> QED BY <2>1, <2>2
<1>4. \A e \in Devices : e # "mic" => device'[e] = device[e]
  BY DEF MicStop, MicStart, Started
<1>5. last["mic"] = "Stop" => Off(worker', "mic", device'["mic"])
  <2> SUFFICES ASSUME last["mic"] = "Stop" PROVE Off(worker', "mic", device'["mic"])
    OBVIOUS
  <2>1. Off(worker, "mic", device["mic"])
    BY <1>2 DEF DevicesInv
  <2> QED BY <1>1, <1>3, <2>1, OffTail
<1> QED BY <1>1, <1>4, <1>5 DEF DevicesInv

LEMMA VideoStep ==
  ASSUME TypeOK, DevicesInv,
         CameraStart \/ DesktopStart \/ VideoStop \/ (\E b \in BOOLEAN : VcmStart(b))
  PROVE  DevicesInv'
<1> USE DEF TypeOK
<1>1. api # <<>> /\ Head(api) \in ApiTask /\ UNCHANGED <<worker, last, early>> /\ Tail(api) \in Seq(ApiTask)
  BY Ends DEF CameraStart, DesktopStart, VideoStop, VcmStart, RunsApi, capture
<1>2. PICK h : h = Head(api)
  OBVIOUS
<1>3. h.s \in Devices /\ h.s # "mic" /\ h.name \in {"Start", "Stop", "VcmStart"} /\ (h.name = "VcmStart" => h.s = "camera")
  BY <1>1, <1>2 DEF CameraStart, DesktopStart, VideoStop, VcmStart, RunsApi, ApiTask
<1>4. ASSUME NEW e \in Devices
      PROVE  /\ h \in StartOf(e) <=> h.name \in {"Start", "VcmStart"} /\ h.s = e
             /\ h \in StopOf(e) <=> h.name = "Stop" /\ h.s = e
  BY <1>1, <1>2, DeviceSets
<1>5. /\ \A e \in Devices : e # h.s => device'[e] = device[e]
      /\ h.name = "Stop" => ~device'[h.s]
      /\ h.name = "Start" /\ h.s = "camera" => UNCHANGED device
      /\ IF h.name = "Start" /\ h.s = "camera" THEN api' = Append(Tail(api), Task("VcmStart", "camera"))
         ELSE api' = Tail(api)
  BY <1>1, <1>2, <1>3 DEF CameraStart, DesktopStart, VideoStop, VcmStart, RunsApi, Started, capture
<1>6. "mic" \in Devices /\ last'["mic"] = "Stop" => Off(worker', "mic", device'["mic"])
  BY <1>1, <1>3, <1>5 DEF DevicesInv
<1>7. PICK x : x = Task("VcmStart", "camera")
  OBVIOUS
<1>8. h.s = "camera" => x \in ApiTask
  BY <1>3, <1>7 DEF Task, ApiTask
<1>9. ASSUME "desktop" \in Devices, last'["desktop"] = "Stop" PROVE Off(api', "desktop", device'["desktop"])
  <2>1. Off(api, "desktop", device["desktop"])
    BY <1>1, <1>9 DEF DevicesInv
  <2>2. device'["desktop"] => device["desktop"] \/ h \in StartOf("desktop")
    BY <1>3, <1>4, <1>5, <1>9
  <2>3. h \in StopOf("desktop") => ~device'["desktop"]
    BY <1>4, <1>5, <1>9
  <2>4. Off(Tail(api), "desktop", device'["desktop"])
    BY <1>1, <1>2, <2>1, <2>2, <2>3, OffTail
  <2>5. CASE h.name = "Start" /\ h.s = "camera"
    <3>1. x \notin StartOf("desktop")
      BY <1>7 DEF Task, StartOf
    <3>2. PICK p : p = Tail(api)
      OBVIOUS
    <3>3. p \in Seq(ApiTask) /\ x \in ApiTask /\ api' = Append(p, x) /\ Off(p, "desktop", device'["desktop"])
      BY <1>1, <1>5, <1>7, <1>8, <2>4, <2>5, <3>2
    <3> QED BY <3>1, <3>3, OffAppend
  <2> QED BY <1>5, <2>4, <2>5
<1>10. ASSUME "camera" \in Devices, last'["camera"] = "Stop", ~early'
       PROVE  Off(api', "camera", device'["camera"]) /\ ~Has(api', FirstOf("camera"))
  <2>1. Off(api, "camera", device["camera"]) /\ ~Has(api, FirstOf("camera"))
    BY <1>1, <1>10 DEF DevicesInv
  <2>2. h \notin FirstOf("camera") /\ ~Has(Tail(api), FirstOf("camera"))
    BY <1>1, <1>2, <2>1, TailHas
  <2>3. api' = Tail(api)
    BY <1>1, <1>2, <1>5, <2>2 DEF FirstOf
  <2>4. device'["camera"] => device["camera"] \/ h \in StartOf("camera")
    BY <1>3, <1>4, <1>5, <1>10
  <2>5. h \in StopOf("camera") => ~device'["camera"]
    BY <1>4, <1>5, <1>10
  <2>6. Off(Tail(api), "camera", device'["camera"])
    BY <1>1, <1>2, <2>1, <2>4, <2>5, OffTail
  <2> QED BY <2>2, <2>3, <2>6
<1> QED BY <1>6, <1>9, <1>10 DEF DevicesInv

LEMMA DevicesInit ==
  ASSUME Init
  PROVE  DevicesInv
<1>1. api = <<>> /\ worker = <<>> /\ \A d \in Devices : ~device[d]
  BY DEF Init
<1>2. \A S : ~Has(<<>>, S)
  BY EmptyHas
<1> QED BY <1>1, <1>2 DEF DevicesInv, Off

LEMMA DevicesStep ==
  ASSUME TypeOK, DevicesInv, [Next]_vars
  PROVE  DevicesInv'
<1>1. CASE UNCHANGED vars
  BY <1>1, IdleDevices DEF vars, sdk, capture, Moves
<1>2. ASSUME NEW d \in Devices, NEW op \in {"Start", "Stop"}, Call(d, op) PROVE DevicesInv'
  BY <1>2, CallStep
<1>3. CASE MicStop \/ (\E b \in BOOLEAN : MicStart(b))
  BY <1>3, MicStep
<1>4. CASE CameraStart \/ DesktopStart \/ VideoStop \/ (\E b \in BOOLEAN : VcmStart(b))
  BY <1>4, VideoStep
<1> QED BY <1>1, <1>2, <1>3, <1>4, OtherTasks, IdleDevices DEF Next

--------------------------------------------------------------------------------
(* The results. *)

LEMMA TypeStep ==
  ASSUME TypeOK, CallsInv, [Next]_vars
  PROVE  TypeOK'
<1>1. CASE UNCHANGED vars
  BY <1>1 DEF TypeOK, vars, gateway, sdk, capture
<1> QED BY <1>1, TypeApp, TypeApi, TypeWorker, TypeHttp, TypeNetwork, TypeAnswers DEF Next

LEMMA Initially == Init => IInv
BY TypeInit, ViewsInit, DevicesInit DEF IInv

LEMMA Preserved == IInv /\ [Next]_vars => IInv'
BY TypeStep, ViewsStep, DevicesStep DEF IInv

LEMMA Inductive == Spec => []IInv
BY Initially, Preserved, PTL DEF Spec

(* The queues of the threads, HttpManager, the gateway's table and the devices *)
(* keep their types; PickServer never leaves the list of addresses.            *)
THEOREM TypeCorrect == Spec => []TypeOK
BY Inductive, PTL DEF IInv

(* xrtc_push_impl.cpp, xrtc_pull_impl.cpp, xrtc_http.cpp, client.go and the       *)
(* server's signaling_worker.cpp and rtc_stream_manager.cpp: what the application *)
(* is told agrees with what the server carried out, but for the calls someone     *)
(* gave up on and those that got the answer of another; for any number of         *)
(* sessions, servers and lost answers.                                            *)
THEOREM Agreement == Spec => []ViewsAgree
<1>1. ASSUME IInv PROVE ViewsAgree
  <2> SUFFICES ASSUME NEW s \in Sessions
               PROVE  LET q == OpeningCall(s)
                          c == ClosingCall(s)
                      IN /\ Len(report[s]) <= 1
                         /\ Misled(q) => lost # {}
                         /\ Succeeded(s) => CarriedOut(q) \/ Misled(q)
                         /\ report[s] # <<>> /\ ~Succeeded(s) /\ CarriedOut(q) => q \in lost \/ Misled(q)
                         /\ Patient /\ CarriedOut(c) /\ q \notin lost /\ ~Misled(q) => ~Holds(calls[c].addr, s)
    BY DEF ViewsAgree
  <2>1. Single(s) /\ Evidence(s) /\ Leaves(s)
    BY <1>1 DEF IInv, Views
  <2>2. Misled(OpeningCall(s)) => lost # {}
    BY <1>1 DEF IInv, CallsInv, CallSound, Misled
  <2>3. Len(report[s]) <= 1 /\ (Succeeded(s) => CarriedOut(OpeningCall(s)) \/ Misled(OpeningCall(s)))
    BY <2>1 DEF Single, Evidence, Served
  <2>4. report[s] # <<>> /\ ~Succeeded(s) /\ CarriedOut(OpeningCall(s)) =>
            OpeningCall(s) \in lost \/ Misled(OpeningCall(s))
    BY <2>1 DEF Evidence, Hopeless, Failed, CarriedOut
  <2> QED BY <2>1, <2>2, <2>3, <2>4 DEF Leaves
<1> QED BY <1>1, Inductive, PTL

(* mic_impl.cpp, vcm_capturer.cpp, desktop_capturer.cpp, xrtc_global.cpp: once    *)
(* the posted tasks have run, a device that was stopped last is off, whatever was *)
(* called before on however many threads; only a camera whose Stop was called     *)
(* before its Start reported anything may be on.                                  *)
THEOREM StoppedDevices == Spec => []StoppedDeviceIsOff
<1>1. ASSUME IInv PROVE StoppedDeviceIsOff
  <2> SUFFICES ASSUME api = <<>>, worker = <<>>, NEW d \in Devices, device[d], d # "camera" \/ ~early
               PROVE  last[d] = "Start"
    BY DEF StoppedDeviceIsOff
  <2>1. \A S : ~Has(<<>>, S)
    BY EmptyHas
  <2>2. \A e, on : Off(<<>>, e, on) => ~on
    BY <2>1 DEF Off
  <2>3. last[d] \in {"Start", "Stop"} /\ d \in {"mic", "camera", "desktop"}
    BY <1>1, SdkAssumption DEF IInv, TypeOK
  <2>4. DevicesInv
    BY <1>1 DEF IInv
  <2> QED BY <2>1, <2>2, <2>3, <2>4 DEF DevicesInv
<1> QED BY <1>1, Inductive, PTL
================================================================================
