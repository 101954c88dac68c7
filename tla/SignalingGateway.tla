---------------------------- MODULE SignalingGateway ----------------------------
(* The HTTP gateway between a client and the media servers. A request becomes one *)
(* goroutine that checks the form, picks a server, writes the command on a fresh  *)
(* connection and waits a bounded time for the answer. The media server takes the *)
(* command, carries it out in turn and answers; it may also remove a stream of    *)
(* its own accord.                                                                *)
EXTENDS Integers, Sequences, FiniteSets, Functions

CONSTANTS
    Servers,         \* the addresses of the configuration, in order
    MaxLost          \* bound: requests someone gives up waiting for

ASSUME ServersAssumption == Servers # <<>> /\ Servers \in Seq(Range(Servers))

VARIABLES
    curIndex,        \* of RoundRobinSelector, from 0
    calls,           \* the requests the gateway works on or has answered
    written,         \* commands on a connection that the media server has not read
    msgs,            \* those it has read and not carried out, in order
    published,       \* the user whose stream each media server holds
    pulled,          \* the user in its table of pullers
    lost             \* requests someone gave up waiting for, though they may be carried out

streams == <<published, pulled>>
gateway == <<curIndex, calls, written, msgs, published, pulled, lost>>

Addresses == Range(Servers)
Ok == "ok"
ErrParam == "errParam"           \* ParamErr: a bad form, or no answer in time
ErrNetwork == "errNetwork"       \* NetworkErr: the server answered with an error
NoReply == "none"

MayLose(r) == Cardinality(lost \cup {r}) <= MaxLost

GatewayInit ==
    /\ curIndex = 0
    /\ calls = [r \in {} |-> <<>>]
    /\ written = {} /\ msgs = [a \in Addresses |-> <<>>]
    /\ published = [a \in Addresses |-> {}]
    /\ pulled = [a \in Addresses |-> {}]
    /\ lost = {}

--------------------------------------------------------------------------------
NextIndex == IF curIndex + 1 >= Len(Servers) THEN 0 ELSE curIndex + 1

\* PickServer under its lock; the index is used after it was moved.
Picked == curIndex + 1

\* Commands the media server has still to carry out.
Due == written \cup UNION {Range(msgs[a]) : a \in Addresses}

(* Of a call also what its connection got, whose answer and what it says; and the *)
(* calls whose connection was closed before this one was opened, unanswered.      *)
NewCall(kind, addr, state, reply) ==
    [kind |-> kind, addr |-> addr, state |-> state, reply |-> reply, result |-> NoReply,
     heard |-> {}, after |-> {x \in Due : calls[x].state # "sent"}]

\* The goroutine of request r starts with c.
Entered(r, c) == [x \in DOMAIN calls \cup {r} |-> IF x = r THEN c ELSE calls[x]]

(* Do up to the answer: a server, a connection and the command. If DialTimeout    *)
(* gives up, the client is told of a parameter error.                             *)
Do(r, kind, connects) ==
    /\ r \notin DOMAIN calls /\ (connects \/ MayLose(r))
    /\ curIndex' = NextIndex
    /\ calls' = Entered(r, IF connects THEN NewCall(kind, Servers[Picked], "sent", NoReply)
                           ELSE NewCall(kind, Servers[Picked], "done", ErrParam))
    /\ written' = IF connects THEN written \cup {r} ELSE written
    /\ lost' = IF connects THEN lost ELSE lost \cup {r}
    /\ UNCHANGED <<msgs, streams>>

(* A form that is not complete is refused before a server is picked. (For the uid *)
(* 0 the code that refuses it panics: its client gets no answer, an error too.)   *)
Refuse(r, kind) ==
    /\ r \notin DOMAIN calls
    /\ calls' = Entered(r, NewCall(kind, "nowhere", "done", ErrParam))
    /\ UNCHANGED <<curIndex, written, msgs, streams, lost>>

(* Execute of the four actions. A complete form has a uid other than 0 and a      *)
(* name, and the description where there has to be one.                           *)
Execute(r, kind, complete, connects) ==
    \/ complete /\ Do(r, kind, connects)
    \/ ~complete /\ Refuse(r, kind)
PushAction(r, complete, connects) == Execute(r, "push", complete, connects)
PullAction(r, complete, connects) == Execute(r, "pull", complete, connects)
StopPushAction(r, complete, connects) == Execute(r, "stoppush", complete, connects)
StopPullAction(r, complete, connects) == Execute(r, "stoppull", complete, connects)

--------------------------------------------------------------------------------
(* The media server. *)

IsStop(r) == calls[r].kind \in {"stoppush", "stoppull"}

(* Where the answer to r arrives: on its connection, or, if that was closed, on   *)
(* none or on one opened since that took its descriptor and its address. The      *)
(* reader takes the first answer of a connection.                                 *)
Hearers(r) ==
    IF calls[r].state = "sent" THEN {{x \in {r} : calls[x].heard = {}}}
    ELSE {{}} \cup {{x} : x \in {y \in DOMAIN calls :
                                 /\ calls[y].state = "sent" /\ calls[y].heard = {}
                                 /\ calls[y].addr = calls[r].addr /\ r \in calls[y].after}}

\* The calls once those of H have heard the answer to r.
Hearing(c, H, r, says) ==
    [x \in DOMAIN c |-> IF x \in H THEN [c[x] EXCEPT !.heard = {[from |-> r, says |-> says]}] ELSE c[x]]

(* The SignalingWorker reads the command and passes it on to the RtcWorker. A     *)
(* stop it answers at once.                                                       *)
ProcessRequest(r) ==
    /\ r \in written
    /\ written' = written \ {r}
    /\ msgs' = [msgs EXCEPT ![calls[r].addr] = Append(@, r)]
    /\ IF IsStop(r) THEN \E H \in Hearers(r) : calls' = Hearing(calls, H, r, Ok) ELSE UNCHANGED calls
    /\ UNCHANGED <<curIndex, streams, lost>>

Found(a) == published[a] # {}
Result(r) == IF calls[r].kind = "pull" /\ ~Found(calls[r].addr) THEN ErrNetwork ELSE Ok
WithResult(r) == [calls EXCEPT ![r].result = Result(r)]

(* The RtcWorker carries out the first command, and answers it if it opens: a     *)
(* publisher takes the place of another, a puller needs a publisher and takes the *)
(* place of another, and only who holds a place can leave it.                     *)
Serve(a) ==
    LET r == Head(msgs[a])
        kind == calls[r].kind
    IN /\ msgs[a] # <<>>
       /\ msgs' = [msgs EXCEPT ![a] = Tail(@)]
       /\ IF IsStop(r) THEN calls' = WithResult(r)
          ELSE \E H \in Hearers(r) : calls' = Hearing(WithResult(r), H, r, Result(r))
       /\ published' = [published EXCEPT ![a] = CASE kind = "push" -> {r.s}
                                                 [] kind = "stoppush" -> @ \ {r.s}
                                                 [] OTHER -> @]
       /\ pulled' = [pulled EXCEPT ![a] = CASE kind = "pull" /\ Found(a) -> {r.s}
                                           [] kind = "stoppull" -> @ \ {r.s}
                                           [] OTHER -> @]
       /\ UNCHANGED <<curIndex, written, lost>>

\* A stream that did not connect in time or has failed is removed.
OnStreamException(a) ==
    /\ \/ published[a] # {} /\ published' = [published EXCEPT ![a] = {}] /\ UNCHANGED pulled
       \/ pulled[a] # {} /\ pulled' = [pulled EXCEPT ![a] = {}] /\ UNCHANGED published
    /\ UNCHANGED <<curIndex, calls, written, msgs, lost>>

--------------------------------------------------------------------------------
\* The response of the action to the answer of the server.
Replied(result) == IF result = Ok THEN Ok ELSE ErrNetwork

\* ReadResponse gets an answer within the read deadline.
ReadResponse(r) ==
    /\ calls[r].state = "sent"
    /\ \E e \in calls[r].heard :
           calls' = [calls EXCEPT ![r].state = "done", ![r].reply = Replied(e.says)]
    /\ UNCHANGED <<curIndex, written, msgs, streams, lost>>

(* The write or the read deadline passes: Do returns without closing the          *)
(* connection, which the garbage collector does, and the server may still carry   *)
(* out the command.                                                               *)
DeadlineExceeded(r) ==
    /\ calls[r].state = "sent" /\ MayLose(r)
    /\ calls' = [calls EXCEPT ![r].state = "abandoned", ![r].reply = ErrParam]
    /\ lost' = lost \cup {r}
    /\ UNCHANGED <<curIndex, written, msgs, streams>>
================================================================================
