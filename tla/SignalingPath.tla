---------------------------- MODULE SignalingPath ----------------------------
(***************************************************************************)
(* The path of one client request through the threads of xrtcserver:       *)
(*                                                                         *)
(*   SignalingServer --fd--> SignalingWorker --RtcMsg--> RtcServer         *)
(*                              ^                            |             *)
(*                              +------- RtcWorker <---------+             *)
(*                                                                         *)
(* Every arrow is a queue followed by an int written to the receiver's     *)
(* notify pipe.  The push and the (blocking) write are two steps of the    *)
(* sending thread; a handler that touches only its own thread's state is   *)
(* one step.  The pipe of a thread is a pair of counters, one per kind of  *)
(* notification: a handler only ever looks at the kind it was called for,  *)
(* so the order of different kinds in one pipe is left open.               *)
(*                                                                         *)
(* A TcpConnection lives at an address of Addrs.  close(fd) gives the fd   *)
(* back to the kernel, which may hand it to the next accepted client, and  *)
(* `delete conn' gives the address back to the allocator, which may hand   *)
(* it to the next TcpConnection.                                           *)
(*                                                                         *)
(* conns_ is indexed by fd and grows only for an fd above its size: the    *)
(* TcpConnection of an fd equal to its size is written one past its end.   *)
(* What is written there may be found there again or not, is given up when *)
(* conns_ grows, and is refused by every check against the size.           *)
(***************************************************************************)
EXTENDS Naturals, Sequences, FiniteSets

CONSTANTS
    Conns,        \* client connections, each accepted at most once
    Fds,          \* file descriptors the kernel hands out for them
    EarlierFds,   \* and has handed out before, for connections now closed
    Addrs,        \* heap addresses of TcpConnection objects
    SigWorkerNum, \* SignalingServerOptions.worker_num
    RtcWorkers,   \* the RtcWorker threads
    Streams,      \* stream names
    Shard,        \* crc32(stream_name) % worker_num
    PipeCap,      \* notifications a pipe holds before write() blocks
    null

ASSUME SigWorkerNumAssumption == SigWorkerNum \in Nat \ {0}
ASSUME FdsAssumption == Fds \subseteq Nat \ {0} /\ EarlierFds \subseteq Nat \ {0}
ASSUME PipeCapAssumption == PipeCap \in Nat \ {0}
ASSUME ShardAssumption == Shard \in [Streams -> RtcWorkers]
ASSUME FiniteAssumption == IsFiniteSet(RtcWorkers)
ASSUME NullAssumption ==
    /\ null \notin Conns /\ null \notin Addrs /\ null \notin RtcWorkers
    /\ null \notin 0 .. SigWorkerNum - 1

SigWorkers == 0 .. SigWorkerNum - 1
AsyncCmds == {"push", "pull"}          \* answered by an RtcWorker
StopCmds == {"stoppush", "stoppull"}   \* answered by the SignalingWorker itself
Cmds == AsyncCmds \cup StopCmds

VARIABLES
    owner,        \* [Fds -> Conns or null]: the client behind an open fd
    request,      \* [Conns -> what the client asked; "out" before it connects]
    got,          \* [Conns -> Seq of replies the client has received]
    nextWorker,   \* SignalingServer::next_worker_index_
    qConn, nConn, \* SignalingWorker::q_conn_ and its NEW_CONN notifications
    conns,        \* SignalingWorker::conns_ and what is behind its end
    size,         \* SignalingWorker::conns_.size()
    strays,       \* clients whose TcpConnection was written past that end
    heap,         \* [Addrs -> TcpConnection or null]
    seat,         \* [Conns -> where its TcpConnection was made: worker, fd, address]
    qSrv, nSrv,   \* RtcServer::q_msg_ and its RTC_MSG notifications
    qRtc, nRtc,   \* RtcWorker::q_msg_ and its RTC_MSG notifications
    qSig, nSig,   \* SignalingWorker::q_msg_ and its RTC_MSG notifications
    pcAcc,        \* SignalingServer thread: worker it is about to notify
    pcSig,        \* SignalingWorker threads: where each one is in its handler
    pcSrv,        \* RtcServer thread: worker it is about to notify
    pcRtc,        \* RtcWorker threads: signaling worker each one will notify
    asked,        \* per stream, the clients in the order RtcServer got them
    served        \* per stream, the clients in the order a worker served them

clientVars == <<owner, request, got>>
connVars == <<qConn, nConn, nextWorker, pcAcc>>
placeVars == <<size, strays, seat>>
objVars == <<conns, heap, placeVars>>
srvVars == <<qSrv, nSrv>>
rtcVars == <<qRtc, nRtc>>
sigVars == <<qSig, nSig>>
histVars == <<asked, served>>
vars == <<clientVars, connVars, objVars, srvVars, rtcVars, sigVars,
          pcSig, pcSrv, pcRtc, histVars>>

Idle == [at |-> "idle", conn |-> null]

(* A fresh TcpConnection: no bytes read, nothing to write.  Its watchers   *)
(* are in the event loop of its worker.                                    *)
TcpConnection(c, w, fd) ==
    [client |-> c, worker |-> w, fd |-> fd, state |-> "head", replies |-> <<>>]

TcpConnectionType ==
    [client : Conns, worker : SigWorkers, fd : Fds, state : {"head", "done"},
     replies : Seq(Conns)]

(* RtcMsg: the fields that steer the request.  `from' is the client that   *)
(* asked; the code does not carry it, it carries only conn and fd.         *)
RtcMsg(c, w, a, fd, cmd, s) ==
    [from |-> c, worker |-> w, conn |-> a, fd |-> fd, cmd |-> cmd, stream |-> s]

RtcMsgType ==
    [from : Conns, worker : SigWorkers, conn : Addrs, fd : Fds,
     cmd : Cmds, stream : Streams]

Seat(w, fd, a) == [worker |-> w, fd |-> fd, conn |-> a]

SeatType == [worker : SigWorkers, fd : Fds, conn : Addrs]

ASSUME NullObjectAssumption == null \notin TcpConnectionType /\ null \notin SeatType

PcSigType ==
    [at : {"idle", "notify", "remove", "write"}, conn : Addrs \cup {null}]

TypeOK ==
    /\ owner \in [Fds -> Conns \cup {null}]
    /\ request \in [Conns -> Cmds \cup {"out", "none", "unknown"}]
    /\ got \in [Conns -> Seq(Conns)]
    /\ nextWorker \in SigWorkers
    /\ qConn \in [SigWorkers -> Seq(Fds)]
    /\ nConn \in [SigWorkers -> Nat]
    /\ conns \in [SigWorkers -> [Fds -> Addrs \cup {null}]]
    /\ size \in [SigWorkers -> Nat]
    /\ strays \subseteq Conns
    /\ heap \in [Addrs -> TcpConnectionType \cup {null}]
    /\ seat \in [Conns -> SeatType \cup {null}]
    /\ qSrv \in Seq(RtcMsgType) /\ nSrv \in Nat
    /\ qRtc \in [RtcWorkers -> Seq(RtcMsgType)] /\ nRtc \in [RtcWorkers -> Nat]
    /\ qSig \in [SigWorkers -> Seq(RtcMsgType)] /\ nSig \in [SigWorkers -> Nat]
    /\ pcAcc \in SigWorkers \cup {null}
    /\ pcSig \in [SigWorkers -> PcSigType]
    /\ pcSrv \in RtcWorkers \cup {null}
    /\ pcRtc \in [RtcWorkers -> SigWorkers \cup {null}]
    /\ asked \in [Streams -> Seq(Conns)]
    /\ served \in [Streams -> Seq(Conns)]

(* Earlier connections have left conns_ as large as they made it.          *)
Init ==
    /\ owner = [f \in Fds |-> null]
    /\ request = [c \in Conns |-> "out"]
    /\ got = [c \in Conns |-> <<>>]
    /\ nextWorker = 0
    /\ qConn = [w \in SigWorkers |-> <<>>] /\ nConn = [w \in SigWorkers |-> 0]
    /\ conns = [w \in SigWorkers |-> [f \in Fds |-> null]]
    /\ size \in [SigWorkers -> {0} \cup {2 * f : f \in EarlierFds}]
    /\ strays = {}
    /\ heap = [a \in Addrs |-> null]
    /\ seat = [c \in Conns |-> null]
    /\ qSrv = <<>> /\ nSrv = 0
    /\ qRtc = [r \in RtcWorkers |-> <<>>] /\ nRtc = [r \in RtcWorkers |-> 0]
    /\ qSig = [w \in SigWorkers |-> <<>>] /\ nSig = [w \in SigWorkers |-> 0]
    /\ pcAcc = null
    /\ pcSig = [w \in SigWorkers |-> Idle]
    /\ pcSrv = null
    /\ pcRtc = [r \in RtcWorkers |-> null]
    /\ asked = [s \in Streams |-> <<>>]
    /\ served = [s \in Streams |-> <<>>]

-----------------------------------------------------------------------------
(* SignalingServer thread.                                                 *)

(* dispatch_new_conn takes the workers in turn.                            *)
NextIndex(i) == IF i + 1 >= SigWorkerNum THEN 0 ELSE i + 1

(* accept_new_conn and dispatch_new_conn: the next worker in turn gets the *)
(* fd in its q_conn_.                                                      *)
AcceptNewConn(c, fd) ==
    /\ pcAcc = null
    /\ request[c] = "out" /\ owner[fd] = null
    /\ owner' = [owner EXCEPT ![fd] = c]
    /\ request' = [request EXCEPT ![c] = "none"]
    /\ nextWorker' = NextIndex(nextWorker)
    /\ qConn' = [qConn EXCEPT ![nextWorker] = Append(@, fd)]
    /\ pcAcc' = nextWorker
    /\ UNCHANGED <<got, nConn, objVars, srvVars, rtcVars, sigVars,
                   pcSig, pcSrv, pcRtc, histVars>>

(* A pipe has room for one more int; otherwise write() blocks the thread.  *)
Room(n) == n < PipeCap

NotifyNewConn ==
    /\ pcAcc # null
    /\ Room(nConn[pcAcc] + nSig[pcAcc])
    /\ nConn' = [nConn EXCEPT ![pcAcc] = @ + 1]
    /\ pcAcc' = null
    /\ UNCHANGED <<clientVars, nextWorker, qConn, objVars, srvVars, rtcVars,
                   sigVars, pcSig, pcSrv, pcRtc, histVars>>

-----------------------------------------------------------------------------
(* SignalingWorker threads.                                                *)

(* conns_.resize(fd * 2, nullptr), which takes only what is inside along.  *)
Grows(w, fd) == fd > size[w]
ResizedAfresh(w, fd) ==
    [f \in Fds |-> IF Grows(w, fd) THEN null ELSE conns[w][f]]
Resized(w, fd) ==
    [f \in Fds |-> IF Grows(w, fd) /\ f >= size[w] THEN null ELSE conns[w][f]]

(* conns_[fd] = conn: past the end, the pointer is kept or lost.           *)
PastEnd(w, fd) == fd = size[w]
Stored(w, fd, a) == IF PastEnd(w, fd) THEN {a, null} ELSE {a}

(* process_notify(NEW_CONN): q_conn_.consume and _handle_new_conn.         *)
HandleNewConn(w, a) ==
    /\ pcSig[w] = Idle /\ nConn[w] > 0
    /\ nConn' = [nConn EXCEPT ![w] = @ - 1]
    /\ IF qConn[w] = <<>>
       THEN UNCHANGED <<qConn, objVars>>
       ELSE LET fd == Head(qConn[w]) IN
            /\ heap[a] = null
            /\ qConn' = [qConn EXCEPT ![w] = Tail(@)]
            /\ heap' = [heap EXCEPT ![a] = TcpConnection(owner[fd], w, fd)]
            /\ seat' = [seat EXCEPT ![owner[fd]] = Seat(w, fd, a)]
            /\ size' = [size EXCEPT ![w] = IF Grows(w, fd) THEN 2 * fd ELSE @]
            /\ strays' = IF PastEnd(w, fd) THEN strays \cup {owner[fd]} ELSE strays
            /\ \E x \in Stored(w, fd, a) :
                  conns' = [conns EXCEPT ![w] = [Resized(w, fd) EXCEPT ![fd] = x]]
    /\ UNCHANGED <<clientVars, nextWorker, pcAcc, srvVars, rtcVars, sigVars,
                   pcSig, pcSrv, pcRtc, histVars>>

(* The io watchers of worker w look the connection up under its fd; the    *)
(* timer watcher of a connection holds the connection itself.              *)
Watched(w, fd) == pcSig[w] = Idle /\ conns[w][fd] # null
Timed(w, a) == pcSig[w] = Idle /\ heap[a] # null /\ heap[a].worker = w

(* read_query with a whole, well-formed request: _process_request builds   *)
(* the RtcMsg and RtcServer::push_msg queues it.                           *)
ReadRequest(w, fd, cmd, s) ==
    LET a == conns[w][fd] IN
    /\ Watched(w, fd)
    /\ heap[a].state = "head"
    /\ request' = [request EXCEPT ![owner[fd]] = cmd]
    /\ qSrv' = Append(qSrv, RtcMsg(owner[fd], w, a, fd, cmd, s))
    /\ asked' = [asked EXCEPT ![s] = Append(@, owner[fd])]
    /\ pcSig' = [pcSig EXCEPT ![w] = [at |-> "notify", conn |-> a]]
    /\ UNCHANGED <<owner, got, connVars, objVars, nSrv, rtcVars, sigVars,
                   pcSrv, pcRtc, served>>

(* _add_reply: `c' is the client whose request the reply answers.          *)
AddReply(a, c) == [heap EXCEPT ![a].replies = Append(@, c)]

(* bytes_processed = 65535 after a request makes the connection deaf.      *)
Deaf(h, a) == [h EXCEPT ![a].state = "done"]

(* RtcServer::notify and the rest of read_query: a stop is answered at     *)
(* once, push and pull wait for the RtcWorker.                             *)
NotifyRtcServer(w) ==
    LET a == pcSig[w].conn
        c == heap[a].client
        h == IF request[c] \in StopCmds THEN AddReply(a, c) ELSE heap IN
    /\ pcSig[w].at = "notify"
    /\ Room(nSrv)
    /\ nSrv' = nSrv + 1
    /\ heap' = Deaf(h, a)
    /\ pcSig' = [pcSig EXCEPT ![w] = Idle]
    /\ UNCHANGED <<clientVars, connVars, conns, placeVars, qSrv, rtcVars, sigVars,
                   pcSrv, pcRtc, histVars>>

(* _close_connection, first half: close(fd) lets the kernel reuse the fd.  *)
CloseFdKeepConn(w, a) ==
    /\ owner' = [owner EXCEPT ![heap[a].fd] = null]
    /\ pcSig' = [pcSig EXCEPT ![w] = Idle]
CloseFd(w, a) ==
    /\ owner' = [owner EXCEPT ![heap[a].fd] = null]
    /\ pcSig' = [pcSig EXCEPT ![w] = [at |-> "remove", conn |-> a]]

(* _remove_connection: watchers stopped, slot cleared, object deleted with *)
(* every reply it still held.                                              *)
RemoveConnection(w) ==
    LET a == pcSig[w].conn IN
    /\ pcSig[w].at = "remove"
    /\ conns' = [conns EXCEPT ![w][heap[a].fd] = null]
    /\ heap' = [heap EXCEPT ![a] = null]
    /\ pcSig' = [pcSig EXCEPT ![w] = Idle]
    /\ UNCHANGED <<clientVars, connVars, placeVars, srvVars, rtcVars, sigVars,
                   pcSrv, pcRtc, histVars>>

(* _process_request, default branch: the error reply is queued, then the   *)
(* non-zero result makes read_query close the connection.                  *)
RejectUnknownCmd(w, fd) ==
    LET a == conns[w][fd] IN
    /\ Watched(w, fd)
    /\ heap[a].state = "head"
    /\ request' = [request EXCEPT ![owner[fd]] = "unknown"]
    /\ heap' = AddReply(a, owner[fd])
    /\ CloseFd(w, a)
    /\ UNCHANGED <<got, connVars, conns, placeVars, srvVars, rtcVars, sigVars,
                   pcSrv, pcRtc, histVars>>

(* read_query: the peer closed, read() failed, or the bytes are malformed. *)
ReadFails(w, fd) ==
    /\ Watched(w, fd)
    /\ CloseFd(w, conns[w][fd])
    /\ UNCHANGED <<request, got, connVars, objVars, srvVars, rtcVars, sigVars,
                   pcSrv, pcRtc, histVars>>

(* process_timeout: the connection has been silent for too long.           *)
ProcessTimeout(w, a) ==
    /\ Timed(w, a)
    /\ CloseFd(w, a)
    /\ UNCHANGED <<request, got, connVars, objVars, srvVars, rtcVars, sigVars,
                   pcSrv, pcRtc, histVars>>

(* The check against conns_.size() in _response_server_offer, write_reply. *)
Inside(w, fd) == fd < size[w]

(* _response_server_offer: the connection the answer goes to, if its fd is *)
(* inside and it is still the one that asked as far as conn and fd tell.   *)
ReplyTargetByFd(w, m) == IF Inside(w, m.fd) THEN conns[w][m.fd] ELSE null
ReplyTarget(w, m) ==
    IF Inside(w, m.fd) /\ conns[w][m.fd] = m.conn THEN m.conn ELSE null

(* process_notify(RTC_MSG): pop_msg and _response_server_offer.            *)
ProcessRtcMsg(w) ==
    /\ pcSig[w] = Idle /\ nSig[w] > 0
    /\ nSig' = [nSig EXCEPT ![w] = @ - 1]
    /\ IF qSig[w] = <<>>
       THEN UNCHANGED <<qSig, heap>>
       ELSE LET m == Head(qSig[w]) IN
            /\ qSig' = [qSig EXCEPT ![w] = Tail(@)]
            /\ heap' = IF ReplyTarget(w, m) = null
                       THEN heap
                       ELSE AddReply(ReplyTarget(w, m), m.from)
    /\ UNCHANGED <<clientVars, connVars, conns, placeVars, srvVars, rtcVars,
                   pcSig, pcSrv, pcRtc, histVars>>

(* write_reply is entered when a reply is waiting; the loop holds the      *)
(* thread until the peer has taken every byte or the write fails.          *)
BeginWrite(w, fd) ==
    /\ Watched(w, fd) /\ Inside(w, fd)
    /\ heap[conns[w][fd]].replies # <<>>
    /\ pcSig' = [pcSig EXCEPT ![w] = [at |-> "write", conn |-> conns[w][fd]]]
    /\ UNCHANGED <<clientVars, connVars, objVars, srvVars, rtcVars, sigVars,
                   pcSrv, pcRtc, histVars>>

WriteReply(w) ==
    LET a == pcSig[w].conn
        c == owner[heap[a].fd] IN
    /\ pcSig[w].at = "write"
    /\ got' = [got EXCEPT ![c] = Append(@, Head(heap[a].replies))]
    /\ heap' = [heap EXCEPT ![a].replies = Tail(@)]
    /\ pcSig' = IF Tail(heap[a].replies) = <<>> THEN [pcSig EXCEPT ![w] = Idle]
                                                ELSE pcSig
    /\ UNCHANGED <<owner, request, connVars, conns, placeVars, srvVars, rtcVars,
                   sigVars, pcSrv, pcRtc, histVars>>

WriteFails(w) ==
    /\ pcSig[w].at = "write"
    /\ CloseFd(w, pcSig[w].conn)
    /\ UNCHANGED <<request, got, connVars, objVars, srvVars, rtcVars, sigVars,
                   pcSrv, pcRtc, histVars>>

-----------------------------------------------------------------------------
(* RtcServer thread.                                                       *)

(* _get_worker: a stream always has the same worker.                       *)
GetWorkerLeastLoaded(s) ==
    CHOOSE r \in RtcWorkers : \A x \in RtcWorkers : Len(qRtc[r]) <= Len(qRtc[x])
GetWorker(s) == Shard[s]

(* process_rtc_msg: without a certificate the message is dropped,          *)
(* otherwise the worker of its stream gets it.                             *)
RouteRtcMsg ==
    /\ pcSrv = null /\ nSrv > 0
    /\ nSrv' = nSrv - 1
    /\ IF qSrv = <<>>
       THEN UNCHANGED <<qSrv, qRtc, pcSrv>>
       ELSE LET m == Head(qSrv)
                r == GetWorker(m.stream) IN
            /\ qSrv' = Tail(qSrv)
            /\ qRtc' = [qRtc EXCEPT ![r] = Append(@, m)]
            /\ pcSrv' = r
    /\ UNCHANGED <<clientVars, connVars, objVars, nRtc, sigVars, pcSig, pcRtc,
                   histVars>>

(* The history q without the client c.                                     *)
Without(q, c) ==
    LET i == CHOOSE j \in 1 .. Len(q) : q[j] = c IN
    [j \in 1 .. Len(q) - 1 |-> IF j < i THEN q[j] ELSE q[j + 1]]

DropWithoutCertificate ==
    /\ pcSrv = null /\ nSrv > 0 /\ qSrv # <<>>
    /\ nSrv' = nSrv - 1
    /\ qSrv' = Tail(qSrv)
    /\ LET m == Head(qSrv) IN
       asked' = [asked EXCEPT ![m.stream] = Without(@, m.from)]
    /\ UNCHANGED <<clientVars, connVars, objVars, rtcVars, sigVars, pcSig,
                   pcSrv, pcRtc, served>>

(* RtcWorker::send_rtc_msg, the blocking write to the worker's pipe.       *)
NotifyRtcWorkerLossy ==
    /\ pcSrv # null
    /\ nRtc' = [nRtc EXCEPT ![pcSrv] = IF Room(@) THEN @ + 1 ELSE @]
    /\ pcSrv' = null
    /\ UNCHANGED <<clientVars, connVars, objVars, srvVars, qRtc, sigVars,
                   pcSig, pcRtc, histVars>>

NotifyRtcWorker ==
    /\ pcSrv # null
    /\ Room(nRtc[pcSrv])
    /\ nRtc' = [nRtc EXCEPT ![pcSrv] = @ + 1]
    /\ pcSrv' = null
    /\ UNCHANGED <<clientVars, connVars, objVars, srvVars, qRtc, sigVars,
                   pcSig, pcRtc, histVars>>

-----------------------------------------------------------------------------
(* RtcWorker threads.                                                      *)

(* _process_push and _process_pull send the message back; the stop         *)
(* handlers do not.                                                        *)
SentBackPushOnly(m) == m.cmd = "push"
SentBack(m) == m.cmd \in AsyncCmds

(* _process_rtc_msg: the stream manager does the work; push and pull send  *)
(* the message back to the signaling worker it came from.                  *)
ServeRtcMsg(r) ==
    /\ pcRtc[r] = null /\ nRtc[r] > 0
    /\ nRtc' = [nRtc EXCEPT ![r] = @ - 1]
    /\ IF qRtc[r] = <<>>
       THEN UNCHANGED <<qRtc, qSig, pcRtc, served>>
       ELSE LET m == Head(qRtc[r]) IN
            /\ qRtc' = [qRtc EXCEPT ![r] = Tail(@)]
            /\ served' = [served EXCEPT ![m.stream] = Append(@, m.from)]
            /\ IF SentBack(m)
               THEN /\ qSig' = [qSig EXCEPT ![m.worker] = Append(@, m)]
                    /\ pcRtc' = [pcRtc EXCEPT ![r] = m.worker]
               ELSE UNCHANGED <<qSig, pcRtc>>
    /\ UNCHANGED <<clientVars, connVars, objVars, srvVars, nSig, pcSig, pcSrv,
                   asked>>

NotifySigWorker(r) ==
    LET w == pcRtc[r] IN
    /\ w # null
    /\ Room(nConn[w] + nSig[w])
    /\ nSig' = [nSig EXCEPT ![w] = @ + 1]
    /\ pcRtc' = [pcRtc EXCEPT ![r] = null]
    /\ UNCHANGED <<clientVars, connVars, objVars, srvVars, rtcVars, qSig,
                   pcSig, pcSrv, histVars>>

-----------------------------------------------------------------------------
SignalingServerNext ==
    \/ \E c \in Conns, fd \in Fds : AcceptNewConn(c, fd)
    \/ NotifyNewConn

SigWorkerNext(w) ==
    \/ \E a \in Addrs : HandleNewConn(w, a) \/ ProcessTimeout(w, a)
    \/ NotifyRtcServer(w)
    \/ RemoveConnection(w)
    \/ ProcessRtcMsg(w)
    \/ WriteReply(w)
    \/ WriteFails(w)
    \/ \E fd \in Fds :
          \/ \E cmd \in Cmds, s \in Streams : ReadRequest(w, fd, cmd, s)
          \/ RejectUnknownCmd(w, fd)
          \/ ReadFails(w, fd)
          \/ BeginWrite(w, fd)

RtcServerNext == RouteRtcMsg \/ DropWithoutCertificate \/ NotifyRtcWorker

RtcWorkerNext(r) == ServeRtcMsg(r) \/ NotifySigWorker(r)

Next ==
    \/ SignalingServerNext
    \/ \E w \in SigWorkers : SigWorkerNext(w)
    \/ RtcServerNext
    \/ \E r \in RtcWorkers : RtcWorkerNext(r)

Spec == Init /\ [][Next]_vars

(* Every thread runs its loop: what its pipe announces is read, a queued   *)
(* notification is written once the pipe has room, a started handler is    *)
(* finished.  WriteReply is fair because the peer reads what it asked for; *)
(* nothing is assumed of clients, timeouts and certificate failures.       *)
Fairness ==
    /\ WF_vars(NotifyNewConn)
    /\ WF_vars(RouteRtcMsg) /\ WF_vars(NotifyRtcWorker)
    /\ \A r \in RtcWorkers : WF_vars(ServeRtcMsg(r)) /\ WF_vars(NotifySigWorker(r))
    /\ \A w \in SigWorkers :
          /\ WF_vars(\E a \in Addrs : HandleNewConn(w, a))
          /\ WF_vars(NotifyRtcServer(w)) /\ WF_vars(RemoveConnection(w))
          /\ WF_vars(ProcessRtcMsg(w)) /\ WF_vars(WriteReply(w))
          /\ \A fd \in Fds : WF_vars(BeginWrite(w, fd))

FairSpec == Spec /\ Fairness

-----------------------------------------------------------------------------
(* No lost wakeup: since a handler takes one element per notification, an  *)
(* element without a notification would stay in its queue for ever.  Every *)
(* queue holds exactly as many elements as its pipe announces plus as many *)
(* as its producers are still about to announce.                           *)
NoLostWakeup ==
    /\ \A w \in SigWorkers :
          Len(qConn[w]) = nConn[w] + (IF pcAcc = w THEN 1 ELSE 0)
    /\ Len(qSrv) = nSrv + Cardinality({w \in SigWorkers : pcSig[w].at = "notify"})
    /\ \A r \in RtcWorkers :
          Len(qRtc[r]) = nRtc[r] + (IF pcSrv = r THEN 1 ELSE 0)
    /\ \A w \in SigWorkers :
          Len(qSig[w]) = nSig[w] + Cardinality({r \in RtcWorkers : pcRtc[r] = w})

(* conns_ is exact in spite of close() giving the fd away before the slot  *)
(* is cleared: a slot holds only a live TcpConnection of that worker and   *)
(* fd, and every live one is in its slot, inside the vector, unless it was *)
(* written past the end when it was made.                                  *)
ConnTableExact ==
    /\ \A w \in SigWorkers, fd \in Fds :
          conns[w][fd] # null =>
             /\ heap[conns[w][fd]] # null
             /\ heap[conns[w][fd]].worker = w /\ heap[conns[w][fd]].fd = fd
    /\ \A a \in Addrs :
          heap[a] # null /\ heap[a].client \notin strays =>
             /\ conns[heap[a].worker][heap[a].fd] = a
             /\ Inside(heap[a].worker, heap[a].fd)

(* A worker reads and writes only its own clients: until it closes the fd  *)
(* of a connection, the kernel has that fd open for the very client the    *)
(* connection was made for, and no other connection has it or will get it. *)
Closing(a) == pcSig[heap[a].worker] = [at |-> "remove", conn |-> a]
Holds(a) == heap[a] # null /\ ~Closing(a)

FdBelongsToClient ==
    \A a \in Addrs :
       Holds(a) =>
          /\ owner[heap[a].fd] = heap[a].client
          /\ \A b \in Addrs : Holds(b) /\ heap[b].fd = heap[a].fd => b = a
          /\ \A w \in SigWorkers : \A i \in 1 .. Len(qConn[w]) : qConn[w][i] # heap[a].fd

(* Connections are sound through close() and the reuse of what it frees:   *)
(* the tables are exact, but for connections written past their end, and   *)
(* no worker touches the fd of another's client.                           *)
ConnectionsSound == ConnTableExact /\ FdBelongsToClient

(* What the check achieves: an answer can reach a client that did not ask  *)
(* only if its TcpConnection was made by the same worker, for the same fd  *)
(* and at the same address as the one that asked.                          *)
MisdirectedOnlyToTwin ==
    \A c \in Conns : \A i \in 1 .. Len(got[c]) : seat[got[c][i]] = seat[c]

(* A connection carries one request and no request is answered twice, by   *)
(* the worker itself or by way of the RtcWorker.                           *)
AnsweredAtMostOnce ==
    \A d \in Conns :
       Cardinality({x \in UNION {{<<c, i>> : i \in 1 .. Len(got[c])} : c \in Conns} :
                      got[x[1]][x[2]] = d}) <= 1

(* Answers are sound while connections come and go: at most one to each    *)
(* request, and to another client than the one that asked only if all that *)
(* _response_server_offer compares is the same for both.                   *)
AnswersSound == AnsweredAtMostOnce /\ MisdirectedOnlyToTwin

(* The requests of one stream reach its RtcWorker in the order in which    *)
(* RtcServer queued them, whatever workers they came through.              *)
PerStreamOrder ==
    \A s \in Streams :
       /\ Len(served[s]) <= Len(asked[s])
       /\ \A i \in 1 .. Len(served[s]) : served[s][i] = asked[s][i]

Closed(c) == \A fd \in Fds : owner[fd] # c
Dropped(c) == \A s \in Streams : \A i \in 1 .. Len(asked[s]) : asked[s][i] # c

(* Every request is answered, unless the connection is closed first, no    *)
(* certificate could be generated, or the connection was written past the  *)
(* end of conns_, where the checks against its size find no one to answer. *)
EveryRequestAnswered ==
    \A c \in Conns :
       request[c] \in Cmds ~>
          (got[c] # <<>> \/ Closed(c) \/ Dropped(c) \/ c \in strays)

=============================================================================
