------------------------- MODULE SignalingPathProofs -------------------------
(***************************************************************************)
(* Proofs about SignalingPath, for any number of clients, file             *)
(* descriptors, addresses, streams and worker threads.                     *)
(***************************************************************************)
EXTENDS SignalingPath, FiniteSetTheorems, SequenceTheorems, TLAPS

USE NullAssumption, NullObjectAssumption

-----------------------------------------------------------------------------
(* The inductive invariant.  ConnectionsSound alone is not inductive: it   *)
(* does not say what a thread in the middle of a handler relies on, nor    *)
(* that an fd in q_conn_ is open and queued once.                          *)

(* The slots of the workers against the heap, and the heap against the     *)
(* history of who sat where.                                               *)
Slots ==
    /\ \A w \in SigWorkers, fd \in Fds :
          conns[w][fd] # null =>
             /\ heap[conns[w][fd]] # null
             /\ heap[conns[w][fd]].worker = w /\ heap[conns[w][fd]].fd = fd
    /\ \A a \in Addrs :
          heap[a] # null =>
             /\ seat[heap[a].client] = Seat(heap[a].worker, heap[a].fd, a)
             /\ heap[a].client \notin strays =>
                   /\ conns[heap[a].worker][heap[a].fd] = a
                   /\ Inside(heap[a].worker, heap[a].fd)
    /\ \A a, b \in Addrs :
          /\ heap[a] # null /\ heap[b] # null
          /\ heap[a].worker = heap[b].worker /\ heap[a].fd = heap[b].fd
          => a = b

(* A worker in the middle of a handler still has the connection it began   *)
(* with, and one that writes has something to write.                       *)
Threads ==
    \A w \in SigWorkers :
       /\ pcSig[w].at = "idle" => pcSig[w] = Idle
       /\ pcSig[w].at # "idle" =>
             /\ pcSig[w].conn \in Addrs
             /\ heap[pcSig[w].conn] # null
             /\ heap[pcSig[w].conn].worker = w
       /\ pcSig[w].at = "write" => heap[pcSig[w].conn].replies # <<>>

(* An fd in q_conn_ is open, is queued once, and has no TcpConnection yet. *)
Waiting ==
    \A v \in SigWorkers : \A i \in 1 .. Len(qConn[v]) :
       /\ owner[qConn[v][i]] # null
       /\ seat[owner[qConn[v][i]]] = null
       /\ \A u \in SigWorkers : \A j \in 1 .. Len(qConn[u]) :
             qConn[u][j] = qConn[v][i] => u = v /\ j = i

(* A client is behind at most one fd, and has a history only once accepted.*)
Clients ==
    /\ \A f, g \in Fds : owner[f] # null /\ owner[f] = owner[g] => f = g
    /\ \A f \in Fds : owner[f] # null => request[owner[f]] # "out"
    /\ \A c \in Conns : request[c] = "out" => seat[c] = null

(* Answers waiting in a TcpConnection or received are for its client or    *)
(* for one that sat in the very same place.                                *)
Answers ==
    /\ \A a \in Addrs : heap[a] # null =>
          \A i \in 1 .. Len(heap[a].replies) :
             seat[heap[a].replies[i]] = seat[heap[a].client]
    /\ \A c \in Conns : \A i \in 1 .. Len(got[c]) :
          seat[c] # null /\ seat[got[c][i]] = seat[c]

(* So is what an RtcMsg carries of its origin.                             *)
Told(m) == seat[m.from] = Seat(m.worker, m.fd, m.conn)

Messages ==
    /\ \A i \in 1 .. Len(qSrv) : Told(qSrv[i])
    /\ \A r \in RtcWorkers : \A i \in 1 .. Len(qRtc[r]) : Told(qRtc[r][i])
    /\ \A w \in SigWorkers : \A i \in 1 .. Len(qSig[w]) :
          Told(qSig[w][i]) /\ qSig[w][i].worker = w

ConnInv == Slots /\ Threads /\ FdBelongsToClient /\ Waiting /\ Clients /\ Answers

(* TypeOK in two halves: connections, and messages.                        *)
ConnTypes ==
    /\ owner \in [Fds -> Conns \cup {null}]
    /\ request \in [Conns -> Cmds \cup {"out", "none", "unknown"}]
    /\ got \in [Conns -> Seq(Conns)]
    /\ nextWorker \in SigWorkers
    /\ qConn \in [SigWorkers -> Seq(Fds)]
    /\ conns \in [SigWorkers -> [Fds -> Addrs \cup {null}]]
    /\ size \in [SigWorkers -> Nat]
    /\ strays \subseteq Conns
    /\ heap \in [Addrs -> TcpConnectionType \cup {null}]
    /\ seat \in [Conns -> SeatType \cup {null}]
    /\ pcSig \in [SigWorkers -> PcSigType]
    /\ pcAcc \in SigWorkers \cup {null}

MsgTypes ==
    /\ nConn \in [SigWorkers -> Nat]
    /\ qSrv \in Seq(RtcMsgType) /\ nSrv \in Nat
    /\ qRtc \in [RtcWorkers -> Seq(RtcMsgType)] /\ nRtc \in [RtcWorkers -> Nat]
    /\ qSig \in [SigWorkers -> Seq(RtcMsgType)] /\ nSig \in [SigWorkers -> Nat]
    /\ pcSrv \in RtcWorkers \cup {null}
    /\ pcRtc \in [RtcWorkers -> SigWorkers \cup {null}]
    /\ asked \in [Streams -> Seq(Conns)]
    /\ served \in [Streams -> Seq(Conns)]

CInv == ConnTypes /\ ConnInv

(* What ConnTypes says of single values.                                   *)
LEMMA Typed ==
    ASSUME ConnTypes
    PROVE  /\ \A f \in Fds : owner[f] \in Conns \cup {null}
           /\ \A w \in SigWorkers : qConn[w] \in Seq(Fds)
           /\ \A w \in SigWorkers, f \in Fds : conns[w][f] \in Addrs \cup {null}
           /\ \A a \in Addrs : heap[a] # null => heap[a] \in TcpConnectionType
           /\ \A a \in Addrs : heap[a] # null =>
                 /\ heap[a].client \in Conns /\ heap[a].fd \in Fds
                 /\ heap[a].worker \in SigWorkers /\ heap[a].replies \in Seq(Conns)
           /\ \A w \in SigWorkers : pcSig[w] \in PcSigType
           /\ \A a \in Addrs : heap[a] # null =>
                 (Closing(a) <=> /\ pcSig[heap[a].worker].at = "remove"
                                 /\ pcSig[heap[a].worker].conn = a)
<1>1. \A a \in Addrs : heap[a] # null => heap[a] \in TcpConnectionType
  BY DEF ConnTypes
<1>2. \A w \in SigWorkers : pcSig[w] \in PcSigType
  BY DEF ConnTypes
<1>4. \A a \in Addrs : heap[a] # null =>
         /\ heap[a].client \in Conns /\ heap[a].fd \in Fds
         /\ heap[a].worker \in SigWorkers /\ heap[a].replies \in Seq(Conns)
  BY <1>1 DEF TcpConnectionType
<1>3. \A a \in Addrs : heap[a] # null =>
         (Closing(a) <=> /\ pcSig[heap[a].worker].at = "remove"
                         /\ pcSig[heap[a].worker].conn = a)
  BY <1>2, <1>4 DEF Closing, PcSigType
<1> QED BY <1>1, <1>2, <1>3, <1>4 DEF ConnTypes

(* accept_new_conn gives an fd that nobody holds and nobody waits for.     *)
LEMMA AcceptNewConnStep ==
    ASSUME CInv, NEW c \in Conns, NEW fd \in Fds, AcceptNewConn(c, fd)
    PROVE  CInv'
<1> USE Typed DEF CInv, ConnInv
<1>1. /\ owner' = [owner EXCEPT ![fd] = c]
      /\ request' = [request EXCEPT ![c] = "none"]
      /\ qConn' = [qConn EXCEPT ![nextWorker] = Append(@, fd)]
      /\ conns' = conns /\ heap' = heap /\ seat' = seat /\ pcSig' = pcSig /\ got' = got
      /\ size' = size /\ strays' = strays
      /\ owner[fd] = null /\ request[c] = "out"
  BY DEF AcceptNewConn, objVars, placeVars
<1>2. ConnTypes'
  <2>1. NextIndex(nextWorker) \in SigWorkers
    BY SigWorkerNumAssumption DEF ConnTypes, NextIndex, SigWorkers
  <2> QED BY <1>1, <2>1 DEF ConnTypes, AcceptNewConn
<1>3. \A a \in Addrs : Holds(a) => heap[a].fd # fd
  BY <1>1 DEF FdBelongsToClient, Holds
<1>4. /\ \A v \in SigWorkers : \A i \in 1 .. Len(qConn[v]) : qConn[v][i] # fd
      /\ \A f \in Fds : owner[f] # c
      /\ seat[c] = null
  BY <1>1 DEF Waiting, Clients
<1>5. /\ nextWorker \in SigWorkers
      /\ \A v \in SigWorkers : v # nextWorker => qConn'[v] = qConn[v]
      /\ Len(qConn'[nextWorker]) = Len(qConn[nextWorker]) + 1
      /\ \A i \in 1 .. Len(qConn[nextWorker]) : qConn'[nextWorker][i] = qConn[nextWorker][i]
      /\ qConn'[nextWorker][Len(qConn[nextWorker]) + 1] = fd
  BY <1>1 DEF ConnTypes
<1>6. Slots' /\ Threads' /\ Answers'
  BY <1>1 DEF Slots, Threads, Answers, Inside
<1>7. Waiting'
  <2>1. \A v \in SigWorkers : \A i \in 1 .. Len(qConn'[v]) :
           \/ i \in 1 .. Len(qConn[v]) /\ qConn'[v][i] = qConn[v][i] /\ qConn[v][i] # fd
           \/ v = nextWorker /\ i = Len(qConn[v]) + 1 /\ qConn'[v][i] = fd
    <3> TAKE v \in SigWorkers
    <3>1. Len(qConn[v]) \in Nat
      OBVIOUS
    <3> QED BY <1>4, <1>5, <3>1
  <2>2. \A v \in SigWorkers : \A i \in 1 .. Len(qConn[v]) : qConn[v][i] \in Fds
    OBVIOUS
  <2>3. ASSUME NEW v \in SigWorkers, NEW i \in 1 .. Len(qConn'[v])
        PROVE  owner'[qConn'[v][i]] # null /\ seat'[owner'[qConn'[v][i]]] = null
    <3>1. CASE i \in 1 .. Len(qConn[v]) /\ qConn'[v][i] = qConn[v][i] /\ qConn[v][i] # fd
      <4>1. qConn[v][i] \in Fds /\ owner'[qConn[v][i]] = owner[qConn[v][i]]
        BY <1>1, <2>2, <3>1 DEF ConnTypes
      <4> QED BY <1>1, <3>1, <4>1 DEF Waiting
    <3>2. CASE qConn'[v][i] = fd
      <4>1. owner'[fd] = c
        BY <1>1 DEF ConnTypes
      <4> QED BY <1>1, <1>4, <3>2, <4>1
    <3> QED BY <2>1, <3>1, <3>2
  <2>4. ASSUME NEW v \in SigWorkers, NEW i \in 1 .. Len(qConn'[v]),
               NEW u \in SigWorkers, NEW j \in 1 .. Len(qConn'[u]), qConn'[u][j] = qConn'[v][i]
        PROVE  u = v /\ j = i
    <3>1. CASE i \in 1 .. Len(qConn[v]) /\ j \in 1 .. Len(qConn[u])
      <4>1. qConn[u][j] = qConn[v][i]
        BY <1>5, <2>4, <3>1
      <4> QED BY <3>1, <4>1 DEF Waiting
    <3>2. CASE i \notin 1 .. Len(qConn[v]) \/ j \notin 1 .. Len(qConn[u])
      <4>1. qConn'[v][i] = fd \/ qConn'[u][j] = fd
        BY <2>1, <3>2
      <4>2. v = nextWorker /\ i = Len(qConn[v]) + 1 /\ u = nextWorker /\ j = Len(qConn[u]) + 1
        BY <2>1, <2>4, <4>1
      <4> QED BY <4>2
    <3> QED BY <3>1, <3>2
  <2> QED BY <2>3, <2>4 DEF Waiting
<1>8. Clients'
  BY <1>1, <1>4 DEF Clients, ConnTypes
<1>9. FdBelongsToClient'
  <2>1. \A a \in Addrs : Holds(a)' <=> Holds(a)
    BY <1>1 DEF Holds, Closing
  <2>2. ASSUME NEW a \in Addrs, Holds(a)
        PROVE  /\ owner'[heap[a].fd] = heap[a].client
               /\ \A v \in SigWorkers : \A i \in 1 .. Len(qConn'[v]) :
                     qConn'[v][i] # heap[a].fd
    <3>1. heap[a].fd \in Fds /\ heap[a].fd # fd
      BY <1>3, <2>2 DEF Holds
    <3>2. \A v \in SigWorkers : \A i \in 1 .. Len(qConn'[v]) :
             (i \in 1 .. Len(qConn[v]) /\ qConn'[v][i] = qConn[v][i]) \/ qConn'[v][i] = fd
      <4> TAKE v \in SigWorkers
      <4>1. Len(qConn[v]) \in Nat
        OBVIOUS
      <4> QED BY <1>5, <4>1
    <3> QED BY <1>1, <2>2, <3>1, <3>2 DEF FdBelongsToClient, ConnTypes
  <2> QED BY <1>1, <2>1, <2>2 DEF FdBelongsToClient
<1> QED BY <1>2, <1>6, <1>7, <1>8, <1>9

(* Taking the head off a queue shifts the rest.                            *)
LEMMA TailOf ==
    ASSUME NEW S, NEW q \in Seq(S), q # <<>>
    PROVE  /\ Len(q) \in Nat /\ Len(q) > 0 /\ 1 \in 1 .. Len(q)
           /\ Head(q) = q[1] /\ Head(q) \in S
           /\ Tail(q) \in Seq(S) /\ Len(Tail(q)) = Len(q) - 1
           /\ \A i \in 1 .. Len(Tail(q)) :
                 i + 1 \in 1 .. Len(q) /\ i + 1 # 1 /\ Tail(q)[i] = q[i + 1]
<1>1. Len(q) \in Nat /\ Len(q) > 0
  BY EmptySeq
<1>2. /\ Head(q) \in S /\ Tail(q) \in Seq(S) /\ Len(Tail(q)) = Len(q) - 1
      /\ \A i \in 1 .. Len(Tail(q)) : Tail(q)[i] = q[i + 1]
  BY HeadTailProperties
<1> QED BY <1>1, <1>2

LEMMA AppendTo ==
    ASSUME NEW S, NEW q \in Seq(S), NEW x \in S
    PROVE  /\ Len(q) \in Nat
           /\ Append(q, x) \in Seq(S) /\ Append(q, x) # <<>>
           /\ Len(Append(q, x)) = Len(q) + 1
           /\ Append(q, x)[Len(q) + 1] = x
           /\ \A i \in 1 .. Len(q) : Append(q, x)[i] = q[i]
           /\ \A i \in 1 .. Len(Append(q, x)) :
                 i \in 1 .. Len(q) \/ (i = Len(q) + 1 /\ Append(q, x)[i] = x)
<1>1. Len(q) \in Nat /\ Len(Append(q, x)) = Len(q) + 1 /\ Append(q, x) \in Seq(S)
  OBVIOUS
<1>2. Append(q, x)[Len(q) + 1] = x /\ \A i \in 1 .. Len(q) : Append(q, x)[i] = q[i]
  OBVIOUS
<1>3. Append(q, x) # <<>>
  OBVIOUS
<1> QED BY <1>1, <1>2, <1>3

(* A client that is still waiting in q_conn_ appears nowhere else.         *)
LEMMA Unseated ==
    ASSUME CInv, NEW c \in Conns, seat[c] = null
    PROVE  /\ \A a \in Addrs : heap[a] # null =>
                 /\ heap[a].client # c
                 /\ \A i \in 1 .. Len(heap[a].replies) : heap[a].replies[i] # c
           /\ \A d \in Conns : \A i \in 1 .. Len(got[d]) : d # c /\ got[d][i] # c
<1> USE Typed DEF CInv, ConnInv
<1>1. ASSUME NEW a \in Addrs, heap[a] # null PROVE seat[heap[a].client] # null
  <2>1. seat[heap[a].client] = Seat(heap[a].worker, heap[a].fd, a)
    BY <1>1 DEF Slots
  <2>2. Seat(heap[a].worker, heap[a].fd, a) \in SeatType
    BY <1>1 DEF Seat, SeatType
  <2> QED BY <2>1, <2>2
<1>2. \A d \in Conns : \A i \in 1 .. Len(got[d]) : d # c /\ got[d][i] # c
  BY DEF Answers
<1> QED BY <1>1, <1>2 DEF Answers

(* What _handle_new_conn does to the slots and the size of its worker: the *)
(* slot of the new connection holds it or nothing, every other slot keeps  *)
(* what it held or, past the old end, loses it.                            *)
LEMMA HandleNewConnTable ==
    ASSUME CInv, NEW w \in SigWorkers, NEW a \in Addrs, HandleNewConn(w, a), qConn[w] # <<>>,
           NEW fd, fd = Head(qConn[w])
    PROVE  /\ fd \in Fds /\ fd \in Nat \ {0} /\ size[w] \in Nat
           /\ conns' \in [SigWorkers -> [Fds -> Addrs \cup {null}]]
           /\ size' \in [SigWorkers -> Nat]
           /\ \A v \in SigWorkers : v # w => conns'[v] = conns[v] /\ size'[v] = size[v]
           /\ conns'[w][fd] \in {a, null}
           /\ fd # size[w] => conns'[w][fd] = a /\ fd < size'[w]
           /\ size[w] <= size'[w]
           /\ \A f \in Fds : f # fd => conns'[w][f] \in {conns[w][f], null}
           /\ \A f \in Fds : f # fd /\ f < size[w] => conns'[w][f] = conns[w][f]
           /\ strays' \subseteq Conns /\ strays \subseteq strays'
           /\ fd = size[w] => owner[fd] \in strays'
<1> USE Typed DEF CInv, ConnInv
<1>1. /\ qConn[w] \in Seq(Fds) /\ 1 \in 1 .. Len(qConn[w]) /\ fd = qConn[w][1] /\ fd \in Fds
  BY TailOf
<1>2. owner[fd] \in Conns /\ fd \in Nat \ {0} /\ size[w] \in Nat /\ Fds \subseteq Nat
  BY <1>1, FdsAssumption DEF Waiting, ConnTypes
<1>3. PICK x \in Stored(w, fd, a) :
         conns' = [conns EXCEPT ![w] = [Resized(w, fd) EXCEPT ![fd] = x]]
  BY DEF HandleNewConn
<1>4. /\ size' = [size EXCEPT ![w] = IF Grows(w, fd) THEN 2 * fd ELSE size[w]]
      /\ strays' = IF PastEnd(w, fd) THEN strays \cup {owner[fd]} ELSE strays
  BY DEF HandleNewConn
<1>5. x \in {a, null} /\ (fd # size[w] => x = a)
  BY <1>3 DEF Stored, PastEnd
<1> DEFINE R == Resized(w, fd)
           N == [R EXCEPT ![fd] = x]
<1>6. /\ R \in [Fds -> Addrs \cup {null}]
      /\ \A f \in Fds : R[f] \in {conns[w][f], null}
      /\ \A f \in Fds : f < size[w] => R[f] = conns[w][f]
  BY <1>2 DEF Resized
<1> HIDE DEF R
<1>7. /\ N \in [Fds -> Addrs \cup {null}] /\ N[fd] = x
      /\ \A f \in Fds : f # fd => N[f] = R[f]
  BY <1>1, <1>5, <1>6
<1> HIDE DEF N
<1>8. /\ conns' \in [SigWorkers -> [Fds -> Addrs \cup {null}]] /\ conns'[w] = N
      /\ \A v \in SigWorkers : v # w => conns'[v] = conns[v]
  <2>1. conns' = [conns EXCEPT ![w] = N]
    BY <1>3 DEF N, R
  <2> QED BY <1>7, <2>1 DEF ConnTypes
<1>9. /\ size' \in [SigWorkers -> Nat]
      /\ \A v \in SigWorkers : v # w => size'[v] = size[v]
      /\ size[w] <= size'[w] /\ (fd # size[w] => fd < size'[w])
  <2> DEFINE z == IF fd > size[w] THEN 2 * fd ELSE size[w]
  <2>1. z \in Nat /\ size[w] <= z /\ (fd # size[w] => fd < z)
    BY <1>2
  <2>2. size' = [size EXCEPT ![w] = z]
    BY <1>4 DEF Grows
  <2> HIDE DEF z
  <2> QED BY <2>1, <2>2 DEF ConnTypes
<1>10. /\ strays' \subseteq Conns /\ strays \subseteq strays'
       /\ fd = size[w] => owner[fd] \in strays'
  BY <1>2, <1>4 DEF PastEnd, ConnTypes
<1> QED BY <1>1, <1>2, <1>5, <1>6, <1>7, <1>8, <1>9, <1>10

(* Nothing happens to the connections.                                     *)
LEMMA ConnsAlone ==
    ASSUME CInv, owner' = owner, request' = request, got' = got, nextWorker' = nextWorker,
           qConn' = qConn, conns' = conns, heap' = heap, seat' = seat, pcSig' = pcSig,
           size' = size, strays' = strays, pcAcc' \in {pcAcc, null}
    PROVE  CInv'
<1>1. ConnTypes'
  BY DEF CInv, ConnTypes
<1>2. Slots'
  BY DEF CInv, ConnInv, Slots, Inside
<1>3. Threads' /\ Waiting' /\ Clients' /\ Answers'
  BY DEF CInv, ConnInv, Threads, Waiting, Clients, Answers
<1>4. FdBelongsToClient'
  BY DEF CInv, ConnInv, FdBelongsToClient, Holds, Closing
<1> QED BY <1>1, <1>2, <1>3, <1>4 DEF CInv, ConnInv

(* _handle_new_conn: the worker takes an fd nobody holds and makes a       *)
(* TcpConnection for the client behind it.                                 *)
LEMMA HandleNewConnStep ==
    ASSUME CInv, NEW w \in SigWorkers, NEW a \in Addrs, HandleNewConn(w, a)
    PROVE  CInv'
<1> USE Typed DEF CInv, ConnInv
<1>0. /\ owner' = owner /\ request' = request /\ got' = got
      /\ pcSig' = pcSig /\ nextWorker' = nextWorker /\ pcAcc' = pcAcc /\ pcSig[w] = Idle
  BY DEF HandleNewConn, clientVars
<1>1. CASE qConn[w] = <<>>
  <2>1. /\ qConn' = qConn /\ conns' = conns /\ heap' = heap /\ seat' = seat
        /\ size' = size /\ strays' = strays
    BY <1>1 DEF HandleNewConn, objVars, placeVars
  <2> QED BY <1>0, <2>1, ConnsAlone
<1>2. CASE qConn[w] # <<>>
  <2> DEFINE fd == Head(qConn[w])
             c == owner[fd]
             n == TcpConnection(c, w, fd)
  <2>1. /\ heap[a] = null
        /\ qConn' = [qConn EXCEPT ![w] = Tail(@)]
        /\ heap' = [heap EXCEPT ![a] = n]
        /\ seat' = [seat EXCEPT ![c] = Seat(w, fd, a)]
    BY <1>2 DEF HandleNewConn
  <2>2. /\ qConn[w] \in Seq(Fds) /\ 1 \in 1 .. Len(qConn[w]) /\ fd = qConn[w][1] /\ fd \in Fds
        /\ Tail(qConn[w]) \in Seq(Fds)
        /\ \A i \in 1 .. Len(Tail(qConn[w])) :
              i + 1 \in 1 .. Len(qConn[w]) /\ i + 1 # 1 /\ Tail(qConn[w])[i] = qConn[w][i + 1]
    BY <1>2, TailOf
  <2>3. /\ fd \in Nat /\ size[w] \in Nat
        /\ conns' \in [SigWorkers -> [Fds -> Addrs \cup {null}]]
        /\ size' \in [SigWorkers -> Nat]
        /\ \A v \in SigWorkers : v # w => conns'[v] = conns[v] /\ size'[v] = size[v]
        /\ conns'[w][fd] \in {a, null}
        /\ fd # size[w] => conns'[w][fd] = a /\ fd < size'[w]
        /\ size[w] <= size'[w]
        /\ \A f \in Fds : f # fd => conns'[w][f] \in {conns[w][f], null}
        /\ \A f \in Fds : f # fd /\ f < size[w] => conns'[w][f] = conns[w][f]
        /\ strays' \subseteq Conns /\ strays \subseteq strays'
        /\ fd = size[w] => c \in strays'
    BY <1>2, HandleNewConnTable
  <2> HIDE DEF fd
  <2>4. c \in Conns /\ seat[c] = null /\ a # null
    BY <2>2 DEF Waiting
  <2> HIDE DEF c
  <2>5. /\ n \in TcpConnectionType /\ n # null
        /\ n.client = c /\ n.worker = w /\ n.fd = fd /\ n.replies = <<>>
    <3>1. <<>> \in Seq(Conns) /\ fd \in Fds /\ c \in Conns
      BY <2>2, <2>4
    <3>2. n = [client |-> c, worker |-> w, fd |-> fd, state |-> "head", replies |-> <<>>]
      BY DEF TcpConnection
    <3>3. n \in TcpConnectionType
      BY <3>1, <3>2 DEF TcpConnectionType
    <3> QED BY <3>2, <3>3
  <2>6. Seat(w, fd, a) \in SeatType /\ Seat(w, fd, a) # null
    BY <2>2 DEF Seat, SeatType
  <2> HIDE DEF n
  <2>7. \A b \in Addrs : Holds(b) => heap[b].fd # fd
    BY <2>2 DEF FdBelongsToClient
  <2>8. ConnTypes'
    BY <1>0, <2>1, <2>2, <2>3, <2>4, <2>5, <2>6 DEF ConnTypes
  <2>9. /\ heap'[a] = n /\ \A b \in Addrs : b # a => heap'[b] = heap[b]
        /\ seat'[c] = Seat(w, fd, a) /\ \A d \in Conns : d # c => seat'[d] = seat[d]
        /\ qConn'[w] = Tail(qConn[w]) /\ \A v \in SigWorkers : v # w => qConn'[v] = qConn[v]
    BY <2>1, <2>2, <2>4 DEF ConnTypes
  <2>10. \A b \in Addrs : heap[b] # null =>
            /\ b # a /\ heap[b].client # c /\ heap[b].client \in Conns
            /\ \A i \in 1 .. Len(heap[b].replies) :
                  heap[b].replies[i] # c /\ heap[b].replies[i] \in Conns
    BY <2>1, <2>4, Unseated
  <2>a. \A b \in Addrs : heap[b] # null /\ heap[b].worker = w => heap[b].fd # fd
    <3>1. pcSig[w].at = "idle"
      BY <1>0 DEF Idle
    <3> QED BY <2>7, <3>1 DEF Holds
  <2>11. Slots'
    <3>1. ASSUME NEW v \in SigWorkers, NEW f \in Fds, conns'[v][f] # null
          PROVE  /\ heap'[conns'[v][f]] # null
                 /\ heap'[conns'[v][f]].worker = v
                 /\ heap'[conns'[v][f]].fd = f
      <4>1. CASE v = w /\ f = fd
        BY <2>3, <2>5, <2>9, <3>1, <4>1
      <4>2. CASE v # w \/ f # fd
        <5>1. conns'[v][f] = conns[v][f] /\ conns[v][f] # null /\ conns[v][f] \in Addrs
          BY <2>3, <3>1, <4>2
        <5> QED BY <2>9, <2>10, <5>1 DEF Slots
      <4> QED BY <4>1, <4>2
    <3>2. ASSUME NEW b \in Addrs, heap'[b] # null
          PROVE  /\ seat'[heap'[b].client] = Seat(heap'[b].worker, heap'[b].fd, b)
                 /\ heap'[b].client \notin strays' =>
                       /\ conns'[heap'[b].worker][heap'[b].fd] = b
                       /\ heap'[b].fd < size'[heap'[b].worker]
      <4>1. CASE b = a
        BY <2>3, <2>5, <2>9, <4>1
      <4>2. CASE b # a
        <5>1. /\ heap'[b] = heap[b] /\ heap[b] # null /\ heap[b].fd \in Fds /\ heap[b].fd \in Nat
              /\ heap[b].worker \in SigWorkers
          BY <2>9, <3>2, <4>2, FdsAssumption
        <5>2. seat'[heap[b].client] = Seat(heap[b].worker, heap[b].fd, b)
          BY <2>9, <2>10, <5>1 DEF Slots
        <5>3. ASSUME heap[b].client \notin strays'
              PROVE  /\ conns'[heap[b].worker][heap[b].fd] = b
                     /\ heap[b].fd < size'[heap[b].worker]
          <6>1. /\ conns[heap[b].worker][heap[b].fd] = b
                /\ heap[b].fd < size[heap[b].worker]
            BY <2>3, <5>1, <5>3 DEF Slots, Inside
          <6>2. CASE heap[b].worker # w
            BY <2>3, <5>1, <6>1, <6>2
          <6>3. CASE heap[b].worker = w
            <7>1. heap[b].fd # fd
              BY <2>a, <5>1, <6>3
            <7>2. size'[w] \in Nat
              BY <2>3
            <7> QED BY <2>3, <5>1, <6>1, <6>3, <7>1, <7>2
          <6> QED BY <6>2, <6>3
        <5> QED BY <5>1, <5>2, <5>3
      <4> QED BY <4>1, <4>2
    <3>3. ASSUME NEW b \in Addrs, NEW d \in Addrs, heap'[b] # null, heap'[d] # null,
                 heap'[b].worker = heap'[d].worker, heap'[b].fd = heap'[d].fd
          PROVE  b = d
      BY <2>5, <2>9, <2>a, <3>3 DEF Slots
    <3> QED BY <3>1, <3>2, <3>3 DEF Slots, Inside
  <2>12. Threads'
    <3>1. ASSUME NEW v \in SigWorkers, pcSig[v].at # "idle"
          PROVE  heap'[pcSig[v].conn] = heap[pcSig[v].conn]
      <4>2. pcSig[v].conn \in Addrs /\ heap[pcSig[v].conn] # null
        BY <3>1 DEF Threads
      <4> QED BY <2>9, <2>10, <4>2
    <3> QED BY <1>0, <3>1 DEF Threads
  <2>13. \A v \in SigWorkers : \A i \in 1 .. Len(qConn'[v]) :
            LET k == IF v = w THEN i + 1 ELSE i IN
            k \in 1 .. Len(qConn[v]) /\ qConn'[v][i] = qConn[v][k] /\ (v = w => k # 1)
    BY <2>2, <2>9
  <2>14. \A v \in SigWorkers : \A i \in 1 .. Len(qConn'[v]) :
            qConn'[v][i] # fd /\ qConn'[v][i] \in Fds
    BY <2>2, <2>13 DEF Waiting
  <2>15. Waiting'
    <3>3. ASSUME NEW v \in SigWorkers, NEW i \in 1 .. Len(qConn'[v])
          PROVE  owner'[qConn'[v][i]] # null /\ seat'[owner'[qConn'[v][i]]] = null
      <4>1. owner[qConn'[v][i]] # null /\ seat[owner[qConn'[v][i]]] = null
        BY <2>13 DEF Waiting
      <4>2. owner[qConn'[v][i]] # c
        BY <2>2, <2>14, <4>1 DEF Clients, c
      <4> QED BY <1>0, <2>9, <2>14, <4>1, <4>2
    <3>4. ASSUME NEW v \in SigWorkers, NEW i \in 1 .. Len(qConn'[v]),
                 NEW u \in SigWorkers, NEW j \in 1 .. Len(qConn'[u]),
                 qConn'[u][j] = qConn'[v][i]
          PROVE  u = v /\ j = i
      <4> DEFINE k == IF v = w THEN i + 1 ELSE i
                 l == IF u = w THEN j + 1 ELSE j
      <4>1. k \in 1 .. Len(qConn[v]) /\ l \in 1 .. Len(qConn[u]) /\ qConn[u][l] = qConn[v][k]
        BY <2>13, <3>4
      <4>2. u = v /\ l = k
        BY <4>1 DEF Waiting
      <4> QED BY <4>2
    <3> QED BY <3>3, <3>4 DEF Waiting
  <2>16. Clients'
    <3>1. request[c] # "out"
      BY <2>2, <2>4 DEF Clients, c
    <3> QED BY <1>0, <2>9, <3>1 DEF Clients
  <2>17. Answers'
    <3>1. ASSUME NEW b \in Addrs, heap'[b] # null, NEW i \in 1 .. Len(heap'[b].replies)
          PROVE  seat'[heap'[b].replies[i]] = seat'[heap'[b].client]
      <4>1. b # a
        BY <2>5, <2>9
      <4> QED BY <2>9, <2>10, <3>1, <4>1 DEF Answers
    <3>2. ASSUME NEW d \in Conns, NEW i \in 1 .. Len(got[d])
          PROVE  seat'[d] # null /\ seat'[got[d][i]] = seat'[d]
      <4>1. d # c /\ got[d][i] # c /\ got[d][i] \in Conns
        BY <2>4, Unseated DEF ConnTypes
      <4> QED BY <2>9, <4>1 DEF Answers
    <3> QED BY <1>0, <3>1, <3>2 DEF Answers
  <2>18. FdBelongsToClient'
    <3>1. \A b \in Addrs : Holds(b)' => (b = a \/ (Holds(b) /\ heap'[b] = heap[b]))
      <4> TAKE b \in Addrs
      <4>1. ASSUME b # a, Holds(b)' PROVE Holds(b) /\ heap'[b] = heap[b]
        BY <1>0, <2>9, <4>1 DEF Holds, Closing
      <4> QED BY <4>1
    <3>2. \A v \in SigWorkers : \A i \in 1 .. Len(qConn'[v]) :
             /\ qConn'[v][i] # fd
             /\ \E k \in 1 .. Len(qConn[v]) : qConn'[v][i] = qConn[v][k]
      BY <2>13, <2>14
    <3>4. ASSUME NEW b \in Addrs, Holds(b)'
          PROVE  /\ owner'[heap'[b].fd] = heap'[b].client
                 /\ \A d \in Addrs : Holds(d)' /\ heap'[d].fd = heap'[b].fd => d = b
                 /\ \A u \in SigWorkers : \A i \in 1 .. Len(qConn'[u]) :
                       qConn'[u][i] # heap'[b].fd
      <4>1. CASE b = a
        <5>1. heap'[b].fd = fd /\ owner'[fd] = heap'[b].client
          BY <1>0, <2>5, <2>9, <4>1 DEF c
        <5>2. \A d \in Addrs : Holds(d)' /\ heap'[d].fd = fd => d = b
          BY <2>7, <3>1, <4>1
        <5> QED BY <3>2, <5>1, <5>2
      <4>2. CASE b # a
        <5>1. Holds(b) /\ heap'[b] = heap[b]
          BY <3>1, <3>4, <4>2
        <5>2. /\ owner[heap[b].fd] = heap[b].client
              /\ \A d \in Addrs : Holds(d) /\ heap[d].fd = heap[b].fd => d = b
              /\ \A u \in SigWorkers : \A i \in 1 .. Len(qConn[u]) : qConn[u][i] # heap[b].fd
          BY <5>1 DEF FdBelongsToClient
        <5>3. heap'[a].fd = fd /\ heap[b].fd # fd
          BY <2>5, <2>7, <2>9, <5>1
        <5>4. \A d \in Addrs : Holds(d)' /\ heap'[d].fd = heap'[b].fd => d = b
          BY <3>1, <5>1, <5>2, <5>3
        <5> QED BY <1>0, <3>2, <5>1, <5>2, <5>4
      <4> QED BY <4>1, <4>2
    <3> QED BY <3>4 DEF FdBelongsToClient
  <2> QED BY <2>8, <2>11, <2>12, <2>15, <2>16, <2>17, <2>18
<1> QED BY <1>1, <1>2

(* A step that leaves every connection in its place: it may add and take   *)
(* replies, and change what is not part of the tables.                     *)
SameTables ==
    /\ conns' = conns /\ size' = size /\ strays' = strays
    /\ seat' = seat /\ qConn' = qConn
    /\ nextWorker' = nextWorker /\ pcAcc' = pcAcc
    /\ request' \in [Conns -> Cmds \cup {"out", "none", "unknown"}]
    /\ \A c \in Conns : request'[c] = "out" => request[c] = "out"
    /\ \A f \in Fds : owner[f] # null => request'[owner[f]] # "out"
    /\ heap' \in [Addrs -> TcpConnectionType \cup {null}]
    /\ \A b \in Addrs : heap[b] = null <=> heap'[b] = null
    /\ \A b \in Addrs : heap[b] # null =>
          /\ heap'[b].client = heap[b].client
          /\ heap'[b].worker = heap[b].worker /\ heap'[b].fd = heap[b].fd
          /\ \A i \in 1 .. Len(heap'[b].replies) :
                seat[heap'[b].replies[i]] = seat[heap[b].client]
    /\ got' \in [Conns -> Seq(Conns)]
    /\ \A c \in Conns : \A i \in 1 .. Len(got'[c]) :
          seat[c] # null /\ seat[got'[c][i]] = seat[c]

LEMMA SameTablesStep ==
    ASSUME CInv, SameTables, owner' \in [Fds -> Conns \cup {null}],
           \A f \in Fds : owner'[f] = owner[f] \/ owner'[f] = null
    PROVE  Slots' /\ Clients' /\ Answers'
<1> USE Typed DEF CInv, ConnInv
<1>1. Slots'
  <2>1. ASSUME NEW v \in SigWorkers, NEW f \in Fds, conns'[v][f] # null
        PROVE  /\ heap'[conns'[v][f]] # null
               /\ heap'[conns'[v][f]].worker = v
               /\ heap'[conns'[v][f]].fd = f
    <3>1. conns'[v][f] = conns[v][f] /\ conns[v][f] \in Addrs
      BY <2>1 DEF SameTables
    <3> QED BY <2>1, <3>1 DEF Slots, SameTables
  <2>2. ASSUME NEW b \in Addrs, heap'[b] # null
        PROVE  /\ seat'[heap'[b].client] = Seat(heap'[b].worker, heap'[b].fd, b)
               /\ heap'[b].client \notin strays' =>
                     /\ conns'[heap'[b].worker][heap'[b].fd] = b
                     /\ heap'[b].fd < size'[heap'[b].worker]
    BY <2>2 DEF Slots, SameTables, Inside
  <2>3. ASSUME NEW b \in Addrs, NEW d \in Addrs, heap'[b] # null, heap'[d] # null,
               heap'[b].worker = heap'[d].worker, heap'[b].fd = heap'[d].fd
        PROVE  b = d
    BY <2>3 DEF Slots, SameTables
  <2> QED BY <2>1, <2>2, <2>3 DEF Slots, Inside
<1>2. Clients'
  BY DEF Clients, SameTables, ConnTypes
<1>3. Answers'
  BY DEF Answers, SameTables
<1> QED BY <1>1, <1>2, <1>3

LEMMA SameFdsStep ==
    ASSUME CInv, SameTables, owner' = owner, pcSig' \in [SigWorkers -> PcSigType], Threads',
           \A w \in SigWorkers : pcSig[w].at = "remove" \/ pcSig'[w].at = "remove" =>
                                    pcSig'[w] = pcSig[w]
    PROVE  CInv'
<1> USE Typed DEF CInv, ConnInv
<1>1. Slots' /\ Clients' /\ Answers'
  <2>1. owner' \in [Fds -> Conns \cup {null}] /\ \A f \in Fds : owner'[f] = owner[f]
    BY DEF ConnTypes
  <2> QED BY <2>1, SameTablesStep
<1>2. ConnTypes'
  BY DEF ConnTypes, SameTables
<1>3. Waiting'
  BY DEF Waiting, SameTables
<1>4. \A b \in Addrs : Holds(b)' <=> Holds(b)
  <2> TAKE b \in Addrs
  <2>1. CASE heap[b] = null
    BY <2>1 DEF Holds, SameTables
  <2>2. CASE heap[b] # null
    <3>1. heap'[b] # null /\ heap'[b].worker = heap[b].worker /\ heap[b].worker \in SigWorkers
      BY <2>2 DEF SameTables
    <3>2. Closing(b)' <=> pcSig'[heap[b].worker].at = "remove" /\ pcSig'[heap[b].worker].conn = b
      BY <3>1 DEF Closing, PcSigType
    <3> QED BY <2>2, <3>1, <3>2 DEF Holds
  <2> QED BY <2>1, <2>2
<1>5. \A b \in Addrs : Holds(b) =>
         heap'[b].fd = heap[b].fd /\ heap'[b].client = heap[b].client
  BY DEF Holds, SameTables
<1>6. FdBelongsToClient'
  BY <1>4, <1>5 DEF FdBelongsToClient, SameTables
<1> QED BY <1>1, <1>2, <1>3, <1>6

(* _close_connection up to close(fd): the worker that holds the fd gives   *)
(* it away and is about to remove the connection.                          *)
LEMMA CloseFdStep ==
    ASSUME CInv, SameTables, NEW w \in SigWorkers, NEW a \in Addrs, CloseFd(w, a),
           heap[a] # null, heap[a].worker = w, pcSig[w].at # "remove",
           \A v \in SigWorkers : pcSig[v].at = "write" /\ v # w =>
              heap'[pcSig[v].conn].replies # <<>>
    PROVE  CInv'
<1> USE Typed DEF CInv, ConnInv
<1> DEFINE fd == heap[a].fd
<1>1. /\ fd \in Fds /\ a # null
      /\ owner' = [owner EXCEPT ![fd] = null]
      /\ pcSig' = [pcSig EXCEPT ![w] = [at |-> "remove", conn |-> a]]
  BY DEF CloseFd
<1>2. /\ owner'[fd] = null /\ \A f \in Fds : f # fd => owner'[f] = owner[f]
      /\ pcSig'[w].at = "remove" /\ pcSig'[w].conn = a
      /\ \A v \in SigWorkers : v # w => pcSig'[v] = pcSig[v]
  BY <1>1 DEF ConnTypes
<1>3. pcSig' \in [SigWorkers -> PcSigType] /\ owner' \in [Fds -> Conns \cup {null}]
  <2>1. [at |-> "remove", conn |-> a] \in PcSigType
    BY DEF PcSigType
  <2> QED BY <1>1, <2>1 DEF ConnTypes
<1> HIDE DEF fd
<1>4. Slots' /\ Clients' /\ Answers'
  BY <1>2, <1>3, SameTablesStep
<1>5. ConnTypes'
  BY <1>3 DEF ConnTypes, SameTables
<1>6. Holds(a)
  BY DEF Holds
<1>7. /\ \A b \in Addrs : b # a /\ Holds(b) => heap[b].fd # fd
      /\ \A v \in SigWorkers : \A i \in 1 .. Len(qConn[v]) : qConn[v][i] # fd
  BY <1>1, <1>6 DEF FdBelongsToClient, fd
<1>8. Waiting'
  <2>1. qConn' = qConn /\ seat' = seat
    BY DEF SameTables
  <2>2. \A v \in SigWorkers : \A i \in 1 .. Len(qConn[v]) : qConn[v][i] \in Fds
    OBVIOUS
  <2>3. \A v \in SigWorkers : \A i \in 1 .. Len(qConn[v]) : owner'[qConn[v][i]] = owner[qConn[v][i]]
    BY <1>2, <1>7, <2>2
  <2> QED BY <2>1, <2>3 DEF Waiting
<1>9. Threads'
  <2>1. ASSUME NEW v \in SigWorkers
        PROVE  /\ pcSig'[v].at = "idle" => pcSig'[v] = Idle
               /\ pcSig'[v].at # "idle" =>
                     /\ pcSig'[v].conn \in Addrs
                     /\ heap'[pcSig'[v].conn] # null
                     /\ heap'[pcSig'[v].conn].worker = v
               /\ pcSig'[v].at = "write" => heap'[pcSig'[v].conn].replies # <<>>
    <3>1. CASE v = w
      BY <1>2, <3>1 DEF SameTables
    <3>2. CASE v # w
      BY <1>2, <3>2 DEF SameTables, Threads
    <3> QED BY <3>1, <3>2
  <2> QED BY <2>1 DEF Threads
<1>10. \A b \in Addrs : Holds(b)' =>
          /\ b # a /\ Holds(b)
          /\ heap'[b].fd = heap[b].fd /\ heap'[b].client = heap[b].client
  <2> SUFFICES ASSUME NEW b \in Addrs, Holds(b)'
               PROVE  /\ b # a /\ Holds(b)
                      /\ heap'[b].fd = heap[b].fd /\ heap'[b].client = heap[b].client
    OBVIOUS
  <2>1. /\ heap[b] # null /\ heap'[b].worker = heap[b].worker /\ heap[b].worker \in SigWorkers
        /\ heap'[b].fd = heap[b].fd /\ heap'[b].client = heap[b].client
    BY DEF Holds, SameTables
  <2>2. Closing(b)' <=> pcSig'[heap[b].worker].at = "remove" /\ pcSig'[heap[b].worker].conn = b
    BY <1>3, <2>1 DEF Closing, PcSigType
  <2> QED BY <1>2, <2>1, <2>2 DEF Holds
<1>11. ASSUME NEW b \in Addrs, Holds(b)'
       PROVE  heap'[b].fd # fd /\ owner'[heap'[b].fd] = heap'[b].client
  <2>1. Holds(b) /\ heap[b].fd # fd /\ heap[b].fd \in Fds
    BY <1>7, <1>10, <1>11 DEF Holds
  <2> QED BY <1>2, <1>10, <1>11, <2>1 DEF FdBelongsToClient
<1>12. FdBelongsToClient'
  BY <1>10, <1>11 DEF FdBelongsToClient, SameTables
<1> QED BY <1>4, <1>5, <1>8, <1>9, <1>12

(* _add_reply adds a reply for d to the TcpConnection at a.                *)
LEMMA ReplyAdded ==
    ASSUME CInv, NEW a \in Addrs, heap[a] # null, NEW d \in Conns,
           NEW h, h = AddReply(a, d), seat[d] = seat[heap[a].client]
    PROVE  /\ h \in [Addrs -> TcpConnectionType \cup {null}]
           /\ \A b \in Addrs : b # a => h[b] = heap[b]
           /\ h[a] # null
           /\ h[a].client = heap[a].client /\ h[a].worker = heap[a].worker /\ h[a].fd = heap[a].fd /\ h[a].state = heap[a].state
           /\ h[a].replies = Append(heap[a].replies, d)
           /\ h[a].replies # <<>>
           /\ \A i \in 1 .. Len(h[a].replies) : seat[h[a].replies[i]] = seat[heap[a].client]
<1> USE Typed DEF CInv, ConnInv
<1>1. heap[a] \in TcpConnectionType /\ heap[a].replies \in Seq(Conns)
  OBVIOUS
<1> DEFINE n == [heap[a] EXCEPT !.replies = Append(heap[a].replies, d)]
<1>2. h = [heap EXCEPT ![a] = n]
  BY <1>1 DEF AddReply, ConnTypes
<1>3. /\ n.client = heap[a].client /\ n.worker = heap[a].worker /\ n.fd = heap[a].fd /\ n.state = heap[a].state
      /\ n.replies = Append(heap[a].replies, d)
  BY <1>1 DEF TcpConnectionType
<1>4. Append(heap[a].replies, d) \in Seq(Conns) /\ Append(heap[a].replies, d) # <<>>
  BY <1>1, AppendTo
<1>5. n \in TcpConnectionType
  BY <1>1, <1>4 DEF TcpConnectionType
<1> HIDE DEF n
<1>6. n # null
  BY <1>5
<1>7. h \in [Addrs -> TcpConnectionType \cup {null}] /\ h[a] = n /\ \A b \in Addrs : b # a => h[b] = heap[b]
  BY <1>2, <1>5 DEF ConnTypes
<1>8. \A i \in 1 .. Len(Append(heap[a].replies, d)) :
         Append(heap[a].replies, d)[i] = d \/
         (i \in 1 .. Len(heap[a].replies) /\ Append(heap[a].replies, d)[i] = heap[a].replies[i])
  BY <1>1, AppendTo
<1>9. \A i \in 1 .. Len(n.replies) : seat[n.replies[i]] = seat[heap[a].client]
  BY <1>3, <1>8 DEF Answers
<1> QED BY <1>3, <1>4, <1>6, <1>7, <1>9

(* The client behind a watched fd is the one its connection was made for.  *)
LEMMA WatchedFd ==
    ASSUME CInv, NEW w \in SigWorkers, NEW fd \in Fds, Watched(w, fd)
    PROVE  /\ conns[w][fd] \in Addrs /\ heap[conns[w][fd]] # null
           /\ heap[conns[w][fd]].fd = fd /\ heap[conns[w][fd]].worker = w
           /\ owner[fd] = heap[conns[w][fd]].client /\ owner[fd] \in Conns
           /\ seat[owner[fd]] = Seat(w, fd, conns[w][fd]) /\ seat[owner[fd]] # null
           /\ pcSig[w].at = "idle" /\ pcSig[w] = Idle
<1> USE Typed DEF CInv, ConnInv
<1>1. conns[w][fd] \in Addrs /\ pcSig[w].at = "idle" /\ pcSig[w] = Idle
  BY DEF Watched, Idle
<1>2. heap[conns[w][fd]] # null /\ heap[conns[w][fd]].fd = fd /\ heap[conns[w][fd]].worker = w
      /\ seat[heap[conns[w][fd]].client] = Seat(w, fd, conns[w][fd])
  BY <1>1 DEF Slots
<1>3. owner[fd] = heap[conns[w][fd]].client
  <2>1. Holds(conns[w][fd])
    BY <1>1, <1>2 DEF Holds
  <2> QED BY <1>1, <1>2, <2>1 DEF FdBelongsToClient
<1>4. Seat(w, fd, conns[w][fd]) \in SeatType
  BY <1>1 DEF Seat, SeatType
<1> QED BY <1>1, <1>2, <1>3, <1>4

(* Nothing happens to the tables, the fds and the replies.                 *)
LEMMA Untouched ==
    ASSUME CInv, conns' = conns, size' = size, strays' = strays,
           seat' = seat, qConn' = qConn, heap' = heap,
           nextWorker' = nextWorker, pcAcc' = pcAcc, request' = request, got' = got
    PROVE  SameTables
BY DEF CInv, ConnTypes, ConnInv, Clients, Answers, SameTables

LEMMA ReadFailsStep ==
    ASSUME CInv, NEW w \in SigWorkers, NEW fd \in Fds, ReadFails(w, fd)
    PROVE  CInv'
<1>1. /\ Watched(w, fd) /\ CloseFd(w, conns[w][fd])
      /\ conns' = conns /\ size' = size /\ strays' = strays
      /\ seat' = seat /\ qConn' = qConn /\ heap' = heap
      /\ nextWorker' = nextWorker /\ pcAcc' = pcAcc /\ request' = request /\ got' = got
  BY DEF ReadFails, connVars, objVars, placeVars
<1>2. SameTables
  BY <1>1, Untouched
<1>3. \A v \in SigWorkers : pcSig[v].at = "write" => heap'[pcSig[v].conn].replies # <<>>
  BY <1>1 DEF CInv, ConnInv, Threads
<1> QED BY <1>1, <1>2, <1>3, WatchedFd, CloseFdStep

(* process_timeout closes a connection whether or not its slot holds it.   *)
LEMMA ProcessTimeoutStep ==
    ASSUME CInv, NEW w \in SigWorkers, NEW a \in Addrs, ProcessTimeout(w, a)
    PROVE  CInv'
<1>1. /\ Timed(w, a) /\ CloseFd(w, a)
      /\ conns' = conns /\ size' = size /\ strays' = strays
      /\ seat' = seat /\ qConn' = qConn /\ heap' = heap
      /\ nextWorker' = nextWorker /\ pcAcc' = pcAcc /\ request' = request /\ got' = got
  BY DEF ProcessTimeout, connVars, objVars, placeVars
<1>2. SameTables
  BY <1>1, Untouched
<1>3. \A v \in SigWorkers : pcSig[v].at = "write" => heap'[pcSig[v].conn].replies # <<>>
  BY <1>1 DEF CInv, ConnInv, Threads
<1>4. heap[a] # null /\ heap[a].worker = w /\ pcSig[w].at # "remove"
  BY <1>1 DEF Timed, Idle
<1> QED BY <1>1, <1>2, <1>3, <1>4, CloseFdStep

LEMMA WriteFailsStep ==
    ASSUME CInv, NEW w \in SigWorkers, WriteFails(w)
    PROVE  CInv'
<1>1. /\ pcSig[w].at = "write" /\ CloseFd(w, pcSig[w].conn)
      /\ conns' = conns /\ size' = size /\ strays' = strays
      /\ seat' = seat /\ qConn' = qConn /\ heap' = heap
      /\ nextWorker' = nextWorker /\ pcAcc' = pcAcc /\ request' = request /\ got' = got
  BY DEF WriteFails, connVars, objVars, placeVars
<1>2. SameTables
  BY <1>1, Untouched
<1>3. /\ pcSig[w].conn \in Addrs /\ heap[pcSig[w].conn] # null
      /\ heap[pcSig[w].conn].worker = w
      /\ \A v \in SigWorkers : pcSig[v].at = "write" => heap'[pcSig[v].conn].replies # <<>>
  BY <1>1 DEF CInv, ConnInv, Threads
<1> QED BY <1>1, <1>2, <1>3, CloseFdStep

LEMMA RejectUnknownCmdStep ==
    ASSUME CInv, NEW w \in SigWorkers, NEW fd \in Fds, RejectUnknownCmd(w, fd)
    PROVE  CInv'
<1> DEFINE a == conns[w][fd]
<1>1. /\ Watched(w, fd) /\ CloseFd(w, a) /\ heap' = AddReply(a, owner[fd])
      /\ request' = [request EXCEPT ![owner[fd]] = "unknown"]
      /\ conns' = conns /\ size' = size /\ strays' = strays
      /\ seat' = seat /\ qConn' = qConn
      /\ nextWorker' = nextWorker /\ pcAcc' = pcAcc /\ got' = got
  BY DEF RejectUnknownCmd, connVars, placeVars
<1>2. /\ a \in Addrs /\ heap[a] # null /\ heap[a].worker = w
      /\ owner[fd] = heap[a].client /\ owner[fd] \in Conns /\ pcSig[w].at = "idle"
  BY <1>1, WatchedFd
<1> HIDE DEF a
<1>3. /\ heap' \in [Addrs -> TcpConnectionType \cup {null}]
      /\ \A b \in Addrs : b # a => heap'[b] = heap[b]
      /\ heap'[a] # null
      /\ heap'[a].client = heap[a].client /\ heap'[a].worker = heap[a].worker /\ heap'[a].fd = heap[a].fd
      /\ heap'[a].replies # <<>>
      /\ \A i \in 1 .. Len(heap'[a].replies) : seat[heap'[a].replies[i]] = seat[heap[a].client]
  BY <1>1, <1>2, ReplyAdded
<1>4. SameTables
  <2>1. /\ request' \in [Conns -> Cmds \cup {"out", "none", "unknown"}]
        /\ \A c \in Conns : request'[c] = "out" => request[c] = "out"
        /\ \A f \in Fds : owner[f] # null => request'[owner[f]] # "out"
    BY <1>1, <1>2, Typed DEF CInv, ConnTypes, ConnInv, Clients
  <2>2. /\ \A b \in Addrs : heap[b] = null <=> heap'[b] = null
        /\ \A b \in Addrs : heap[b] # null =>
              /\ heap'[b].client = heap[b].client
              /\ heap'[b].worker = heap[b].worker /\ heap'[b].fd = heap[b].fd
              /\ \A i \in 1 .. Len(heap'[b].replies) :
                    seat[heap'[b].replies[i]] = seat[heap[b].client]
    BY <1>2, <1>3 DEF CInv, ConnInv, Answers
  <2>3. /\ got' \in [Conns -> Seq(Conns)]
        /\ \A c \in Conns : \A i \in 1 .. Len(got'[c]) :
              seat[c] # null /\ seat[got'[c][i]] = seat[c]
    BY <1>1 DEF CInv, ConnInv, ConnTypes, Answers
  <2> QED BY <1>1, <1>3, <2>1, <2>2, <2>3 DEF SameTables
<1>5. \A v \in SigWorkers : pcSig[v].at = "write" => heap'[pcSig[v].conn].replies # <<>>
  BY <1>3 DEF CInv, ConnInv, Threads
<1> QED BY <1>1, <1>2, <1>4, <1>5, CloseFdStep DEF a

(* _process_request: the thread goes on to notify RtcServer.               *)
LEMMA ReadRequestStep ==
    ASSUME CInv, NEW w \in SigWorkers, NEW fd \in Fds, NEW cmd \in Cmds, NEW s \in Streams,
           ReadRequest(w, fd, cmd, s)
    PROVE  CInv'
<1> DEFINE a == conns[w][fd]
<1>1. /\ Watched(w, fd) /\ owner' = owner /\ heap' = heap
      /\ request' = [request EXCEPT ![owner[fd]] = cmd]
      /\ pcSig' = [pcSig EXCEPT ![w] = [at |-> "notify", conn |-> a]]
      /\ conns' = conns /\ size' = size /\ strays' = strays
      /\ seat' = seat /\ qConn' = qConn
      /\ nextWorker' = nextWorker /\ pcAcc' = pcAcc /\ got' = got
  BY DEF ReadRequest, connVars, objVars, placeVars
<1>2. /\ a \in Addrs /\ heap[a] # null /\ heap[a].worker = w
      /\ owner[fd] \in Conns /\ pcSig[w].at = "idle"
  BY <1>1, WatchedFd
<1> HIDE DEF a
<1>3. SameTables
  <2>1. /\ request' \in [Conns -> Cmds \cup {"out", "none", "unknown"}]
        /\ \A c \in Conns : request'[c] = "out" => request[c] = "out"
        /\ \A f \in Fds : owner[f] # null => request'[owner[f]] # "out"
    BY <1>1, <1>2, Typed DEF CInv, ConnTypes, ConnInv, Clients, Cmds, AsyncCmds, StopCmds
  <2> QED BY <1>1, <2>1 DEF CInv, ConnTypes, ConnInv, Answers, SameTables
<1>4. [at |-> "notify", conn |-> a] \in PcSigType
  BY <1>2 DEF PcSigType
<1>5. /\ pcSig' \in [SigWorkers -> PcSigType]
      /\ pcSig'[w].at = "notify" /\ pcSig'[w].conn = a
      /\ \A v \in SigWorkers : v # w => pcSig'[v] = pcSig[v]
  BY <1>1, <1>4 DEF CInv, ConnTypes
<1>6. Threads'
  BY <1>1, <1>2, <1>5 DEF CInv, ConnInv, Threads
<1> QED BY <1>1, <1>2, <1>3, <1>5, <1>6, SameFdsStep

(* write_reply is entered.                                                 *)
LEMMA BeginWriteStep ==
    ASSUME CInv, NEW w \in SigWorkers, NEW fd \in Fds, BeginWrite(w, fd)
    PROVE  CInv'
<1> DEFINE a == conns[w][fd]
<1>1. /\ Watched(w, fd) /\ owner' = owner /\ heap' = heap /\ heap[a].replies # <<>>
      /\ pcSig' = [pcSig EXCEPT ![w] = [at |-> "write", conn |-> a]]
      /\ conns' = conns /\ size' = size /\ strays' = strays
      /\ seat' = seat /\ qConn' = qConn /\ request' = request
      /\ nextWorker' = nextWorker /\ pcAcc' = pcAcc /\ got' = got
  BY DEF BeginWrite, connVars, objVars, clientVars, placeVars
<1>2. /\ a \in Addrs /\ heap[a] # null /\ heap[a].worker = w /\ pcSig[w].at = "idle"
  BY <1>1, WatchedFd
<1> HIDE DEF a
<1>3. SameTables
  BY <1>1, Untouched
<1>4. [at |-> "write", conn |-> a] \in PcSigType
  BY <1>2 DEF PcSigType
<1>5. /\ pcSig' \in [SigWorkers -> PcSigType]
      /\ pcSig'[w].at = "write" /\ pcSig'[w].conn = a
      /\ \A v \in SigWorkers : v # w => pcSig'[v] = pcSig[v]
  BY <1>1, <1>4 DEF CInv, ConnTypes
<1>6. Threads'
  BY <1>1, <1>2, <1>5 DEF CInv, ConnInv, Threads
<1> QED BY <1>1, <1>2, <1>3, <1>5, <1>6, SameFdsStep

(* RtcServer::notify and the rest of read_query.                           *)
LEMMA NotifyRtcServerStep ==
    ASSUME CInv, NEW w \in SigWorkers, NotifyRtcServer(w)
    PROVE  CInv'
<1> DEFINE a == pcSig[w].conn
           c == heap[a].client
           h == IF request[c] \in StopCmds THEN AddReply(a, c) ELSE heap
           n == [h[a] EXCEPT !.state = "done"]
<1>1. /\ pcSig[w].at = "notify" /\ owner' = owner /\ heap' = Deaf(h, a)
      /\ pcSig' = [pcSig EXCEPT ![w] = Idle]
      /\ conns' = conns /\ size' = size /\ strays' = strays
      /\ seat' = seat /\ qConn' = qConn /\ request' = request
      /\ nextWorker' = nextWorker /\ pcAcc' = pcAcc /\ got' = got
  BY DEF NotifyRtcServer, connVars, clientVars, placeVars
<1>2. a \in Addrs /\ heap[a] # null /\ c \in Conns /\ heap[a] \in TcpConnectionType
  BY <1>1, Typed DEF CInv, ConnInv, Threads
<1> HIDE DEF a, c
<1>3. /\ h \in [Addrs -> TcpConnectionType \cup {null}]
      /\ \A b \in Addrs : b # a => h[b] = heap[b]
      /\ h[a] # null
      /\ h[a].client = heap[a].client /\ h[a].worker = heap[a].worker /\ h[a].fd = heap[a].fd
      /\ heap[a].replies # <<>> => h[a].replies # <<>>
      /\ \A i \in 1 .. Len(h[a].replies) : seat[h[a].replies[i]] = seat[heap[a].client]
  <2>1. CASE request[c] \in StopCmds
    BY <1>2, <2>1, ReplyAdded DEF c
  <2>2. CASE request[c] \notin StopCmds
    BY <1>2, <2>2 DEF CInv, ConnTypes, ConnInv, Answers
  <2> QED BY <2>1, <2>2
<1> HIDE DEF h
<1>4. h[a] \in TcpConnectionType
  BY <1>2, <1>3
<1>5. /\ n \in TcpConnectionType /\ n.client = h[a].client /\ n.worker = h[a].worker /\ n.fd = h[a].fd
      /\ n.replies = h[a].replies
  BY <1>4 DEF TcpConnectionType
<1>6. heap' = [h EXCEPT ![a] = n]
  BY <1>1, <1>3 DEF Deaf
<1> HIDE DEF n
<1>7. /\ heap' \in [Addrs -> TcpConnectionType \cup {null}]
      /\ \A b \in Addrs : b # a => heap'[b] = heap[b]
      /\ heap'[a] = n /\ n # null
  BY <1>2, <1>3, <1>5, <1>6
<1>8. SameTables
  <2>1. /\ \A b \in Addrs : heap[b] = null <=> heap'[b] = null
        /\ \A b \in Addrs : heap[b] # null =>
              /\ heap'[b].client = heap[b].client
              /\ heap'[b].worker = heap[b].worker /\ heap'[b].fd = heap[b].fd
              /\ \A i \in 1 .. Len(heap'[b].replies) :
                    seat[heap'[b].replies[i]] = seat[heap[b].client]
    BY <1>2, <1>3, <1>5, <1>7 DEF CInv, ConnInv, Answers
  <2> QED BY <1>1, <1>7, <2>1 DEF CInv, ConnTypes, ConnInv, Clients, Answers, SameTables
<1>9. Idle \in PcSigType /\ Idle.at = "idle"
  BY DEF Idle, PcSigType
<1>10. /\ pcSig' \in [SigWorkers -> PcSigType] /\ pcSig'[w] = Idle
       /\ \A v \in SigWorkers : v # w => pcSig'[v] = pcSig[v]
  BY <1>1, <1>9 DEF CInv, ConnTypes
<1>11. Threads'
  <2>1. ASSUME NEW v \in SigWorkers, v # w, pcSig[v].at # "idle"
        PROVE  /\ heap'[pcSig[v].conn] # null
               /\ heap'[pcSig[v].conn].worker = v
               /\ pcSig[v].at = "write" => heap'[pcSig[v].conn].replies # <<>>
    BY <1>1, <1>3, <1>5, <1>7, <2>1 DEF CInv, ConnInv, Threads
  <2> QED BY <1>9, <1>10, <2>1 DEF CInv, ConnInv, Threads
<1> QED BY <1>1, <1>8, <1>9, <1>10, <1>11, SameFdsStep

(* _response_server_offer: the reply reaches a connection at the address   *)
(* and under the fd of the one that asked.                                 *)
LEMMA ProcessRtcMsgStep ==
    ASSUME CInv, MsgTypes, Messages, NEW w \in SigWorkers, ProcessRtcMsg(w)
    PROVE  CInv'
<1>1. /\ owner' = owner /\ pcSig' = pcSig /\ pcSig[w] = Idle
      /\ conns' = conns /\ size' = size /\ strays' = strays
      /\ seat' = seat /\ qConn' = qConn /\ request' = request
      /\ nextWorker' = nextWorker /\ pcAcc' = pcAcc /\ got' = got
  BY DEF ProcessRtcMsg, connVars, clientVars, placeVars
<1>2. pcSig' \in [SigWorkers -> PcSigType]
  BY <1>1 DEF CInv, ConnTypes
<1> DEFINE m == Head(qSig[w])
<1>3. CASE heap' = heap
  <2>1. SameTables
    BY <1>1, <1>3, Untouched
  <2>2. Threads'
    BY <1>1, <1>3 DEF CInv, ConnInv, Threads
  <2> QED BY <1>1, <1>2, <2>1, <2>2, SameFdsStep
<1>4. CASE /\ qSig[w] # <<>> /\ ReplyTarget(w, m) # null
           /\ heap' = AddReply(ReplyTarget(w, m), m.from)
  <2>1. /\ qSig[w] \in Seq(RtcMsgType) /\ m = qSig[w][1] /\ 1 \in 1 .. Len(qSig[w])
        /\ m \in RtcMsgType
    BY <1>4, TailOf DEF MsgTypes
  <2>2. seat[m.from] = Seat(w, m.fd, m.conn)
    BY <2>1 DEF Messages, Told
  <2> HIDE DEF m
  <2> DEFINE a == m.conn
  <2>3. m.from \in Conns /\ m.fd \in Fds /\ a \in Addrs
    BY <2>1 DEF RtcMsgType
  <2>4. a = conns[w][m.fd] /\ heap' = AddReply(a, m.from)
    BY <1>4 DEF ReplyTarget, Inside
  <2> HIDE DEF a
  <2>5. heap[a] # null /\ seat[heap[a].client] = Seat(w, m.fd, a)
    BY <2>3, <2>4 DEF CInv, ConnInv, Slots
  <2>6. seat[m.from] = seat[heap[a].client]
    BY <2>2, <2>5 DEF a
  <2>7. /\ heap' \in [Addrs -> TcpConnectionType \cup {null}]
        /\ \A b \in Addrs : b # a => heap'[b] = heap[b]
        /\ heap'[a] # null
        /\ heap'[a].client = heap[a].client /\ heap'[a].worker = heap[a].worker /\ heap'[a].fd = heap[a].fd
        /\ heap'[a].replies # <<>>
        /\ \A i \in 1 .. Len(heap'[a].replies) : seat[heap'[a].replies[i]] = seat[heap[a].client]
    <3> DEFINE d == m.from
    <3>1. d \in Conns /\ heap' = AddReply(a, d) /\ seat[d] = seat[heap[a].client]
      BY <2>3, <2>4, <2>6
    <3> HIDE DEF d
    <3> QED BY <2>3, <2>5, <3>1, ReplyAdded DEF a
  <2>8. SameTables
    <3>1. /\ \A b \in Addrs : heap[b] = null <=> heap'[b] = null
          /\ \A b \in Addrs : heap[b] # null =>
                /\ heap'[b].client = heap[b].client
                /\ heap'[b].worker = heap[b].worker /\ heap'[b].fd = heap[b].fd
                /\ \A i \in 1 .. Len(heap'[b].replies) :
                      seat[heap'[b].replies[i]] = seat[heap[b].client]
      BY <2>5, <2>7 DEF CInv, ConnInv, Answers
    <3> QED BY <1>1, <2>7, <3>1 DEF CInv, ConnTypes, ConnInv, Clients, Answers, SameTables
  <2>9. Threads'
    BY <1>1, <2>7 DEF CInv, ConnInv, Threads
  <2> QED BY <1>1, <1>2, <2>8, <2>9, SameFdsStep
<1> QED BY <1>3, <1>4 DEF ProcessRtcMsg

(* write_reply: the client behind the fd gets what is on top.              *)
LEMMA WriteReplyStep ==
    ASSUME CInv, NEW w \in SigWorkers, WriteReply(w)
    PROVE  CInv'
<1> DEFINE a == pcSig[w].conn
           c == owner[heap[a].fd]
           q == heap[a].replies
           n == [heap[a] EXCEPT !.replies = Tail(q)]
<1>1. /\ pcSig[w].at = "write" /\ owner' = owner
      /\ got' = [got EXCEPT ![c] = Append(@, Head(q))]
      /\ heap' = [heap EXCEPT ![a].replies = Tail(@)]
      /\ pcSig' = IF Tail(q) = <<>> THEN [pcSig EXCEPT ![w] = Idle] ELSE pcSig
      /\ conns' = conns /\ size' = size /\ strays' = strays
      /\ seat' = seat /\ qConn' = qConn /\ request' = request
      /\ nextWorker' = nextWorker /\ pcAcc' = pcAcc
  BY DEF WriteReply, connVars, placeVars
<1>2. /\ a \in Addrs /\ heap[a] # null /\ heap[a] \in TcpConnectionType /\ q # <<>>
      /\ q \in Seq(Conns) /\ heap[a].fd \in Fds /\ heap[a].worker = w
      /\ heap[a].client \in Conns
  BY <1>1, Typed DEF CInv, ConnInv, Threads
<1>3. /\ Head(q) = q[1] /\ Head(q) \in Conns /\ Tail(q) \in Seq(Conns)
      /\ 1 \in 1 .. Len(q)
      /\ \A i \in 1 .. Len(Tail(q)) : i + 1 \in 1 .. Len(q) /\ Tail(q)[i] = q[i + 1]
  BY <1>2, TailOf
<1>4. c = heap[a].client
  <2>1. Holds(a)
    BY <1>1, <1>2, Typed DEF Holds, CInv
  <2> QED BY <1>2, <2>1 DEF CInv, ConnInv, FdBelongsToClient
<1>5. seat[c] # null
  <2>1. seat[c] = Seat(w, heap[a].fd, a)
    BY <1>2, <1>4 DEF CInv, ConnInv, Slots
  <2>2. Seat(w, heap[a].fd, a) \in SeatType
    BY <1>2 DEF Seat, SeatType
  <2> QED BY <2>1, <2>2
<1>6. heap' = [heap EXCEPT ![a] = n]
  BY <1>1, <1>2 DEF CInv, ConnTypes
<1>7. /\ n \in TcpConnectionType /\ n.client = heap[a].client /\ n.worker = heap[a].worker /\ n.fd = heap[a].fd
      /\ n.replies = Tail(q)
  BY <1>2, <1>3 DEF TcpConnectionType
<1>8. \A i \in 1 .. Len(q) : seat[q[i]] = seat[heap[a].client]
  BY <1>2 DEF CInv, ConnInv, Answers
<1> HIDE DEF a, c, q, n
<1>9. /\ heap' \in [Addrs -> TcpConnectionType \cup {null}]
      /\ \A b \in Addrs : b # a => heap'[b] = heap[b]
      /\ heap'[a] = n /\ n # null
  BY <1>2, <1>6, <1>7 DEF CInv, ConnTypes
<1>10. /\ got' \in [Conns -> Seq(Conns)]
       /\ \A d \in Conns : \A i \in 1 .. Len(got'[d]) :
             seat[d] # null /\ seat[got'[d][i]] = seat[d]
  <2>1. got[c] \in Seq(Conns) /\ c \in Conns
    BY <1>2, <1>4 DEF CInv, ConnTypes
  <2>2. /\ got' \in [Conns -> Seq(Conns)] /\ got'[c] = Append(got[c], Head(q))
        /\ \A d \in Conns : d # c => got'[d] = got[d]
    BY <1>1, <1>3, <2>1, AppendTo DEF CInv, ConnTypes
  <2>3. ASSUME NEW i \in 1 .. Len(got'[c])
        PROVE  seat[c] # null /\ seat[got'[c][i]] = seat[c]
    <3>1. (i \in 1 .. Len(got[c]) /\ got'[c][i] = got[c][i]) \/ got'[c][i] = Head(q)
      BY <1>3, <2>1, <2>2, AppendTo
    <3>2. seat[Head(q)] = seat[c]
      BY <1>3, <1>4, <1>8
    <3> QED BY <1>5, <2>1, <3>1, <3>2 DEF CInv, ConnInv, Answers
  <2>4. ASSUME NEW d \in Conns, d # c, NEW i \in 1 .. Len(got'[d])
        PROVE  seat[d] # null /\ seat[got'[d][i]] = seat[d]
    BY <2>2, <2>4 DEF CInv, ConnInv, Answers
  <2> QED BY <2>2, <2>3, <2>4
<1>11. SameTables
  <2>1. /\ \A b \in Addrs : heap[b] = null <=> heap'[b] = null
        /\ \A b \in Addrs : heap[b] # null =>
              /\ heap'[b].client = heap[b].client
              /\ heap'[b].worker = heap[b].worker /\ heap'[b].fd = heap[b].fd
    BY <1>2, <1>7, <1>9
  <2>2. ASSUME NEW b \in Addrs, heap[b] # null, NEW i \in 1 .. Len(heap'[b].replies)
        PROVE  seat[heap'[b].replies[i]] = seat[heap[b].client]
    <3>1. CASE b = a
      <4>1. heap'[b].replies = Tail(q)
        BY <1>7, <1>9, <3>1
      <4>2. i + 1 \in 1 .. Len(q) /\ heap'[b].replies[i] = q[i + 1]
        BY <1>3, <2>2, <4>1
      <4> QED BY <1>8, <3>1, <4>2
    <3>2. CASE b # a
      BY <1>9, <2>2, <3>2 DEF CInv, ConnInv, Answers
    <3> QED BY <3>1, <3>2
  <2> QED BY <1>1, <1>9, <1>10, <2>1, <2>2 DEF CInv, ConnTypes, ConnInv, Clients, SameTables
<1>12. Idle \in PcSigType /\ Idle.at = "idle"
  BY DEF Idle, PcSigType
<1>13. /\ pcSig' \in [SigWorkers -> PcSigType]
       /\ pcSig'[w] = IF Tail(q) = <<>> THEN Idle ELSE pcSig[w]
       /\ \A v \in SigWorkers : v # w => pcSig'[v] = pcSig[v]
  BY <1>1, <1>12 DEF CInv, ConnTypes
<1>14. \A v \in SigWorkers : v # w /\ pcSig[v].at # "idle" => pcSig[v].conn # a
  <2>1. ASSUME NEW v \in SigWorkers, v # w, pcSig[v].at # "idle", pcSig[v].conn = a
        PROVE  FALSE
    <3>1. heap[a].worker = v
      BY <2>1 DEF CInv, ConnInv, Threads
    <3> QED BY <1>2, <2>1, <3>1
  <2> QED BY <2>1
<1>15. Threads'
  <2>1. ASSUME NEW v \in SigWorkers, v # w, pcSig[v].at # "idle"
        PROVE  /\ heap'[pcSig[v].conn] # null
               /\ heap'[pcSig[v].conn].worker = v
               /\ pcSig[v].at = "write" => heap'[pcSig[v].conn].replies # <<>>
    BY <1>1, <1>9, <1>14, <2>1 DEF CInv, ConnInv, Threads
  <2>2. /\ heap'[a] # null /\ heap'[a].worker = w
        /\ Tail(q) # <<>> => heap'[a].replies # <<>>
    BY <1>1, <1>2, <1>7, <1>9
  <2>3. ASSUME NEW v \in SigWorkers
        PROVE  /\ pcSig'[v].at = "idle" => pcSig'[v] = Idle
               /\ pcSig'[v].at # "idle" =>
                     /\ pcSig'[v].conn \in Addrs
                     /\ heap'[pcSig'[v].conn] # null
                     /\ heap'[pcSig'[v].conn].worker = v
               /\ pcSig'[v].at = "write" => heap'[pcSig'[v].conn].replies # <<>>
    <3>1. CASE v = w
      BY <1>1, <1>2, <1>12, <1>13, <2>2, <3>1 DEF a
    <3>2. CASE v # w
      BY <1>13, <2>1, <3>2 DEF CInv, ConnInv, Threads
    <3> QED BY <3>1, <3>2
  <2> QED BY <2>3 DEF Threads
<1>16. \A v \in SigWorkers : pcSig[v].at = "remove" \/ pcSig'[v].at = "remove" =>
                                pcSig'[v] = pcSig[v]
  BY <1>1, <1>12, <1>13
<1> QED BY <1>1, <1>11, <1>13, <1>15, <1>16, SameFdsStep

(* _remove_connection: the slot and the object go together.                *)
LEMMA RemoveConnectionStep ==
    ASSUME CInv, NEW w \in SigWorkers, RemoveConnection(w)
    PROVE  CInv'
<1> USE Typed DEF CInv, ConnInv
<1> DEFINE a == pcSig[w].conn
           fd == heap[a].fd
<1>1. /\ pcSig[w].at = "remove"
      /\ conns' = [conns EXCEPT ![w][fd] = null]
      /\ heap' = [heap EXCEPT ![a] = null]
      /\ pcSig' = [pcSig EXCEPT ![w] = Idle]
      /\ size' = size /\ strays' = strays
      /\ seat' = seat /\ qConn' = qConn /\ request' = request /\ owner' = owner
      /\ nextWorker' = nextWorker /\ pcAcc' = pcAcc /\ got' = got
  BY DEF RemoveConnection, connVars, clientVars, placeVars
<1>2. a \in Addrs /\ heap[a] # null /\ fd \in Fds /\ heap[a].worker = w
  BY <1>1 DEF Threads
<1>3. Idle \in PcSigType /\ Idle.at = "idle"
  BY DEF Idle, PcSigType
<1>4. Closing(a) /\ pcSig[w].conn = a /\ heap[a].fd = fd
  BY <1>1, <1>2
<1> HIDE DEF fd, a
<1>5. /\ heap'[a] = null /\ \A b \in Addrs : b # a => heap'[b] = heap[b]
      /\ conns'[w][fd] = null
      /\ \A v \in SigWorkers, f \in Fds : v # w \/ f # fd => conns'[v][f] = conns[v][f]
      /\ pcSig'[w] = Idle /\ \A v \in SigWorkers : v # w => pcSig'[v] = pcSig[v]
      /\ size' = size /\ strays' = strays
  BY <1>1, <1>2 DEF ConnTypes
<1>6. ConnTypes'
  BY <1>1, <1>2, <1>3, <1>5 DEF ConnTypes
<1>7. \A v \in SigWorkers, f \in Fds : conns[v][f] = a => v = w /\ f = fd
  BY <1>2, <1>4 DEF Slots
<1>8. Slots'
  <2>1. ASSUME NEW v \in SigWorkers, NEW f \in Fds, conns'[v][f] # null
        PROVE  /\ heap'[conns'[v][f]] # null
               /\ heap'[conns'[v][f]].worker = v /\ heap'[conns'[v][f]].fd = f
    <3>1. conns'[v][f] = conns[v][f] /\ conns[v][f] \in Addrs
          /\ heap'[conns[v][f]] = heap[conns[v][f]]
      BY <1>5, <1>7, <2>1
    <3> QED BY <2>1, <3>1 DEF Slots
  <2>2. ASSUME NEW b \in Addrs, heap'[b] # null
        PROVE  /\ b # a /\ heap'[b] = heap[b] /\ heap[b] # null
               /\ heap[b].worker # w \/ heap[b].fd # fd
    <3>1. b # a /\ heap'[b] = heap[b] /\ heap[b] # null
      BY <1>5, <2>2
    <3> QED BY <1>2, <1>4, <3>1 DEF Slots
  <2>3. ASSUME NEW b \in Addrs, heap'[b] # null
        PROVE  /\ seat'[heap'[b].client] = Seat(heap'[b].worker, heap'[b].fd, b)
               /\ heap'[b].client \notin strays' =>
                     /\ conns'[heap'[b].worker][heap'[b].fd] = b
                     /\ heap'[b].fd < size'[heap'[b].worker]
    <3>1. heap[b].worker \in SigWorkers /\ heap[b].fd \in Fds
      BY <2>2, <2>3
    <3>2. conns'[heap[b].worker][heap[b].fd] = conns[heap[b].worker][heap[b].fd]
      BY <1>5, <2>2, <2>3, <3>1
    <3> QED BY <1>1, <1>5, <2>2, <2>3, <3>2 DEF Slots, Inside
  <2>4. \A b, d \in Addrs :
           /\ heap'[b] # null /\ heap'[d] # null
           /\ heap'[b].worker = heap'[d].worker /\ heap'[b].fd = heap'[d].fd
           => b = d
    BY <2>2 DEF Slots
  <2> QED BY <2>1, <2>3, <2>4 DEF Slots, Inside
<1>9. Threads'
  <2>1. ASSUME NEW v \in SigWorkers, v # w, pcSig[v].at # "idle"
        PROVE  heap'[pcSig[v].conn] = heap[pcSig[v].conn]
    <3>1. /\ pcSig[v].conn \in Addrs /\ heap[pcSig[v].conn].worker = v
      BY <2>1 DEF Threads
    <3> QED BY <1>2, <1>5, <2>1, <3>1
  <2> QED BY <1>3, <1>5, <2>1 DEF Threads
<1>10. Waiting' /\ Clients'
  BY <1>1 DEF Waiting, Clients
<1>11. Answers'
  BY <1>1, <1>5 DEF Answers
<1>12. ASSUME NEW b \in Addrs
       PROVE  /\ Holds(b)' <=> Holds(b)
              /\ Holds(b) => heap'[b] = heap[b]
  <2>1. CASE b = a
    BY <1>4, <1>5, <2>1 DEF Holds
  <2>2. CASE b # a /\ heap[b] # null
    <3>1. heap'[b] = heap[b] /\ heap[b].worker \in SigWorkers
      BY <1>5, <2>2
    <3>2. Closing(b)' <=> pcSig'[heap[b].worker].at = "remove" /\ pcSig'[heap[b].worker].conn = b
      <4>1. pcSig'[heap[b].worker] \in PcSigType
        BY <1>6, <3>1 DEF ConnTypes
      <4> QED BY <3>1, <4>1 DEF Closing, PcSigType
    <3>3. Closing(b) <=> pcSig[heap[b].worker].at = "remove" /\ pcSig[heap[b].worker].conn = b
      BY <2>2
    <3> QED BY <1>3, <1>4, <1>5, <2>2, <3>1, <3>2, <3>3 DEF Holds
  <2>3. CASE b # a /\ heap[b] = null
    BY <1>5, <2>3 DEF Holds
  <2> QED BY <2>1, <2>2, <2>3
<1>14. FdBelongsToClient'
  BY <1>1, <1>12 DEF FdBelongsToClient
<1> QED BY <1>6, <1>8, <1>9, <1>10, <1>11, <1>14

-----------------------------------------------------------------------------
(* The messages.                                                           *)
MInv == MsgTypes /\ Messages

SeatsStay == \A c \in Conns : seat[c] # null => seat'[c] = seat[c]

(* A seat is taken once: only a client that had none gets one.             *)
LEMMA SeatTakenOnce ==
    ASSUME CInv, NEW w \in SigWorkers, NEW a \in Addrs, HandleNewConn(w, a)
    PROVE  SeatsStay
<1>1. CASE qConn[w] = <<>>
  BY <1>1 DEF HandleNewConn, objVars, placeVars, SeatsStay
<1>2. CASE qConn[w] # <<>>
  <2>1. /\ qConn[w] \in Seq(Fds) /\ 1 \in 1 .. Len(qConn[w]) /\ Head(qConn[w]) = qConn[w][1]
    BY <1>2, Typed, TailOf DEF CInv
  <2>2. seat[owner[Head(qConn[w])]] = null
    BY <2>1 DEF CInv, ConnInv, Waiting
  <2>3. seat' = [seat EXCEPT ![owner[Head(qConn[w])]] = Seat(w, Head(qConn[w]), a)]
    BY <1>2 DEF HandleNewConn
  <2> QED BY <2>2, <2>3 DEF CInv, ConnTypes, SeatsStay
<1> QED BY <1>1, <1>2

LEMMA ToldStays ==
    ASSUME SeatsStay, NEW m \in RtcMsgType, Told(m)
    PROVE  Told(m)'
<1>1. /\ m.from \in Conns /\ m.worker \in SigWorkers /\ m.fd \in Fds /\ m.conn \in Addrs
  BY DEF RtcMsgType
<1>2. Seat(m.worker, m.fd, m.conn) \in SeatType
  BY <1>1 DEF Seat, SeatType
<1>3. seat[m.from] # null
  BY <1>2 DEF Told
<1> QED BY <1>1, <1>3 DEF SeatsStay, Told

LEMMA QueuesStay ==
    ASSUME MInv, SeatsStay, qSrv' = qSrv, qRtc' = qRtc, qSig' = qSig, MsgTypes'
    PROVE  MInv'
<1>1. /\ \A i \in 1 .. Len(qSrv) : qSrv[i] \in RtcMsgType
      /\ \A r \in RtcWorkers : \A i \in 1 .. Len(qRtc[r]) : qRtc[r][i] \in RtcMsgType
      /\ \A w \in SigWorkers : \A i \in 1 .. Len(qSig[w]) : qSig[w][i] \in RtcMsgType
  BY DEF MInv, MsgTypes
<1> QED BY <1>1, ToldStays DEF MInv, Messages

LEMMA Counters ==
    ASSUME NEW S, NEW f \in [S -> Nat], NEW x
    PROVE  /\ [f EXCEPT ![x] = @ + 1] \in [S -> Nat]
           /\ x \in S /\ f[x] > 0 => [f EXCEPT ![x] = @ - 1] \in [S -> Nat]
<1>1. CASE x \in S
  BY <1>1
<1>2. CASE x \notin S
  <2>1. [f EXCEPT ![x] = f[x] + 1] = f
    BY <1>2
  <2> QED BY <1>2, <2>1
<1> QED BY <1>1, <1>2

(* The steps that only write or read a notification, or are about          *)
(* connections.                                                            *)
LEMMA QuietSteps ==
    ASSUME CInv, MInv,
           \/ SignalingServerNext \/ NotifyRtcWorker
           \/ \E r \in RtcWorkers : NotifySigWorker(r)
           \/ \E w \in SigWorkers :
                 \/ \E a \in Addrs : HandleNewConn(w, a) \/ ProcessTimeout(w, a)
                 \/ NotifyRtcServer(w) \/ RemoveConnection(w) \/ WriteReply(w) \/ WriteFails(w)
                 \/ \E fd \in Fds : \/ RejectUnknownCmd(w, fd) \/ ReadFails(w, fd)
                                    \/ BeginWrite(w, fd)
    PROVE  MInv'
<1>1. qSrv' = qSrv /\ qRtc' = qRtc /\ qSig' = qSig /\ asked' = asked /\ served' = served
  BY DEF SignalingServerNext, AcceptNewConn, NotifyNewConn, NotifyRtcWorker, NotifySigWorker,
         HandleNewConn, NotifyRtcServer, RemoveConnection, WriteReply, WriteFails,
         RejectUnknownCmd, ReadFails, ProcessTimeout, BeginWrite,
         srvVars, rtcVars, sigVars, histVars
<1>2. SeatsStay
  <2>1. (\E w \in SigWorkers : \E a \in Addrs : HandleNewConn(w, a)) \/ seat' = seat
    BY DEF SignalingServerNext, AcceptNewConn, NotifyNewConn, NotifyRtcWorker, NotifySigWorker,
           NotifyRtcServer, RemoveConnection, WriteReply, WriteFails,
           RejectUnknownCmd, ReadFails, ProcessTimeout, BeginWrite, objVars, placeVars
  <2> QED BY <2>1, SeatTakenOnce DEF SeatsStay
<1>3. nConn' \in [SigWorkers -> Nat]
  <2>1. \/ \E w \in SigWorkers \cup {null} : nConn' = [nConn EXCEPT ![w] = @ + 1]
        \/ \E w \in SigWorkers : nConn[w] > 0 /\ nConn' = [nConn EXCEPT ![w] = @ - 1]
        \/ nConn' = nConn
    BY DEF SignalingServerNext, AcceptNewConn, NotifyNewConn, NotifyRtcWorker, NotifySigWorker,
           HandleNewConn, NotifyRtcServer, RemoveConnection, WriteReply, WriteFails,
           RejectUnknownCmd, ReadFails, ProcessTimeout, BeginWrite, connVars, CInv, ConnTypes
  <2>2. nConn \in [SigWorkers -> Nat]
    BY DEF MInv, MsgTypes
  <2> QED BY <2>1, <2>2, Counters
<1>4. nSrv' \in Nat /\ nRtc' \in [RtcWorkers -> Nat] /\ nSig' \in [SigWorkers -> Nat]
  <2>1. /\ nSrv' = nSrv \/ nSrv' = nSrv + 1
        /\ nRtc' = nRtc \/ \E r \in RtcWorkers \cup {null} : nRtc' = [nRtc EXCEPT ![r] = @ + 1]
        /\ nSig' = nSig \/ \E w \in SigWorkers \cup {null} : nSig' = [nSig EXCEPT ![w] = @ + 1]
    BY DEF SignalingServerNext, AcceptNewConn, NotifyNewConn, NotifyRtcWorker, NotifySigWorker,
           HandleNewConn, NotifyRtcServer, RemoveConnection, WriteReply, WriteFails,
           RejectUnknownCmd, ReadFails, ProcessTimeout, BeginWrite,
           srvVars, rtcVars, sigVars, MInv, MsgTypes
  <2>2. nSrv \in Nat /\ nRtc \in [RtcWorkers -> Nat] /\ nSig \in [SigWorkers -> Nat]
    BY DEF MInv, MsgTypes
  <2>3. nSrv' \in Nat
    BY <2>1, <2>2
  <2>4. nRtc' \in [RtcWorkers -> Nat]
    BY <2>1, <2>2, Counters
  <2>5. nSig' \in [SigWorkers -> Nat]
    BY <2>1, <2>2, Counters
  <2> QED BY <2>3, <2>4, <2>5
<1>5. pcSrv' \in RtcWorkers \cup {null} /\ pcRtc' \in [RtcWorkers -> SigWorkers \cup {null}]
  BY DEF SignalingServerNext, AcceptNewConn, NotifyNewConn, NotifyRtcWorker, NotifySigWorker,
         HandleNewConn, NotifyRtcServer, RemoveConnection, WriteReply, WriteFails,
         RejectUnknownCmd, ReadFails, ProcessTimeout, BeginWrite, MInv, MsgTypes
<1>6. MsgTypes'
  BY <1>1, <1>3, <1>4, <1>5 DEF MInv, MsgTypes
<1> QED BY <1>1, <1>2, <1>6, QueuesStay

(* Moving messages from queue to queue.                                    *)
LEMMA ReadRequestMsgs ==
    ASSUME CInv, MInv, NEW w \in SigWorkers, NEW fd \in Fds, NEW cmd \in Cmds,
           NEW s \in Streams, ReadRequest(w, fd, cmd, s)
    PROVE  MInv'
<1> DEFINE a == conns[w][fd]
           c == owner[fd]
           m == RtcMsg(c, w, a, fd, cmd, s)
<1>1. /\ Watched(w, fd) /\ qSrv' = Append(qSrv, m)
      /\ asked' = [asked EXCEPT ![s] = Append(@, c)]
      /\ nConn' = nConn /\ nSrv' = nSrv /\ qRtc' = qRtc /\ nRtc' = nRtc /\ qSig' = qSig
      /\ nSig' = nSig /\ pcSrv' = pcSrv /\ pcRtc' = pcRtc /\ served' = served /\ seat' = seat
  BY DEF ReadRequest, connVars, objVars, placeVars, rtcVars, sigVars
<1>2. a \in Addrs /\ c \in Conns /\ seat[c] = Seat(w, fd, a)
  BY <1>1, WatchedFd
<1> HIDE DEF a, c
<1>3. m \in RtcMsgType /\ m.from = c /\ m.worker = w /\ m.fd = fd /\ m.conn = a
  BY <1>2 DEF RtcMsg, RtcMsgType
<1> HIDE DEF m
<1>4. Told(m)
  BY <1>2, <1>3 DEF Told
<1>5. qSrv \in Seq(RtcMsgType) /\ asked \in [Streams -> Seq(Conns)]
  BY DEF MInv, MsgTypes
<1>6. asked' \in [Streams -> Seq(Conns)]
  BY <1>1, <1>2, <1>5
<1>7. qSrv' \in Seq(RtcMsgType)
  BY <1>1, <1>3, <1>5
<1>8. \A i \in 1 .. Len(qSrv') : Told(qSrv'[i])
  BY <1>1, <1>3, <1>4, <1>5, AppendTo DEF MInv, Messages
<1>9. MsgTypes'
  BY <1>1, <1>6, <1>7 DEF MInv, MsgTypes
<1>10. Messages'
  BY <1>1, <1>8 DEF MInv, Messages, Told
<1> QED BY <1>9, <1>10 DEF MInv

LEMMA ProcessRtcMsgMsgs ==
    ASSUME MInv, NEW w \in SigWorkers, ProcessRtcMsg(w)
    PROVE  MInv'
<1>1. /\ nConn' = nConn /\ qSrv' = qSrv /\ nSrv' = nSrv /\ qRtc' = qRtc /\ nRtc' = nRtc
      /\ pcSrv' = pcSrv /\ pcRtc' = pcRtc /\ asked' = asked /\ served' = served /\ seat' = seat
      /\ nSig[w] > 0 /\ nSig' = [nSig EXCEPT ![w] = @ - 1]
  BY DEF ProcessRtcMsg, connVars, objVars, placeVars, srvVars, rtcVars, histVars
<1>2. nSig' \in [SigWorkers -> Nat]
  BY <1>1 DEF MInv, MsgTypes
<1>3. CASE qSig[w] = <<>>
  <2>1. qSig' = qSig
    BY <1>3 DEF ProcessRtcMsg
  <2> QED BY <1>1, <1>2, <2>1 DEF MInv, MsgTypes, Messages, Told
<1>4. CASE qSig[w] # <<>>
  <2>1. qSig' = [qSig EXCEPT ![w] = Tail(@)] /\ qSig[w] \in Seq(RtcMsgType)
    BY <1>4 DEF ProcessRtcMsg, MInv, MsgTypes
  <2>2. /\ Tail(qSig[w]) \in Seq(RtcMsgType)
        /\ \A i \in 1 .. Len(Tail(qSig[w])) :
              i + 1 \in 1 .. Len(qSig[w]) /\ Tail(qSig[w])[i] = qSig[w][i + 1]
    BY <1>4, <2>1, TailOf
  <2>3. /\ qSig' \in [SigWorkers -> Seq(RtcMsgType)] /\ qSig'[w] = Tail(qSig[w])
        /\ \A v \in SigWorkers : v # w => qSig'[v] = qSig[v]
    BY <2>1, <2>2 DEF MInv, MsgTypes
  <2>4. ASSUME NEW v \in SigWorkers, NEW i \in 1 .. Len(qSig'[v])
        PROVE  Told(qSig'[v][i]) /\ qSig'[v][i].worker = v
    <3>1. CASE v = w
      <4>1. i + 1 \in 1 .. Len(qSig[w]) /\ qSig'[w][i] = qSig[w][i + 1]
        BY <2>2, <2>3, <3>1
      <4> QED BY <3>1, <4>1 DEF MInv, Messages
    <3>2. CASE v # w
      BY <2>3, <3>2 DEF MInv, Messages
    <3> QED BY <3>1, <3>2
  <2> QED BY <1>1, <1>2, <2>3, <2>4 DEF MInv, MsgTypes, Messages, Told
<1> QED BY <1>3, <1>4

LEMMA RouteRtcMsgMsgs ==
    ASSUME MInv, RouteRtcMsg
    PROVE  MInv'
<1>1. /\ nConn' = nConn /\ nSrv' = nSrv - 1 /\ nRtc' = nRtc /\ qSig' = qSig /\ nSig' = nSig
      /\ pcRtc' = pcRtc /\ asked' = asked /\ served' = served /\ seat' = seat /\ nSrv > 0
  BY DEF RouteRtcMsg, connVars, objVars, placeVars, sigVars, histVars
<1>2. nSrv' \in Nat
  BY <1>1 DEF MInv, MsgTypes
<1>3. CASE qSrv = <<>>
  <2>1. qSrv' = qSrv /\ qRtc' = qRtc /\ pcSrv' = pcSrv
    BY <1>3 DEF RouteRtcMsg
  <2> QED BY <1>1, <1>2, <2>1 DEF MInv, MsgTypes, Messages, Told
<1>4. CASE qSrv # <<>>
  <2> DEFINE m == Head(qSrv)
             r == Shard[m.stream]
  <2>1. /\ qSrv' = Tail(qSrv) /\ qRtc' = [qRtc EXCEPT ![r] = Append(@, m)] /\ pcSrv' = r
    BY <1>4 DEF RouteRtcMsg, GetWorker
  <2>2. qSrv \in Seq(RtcMsgType)
    BY DEF MInv, MsgTypes
  <2>3. /\ 1 \in 1 .. Len(qSrv) /\ m = qSrv[1] /\ m \in RtcMsgType
        /\ Tail(qSrv) \in Seq(RtcMsgType)
        /\ \A i \in 1 .. Len(Tail(qSrv)) :
              i + 1 \in 1 .. Len(qSrv) /\ Tail(qSrv)[i] = qSrv[i + 1]
    BY <1>4, <2>2, TailOf
  <2>4. r \in RtcWorkers
    BY <2>3, ShardAssumption DEF RtcMsgType
  <2>5. Told(m)
    BY <2>3 DEF MInv, Messages
  <2> HIDE DEF m, r
  <2>6. qRtc[r] \in Seq(RtcMsgType)
    BY <2>4 DEF MInv, MsgTypes
  <2>7. /\ qRtc' \in [RtcWorkers -> Seq(RtcMsgType)] /\ qRtc'[r] = Append(qRtc[r], m)
        /\ \A x \in RtcWorkers : x # r => qRtc'[x] = qRtc[x]
    BY <2>1, <2>3, <2>4, <2>6, AppendTo DEF MInv, MsgTypes
  <2>8. ASSUME NEW x \in RtcWorkers, NEW i \in 1 .. Len(qRtc'[x]) PROVE Told(qRtc'[x][i])
    <3>1. CASE x = r
      BY <2>3, <2>5, <2>6, <2>7, <3>1, AppendTo DEF MInv, Messages
    <3>2. CASE x # r
      BY <2>7, <3>2 DEF MInv, Messages
    <3> QED BY <3>1, <3>2
  <2>9. \A i \in 1 .. Len(qSrv') : Told(qSrv'[i])
    BY <2>1, <2>3 DEF MInv, Messages
  <2>10. MsgTypes'
    BY <1>1, <1>2, <2>1, <2>3, <2>4, <2>7 DEF MInv, MsgTypes
  <2>11. Messages'
    BY <1>1, <2>8, <2>9 DEF MInv, Messages, Told
  <2> QED BY <2>10, <2>11 DEF MInv
<1> QED BY <1>3, <1>4

(* Removing one client from a history.                                     *)
LEMMA WithoutOne ==
    ASSUME NEW q \in Seq(Conns), NEW k \in 1 .. Len(q),
           \A j \in 1 .. Len(q) : q[j] = q[k] => j = k
    PROVE  /\ Without(q, q[k]) \in Seq(Conns)
           /\ Len(Without(q, q[k])) = Len(q) - 1
           /\ \A j \in 1 .. Len(q) - 1 : Without(q, q[k])[j] = IF j < k THEN q[j] ELSE q[j + 1]
<1> DEFINE n == CHOOSE j \in 1 .. Len(q) : q[j] = q[k]
<1>1. n = k
  OBVIOUS
<1> HIDE DEF n
<1>2. Without(q, q[k]) = [j \in 1 .. Len(q) - 1 |-> IF j < k THEN q[j] ELSE q[j + 1]]
  BY <1>1 DEF Without, n
<1>3. Len(q) \in Nat /\ Len(q) - 1 \in Nat /\ \A j \in 1 .. Len(q) : q[j] \in Conns
  OBVIOUS
<1>4. \A j \in 1 .. Len(q) - 1 : j \in 1 .. Len(q) /\ j + 1 \in 1 .. Len(q)
  BY <1>3
<1>5. [j \in 1 .. Len(q) - 1 |-> IF j < k THEN q[j] ELSE q[j + 1]] \in [1 .. Len(q) - 1 -> Conns]
  BY <1>3, <1>4
<1> QED BY <1>2, <1>3, <1>5

LEMMA WithoutType ==
    ASSUME NEW q \in Seq(Conns), NEW c
    PROVE  Without(q, c) \in Seq(Conns)
<1> DEFINE n == CHOOSE j \in 1 .. Len(q) : q[j] = c
           f == [j \in 1 .. Len(q) - 1 |-> IF j < n THEN q[j] ELSE q[j + 1]]
<1>1. Without(q, c) = f
  BY DEF Without
<1> HIDE DEF n
<1>2. Len(q) \in Nat /\ \A j \in 1 .. Len(q) : q[j] \in Conns
  OBVIOUS
<1>3. \A j \in 1 .. Len(q) - 1 : j \in 1 .. Len(q) /\ j + 1 \in 1 .. Len(q)
  BY <1>2
<1>4. f \in [1 .. Len(q) - 1 -> Conns]
  BY <1>2, <1>3
<1>5. CASE Len(q) = 0
  <2>1. f \in [1 .. 0 -> Conns]
    BY <1>4, <1>5
  <2> QED BY <1>1, <2>1
<1>6. CASE Len(q) # 0
  <2>1. Len(q) - 1 \in Nat
    BY <1>2, <1>6
  <2> QED BY <1>1, <1>4, <2>1
<1> QED BY <1>5, <1>6

LEMMA DropMsgs ==
    ASSUME MInv, DropWithoutCertificate
    PROVE  MInv'
<1> DEFINE m == Head(qSrv)
<1>1. /\ nConn' = nConn /\ nSrv' = nSrv - 1 /\ nRtc' = nRtc /\ qRtc' = qRtc /\ qSig' = qSig
      /\ nSig' = nSig /\ pcSrv' = pcSrv /\ pcRtc' = pcRtc /\ served' = served /\ seat' = seat
      /\ nSrv > 0 /\ qSrv # <<>> /\ qSrv' = Tail(qSrv)
      /\ asked' = [asked EXCEPT ![m.stream] = Without(@, m.from)]
  BY DEF DropWithoutCertificate, connVars, objVars, placeVars, rtcVars, sigVars
<1>2. qSrv \in Seq(RtcMsgType) /\ asked \in [Streams -> Seq(Conns)] /\ nSrv \in Nat
  BY DEF MInv, MsgTypes
<1>3. /\ m \in RtcMsgType /\ Tail(qSrv) \in Seq(RtcMsgType)
      /\ \A i \in 1 .. Len(Tail(qSrv)) :
            i + 1 \in 1 .. Len(qSrv) /\ Tail(qSrv)[i] = qSrv[i + 1]
  BY <1>1, <1>2, TailOf
<1>4. asked' \in [Streams -> Seq(Conns)]
  <2>1. m.stream \in Streams
    BY <1>3 DEF RtcMsgType
  <2>2. Without(asked[m.stream], m.from) \in Seq(Conns)
    BY <1>2, <2>1, WithoutType
  <2> QED BY <1>1, <1>2, <2>1, <2>2
<1>5. \A i \in 1 .. Len(qSrv') : Told(qSrv'[i])
  BY <1>1, <1>3 DEF MInv, Messages
<1>6. MsgTypes'
  BY <1>1, <1>2, <1>3, <1>4 DEF MInv, MsgTypes
<1>7. Messages'
  BY <1>1, <1>5 DEF MInv, Messages, Told
<1> QED BY <1>6, <1>7 DEF MInv

LEMMA ServeRtcMsgMsgs ==
    ASSUME MInv, NEW r \in RtcWorkers, ServeRtcMsg(r)
    PROVE  MInv'
<1>1. /\ nConn' = nConn /\ qSrv' = qSrv /\ nSrv' = nSrv /\ nSig' = nSig
      /\ pcSrv' = pcSrv /\ asked' = asked /\ seat' = seat
      /\ nRtc[r] > 0 /\ nRtc' = [nRtc EXCEPT ![r] = @ - 1]
  BY DEF ServeRtcMsg, connVars, objVars, placeVars, srvVars
<1>2. nRtc' \in [RtcWorkers -> Nat]
  BY <1>1 DEF MInv, MsgTypes
<1>3. CASE qRtc[r] = <<>>
  <2>1. qRtc' = qRtc /\ qSig' = qSig /\ pcRtc' = pcRtc /\ served' = served
    BY <1>3 DEF ServeRtcMsg
  <2> QED BY <1>1, <1>2, <2>1 DEF MInv, MsgTypes, Messages, Told
<1>4. CASE qRtc[r] # <<>>
  <2> DEFINE m == Head(qRtc[r])
             w == m.worker
  <2>1. /\ qRtc' = [qRtc EXCEPT ![r] = Tail(@)]
        /\ served' = [served EXCEPT ![m.stream] = Append(@, m.from)]
        /\ \/ /\ qSig' = [qSig EXCEPT ![w] = Append(@, m)]
              /\ pcRtc' = [pcRtc EXCEPT ![r] = w]
           \/ qSig' = qSig /\ pcRtc' = pcRtc
    BY <1>4 DEF ServeRtcMsg
  <2>2. qRtc[r] \in Seq(RtcMsgType)
    BY DEF MInv, MsgTypes
  <2>3. /\ 1 \in 1 .. Len(qRtc[r]) /\ m = qRtc[r][1] /\ m \in RtcMsgType
        /\ Tail(qRtc[r]) \in Seq(RtcMsgType)
        /\ \A i \in 1 .. Len(Tail(qRtc[r])) :
              i + 1 \in 1 .. Len(qRtc[r]) /\ Tail(qRtc[r])[i] = qRtc[r][i + 1]
    BY <1>4, <2>2, TailOf
  <2>4. w \in SigWorkers /\ m.stream \in Streams /\ m.from \in Conns
    BY <2>3 DEF RtcMsgType
  <2>5. Told(m)
    BY <2>3 DEF MInv, Messages
  <2>6. served' \in [Streams -> Seq(Conns)]
    BY <2>1, <2>4, AppendTo DEF MInv, MsgTypes
  <2> HIDE DEF m
  <2>7. /\ qRtc' \in [RtcWorkers -> Seq(RtcMsgType)] /\ qRtc'[r] = Tail(qRtc[r])
        /\ \A x \in RtcWorkers : x # r => qRtc'[x] = qRtc[x]
    BY <2>1, <2>3 DEF MInv, MsgTypes
  <2>8. ASSUME NEW x \in RtcWorkers, NEW i \in 1 .. Len(qRtc'[x]) PROVE Told(qRtc'[x][i])
    <3>1. CASE x = r
      <4>1. i + 1 \in 1 .. Len(qRtc[r]) /\ qRtc'[x][i] = qRtc[r][i + 1]
        BY <2>3, <2>7, <3>1
      <4> QED BY <4>1 DEF MInv, Messages
    <3>2. CASE x # r
      BY <2>7, <3>2 DEF MInv, Messages
    <3> QED BY <3>1, <3>2
  <2>9. /\ qSig' \in [SigWorkers -> Seq(RtcMsgType)]
        /\ \A v \in SigWorkers : \A i \in 1 .. Len(qSig'[v]) :
              Told(qSig'[v][i]) /\ qSig'[v][i].worker = v
        /\ pcRtc' \in [RtcWorkers -> SigWorkers \cup {null}]
    <3>1. CASE qSig' = qSig /\ pcRtc' = pcRtc
      BY <3>1 DEF MInv, MsgTypes, Messages
    <3>2. CASE qSig' = [qSig EXCEPT ![w] = Append(@, m)] /\ pcRtc' = [pcRtc EXCEPT ![r] = w]
      <4> HIDE DEF w
      <4>1. qSig[w] \in Seq(RtcMsgType)
        BY <2>4 DEF MInv, MsgTypes
      <4>2. /\ qSig' \in [SigWorkers -> Seq(RtcMsgType)] /\ qSig'[w] = Append(qSig[w], m)
            /\ \A v \in SigWorkers : v # w => qSig'[v] = qSig[v]
        BY <2>3, <2>4, <3>2, <4>1, AppendTo DEF MInv, MsgTypes
      <4>3. ASSUME NEW i \in 1 .. Len(qSig'[w]) PROVE Told(qSig'[w][i]) /\ qSig'[w][i].worker = w
        <5>1. (i \in 1 .. Len(qSig[w]) /\ qSig'[w][i] = qSig[w][i]) \/ qSig'[w][i] = m
          BY <2>3, <4>1, <4>2, AppendTo
        <5> QED BY <2>4, <2>5, <5>1 DEF MInv, Messages, w
      <4>4. ASSUME NEW v \in SigWorkers, v # w, NEW i \in 1 .. Len(qSig'[v])
            PROVE  Told(qSig'[v][i]) /\ qSig'[v][i].worker = v
        BY <4>2, <4>4 DEF MInv, Messages
      <4>5. pcRtc' \in [RtcWorkers -> SigWorkers \cup {null}]
        BY <2>4, <3>2 DEF MInv, MsgTypes
      <4> QED BY <4>2, <4>3, <4>4, <4>5
    <3> QED BY <2>1, <3>1, <3>2
  <2>10. MsgTypes'
    BY <1>1, <1>2, <2>6, <2>7, <2>9 DEF MInv, MsgTypes
  <2>11. Messages'
    BY <1>1, <2>8, <2>9 DEF MInv, Messages, Told
  <2> QED BY <2>10, <2>11 DEF MInv
<1> QED BY <1>3, <1>4

-----------------------------------------------------------------------------
LEMMA Initially == Init => CInv /\ MInv
<1> SUFFICES ASSUME Init PROVE CInv /\ MInv
  OBVIOUS
<1>1. Idle \in PcSigType /\ Idle.at = "idle"
  BY DEF Idle, PcSigType
<1>2. 0 \in SigWorkers /\ Shard \in [Streams -> RtcWorkers]
  BY SigWorkerNumAssumption, ShardAssumption DEF SigWorkers
<1>3. ConnTypes
  <2>1. size \in [SigWorkers -> Nat]
    <3>1. {0} \cup {2 * f : f \in EarlierFds} \subseteq Nat
      BY FdsAssumption
    <3> QED BY <3>1 DEF Init
  <2> QED BY <1>1, <1>2, <2>1 DEF Init, ConnTypes
<1>4. MsgTypes
  BY DEF Init, MsgTypes
<1>5. Slots /\ Threads /\ FdBelongsToClient /\ Waiting /\ Clients /\ Answers
  <2>1. Slots
    BY DEF Init, Slots, Inside
  <2>2. Threads
    BY <1>1 DEF Init, Threads
  <2>3. FdBelongsToClient
    BY DEF Init, FdBelongsToClient, Holds
  <2>4. Waiting /\ Clients /\ Answers
    BY DEF Init, Waiting, Clients, Answers
  <2> QED BY <2>1, <2>2, <2>3, <2>4
<1>6. Messages
  BY DEF Init, Messages
<1> QED BY <1>3, <1>4, <1>5, <1>6 DEF CInv, ConnInv, MInv

(* The steps of RtcServer and the RtcWorkers, and of the pipe of           *)
(* SignalingServer, are not about connections.                             *)
LEMMA ConnsStay ==
    ASSUME CInv, \/ NotifyNewConn \/ RtcServerNext
                 \/ \E r \in RtcWorkers : RtcWorkerNext(r)
                 \/ UNCHANGED vars
    PROVE  CInv'
<1>1. /\ owner' = owner /\ request' = request /\ got' = got /\ nextWorker' = nextWorker
      /\ qConn' = qConn /\ conns' = conns /\ heap' = heap /\ seat' = seat /\ pcSig' = pcSig
      /\ size' = size /\ strays' = strays /\ pcAcc' \in {pcAcc, null}
  BY DEF NotifyNewConn, RtcServerNext, RouteRtcMsg, DropWithoutCertificate, NotifyRtcWorker,
         RtcWorkerNext, ServeRtcMsg, NotifySigWorker, vars, clientVars, connVars, objVars, placeVars
<1> QED BY <1>1, ConnsAlone

LEMMA Preserved == CInv /\ MInv /\ [Next]_vars => CInv' /\ MInv'
<1> SUFFICES ASSUME CInv, MInv, [Next]_vars PROVE CInv' /\ MInv'
  OBVIOUS
<1>1. CASE UNCHANGED vars
  <2>1. CInv'
    BY <1>1, ConnsStay
  <2>2. MInv'
    <3>1. /\ nConn' = nConn /\ qSrv' = qSrv /\ nSrv' = nSrv /\ qRtc' = qRtc /\ nRtc' = nRtc
          /\ qSig' = qSig /\ nSig' = nSig /\ pcSrv' = pcSrv /\ pcRtc' = pcRtc
          /\ asked' = asked /\ served' = served /\ seat' = seat
      BY <1>1 DEF vars, connVars, objVars, placeVars, srvVars, rtcVars, sigVars, histVars
    <3>2. MsgTypes'
      BY <3>1 DEF MInv, MsgTypes
    <3>3. Messages'
      BY <3>1 DEF MInv, Messages, Told
    <3> QED BY <3>2, <3>3 DEF MInv
  <2> QED BY <2>1, <2>2
<1>2. CASE SignalingServerNext
  BY <1>2, AcceptNewConnStep, ConnsStay, QuietSteps DEF SignalingServerNext
<1>3. ASSUME NEW w \in SigWorkers, SigWorkerNext(w) PROVE CInv' /\ MInv'
  <2>1. CInv'
    BY <1>3, HandleNewConnStep, NotifyRtcServerStep, RemoveConnectionStep, ProcessRtcMsgStep,
       WriteReplyStep, WriteFailsStep, ReadRequestStep, RejectUnknownCmdStep, ReadFailsStep,
       ProcessTimeoutStep, BeginWriteStep DEF SigWorkerNext, MInv
  <2>2. MInv'
    BY <1>3, QuietSteps, ReadRequestMsgs, ProcessRtcMsgMsgs DEF SigWorkerNext
  <2> QED BY <2>1, <2>2
<1>4. CASE RtcServerNext
  BY <1>4, ConnsStay, RouteRtcMsgMsgs, DropMsgs, QuietSteps DEF RtcServerNext
<1>5. ASSUME NEW r \in RtcWorkers, RtcWorkerNext(r) PROVE CInv' /\ MInv'
  BY <1>5, ConnsStay, ServeRtcMsgMsgs, QuietSteps DEF RtcWorkerNext
<1> QED BY <1>1, <1>2, <1>3, <1>4, <1>5 DEF Next

LEMMA Inductive == Spec => [](CInv /\ MInv)
BY Initially, Preserved, PTL DEF Spec

(* Every queue, table, thread and history of the path keeps its type: in   *)
(* particular no thread ever works on a deleted TcpConnection or on an fd  *)
(* without a client.                                                       *)
THEOREM TypeCorrect == Spec => []TypeOK
<1>1. CInv /\ MInv => TypeOK
  BY DEF CInv, ConnTypes, MInv, MsgTypes, TypeOK
<1> QED BY <1>1, Inductive, PTL

(* For any number of workers, fds and addresses, whatever conns_ has grown *)
(* to: a slot holds only a live TcpConnection of its worker and fd, every  *)
(* live one that was not written past the end is in its slot and passes    *)
(* the checks against the size, and a worker only touches the fd of its    *)
(* own client, although close() gives the fd away before the slot is       *)
(* cleared (signaling_worker.cpp).                                         *)
THEOREM Connections == Spec => []ConnectionsSound
<1>1. CInv => ConnectionsSound
  BY DEF CInv, ConnInv, Slots, ConnectionsSound, ConnTableExact
<1> QED BY <1>1, Inductive, PTL

(* An answer reaches a client that did not ask only at the same worker,    *)
(* fd and address as the one that did (_response_server_offer).            *)
THEOREM Twins == Spec => []MisdirectedOnlyToTwin
<1>1. CInv => MisdirectedOnlyToTwin
  BY DEF CInv, ConnInv, Answers, MisdirectedOnlyToTwin
<1> QED BY <1>1, Inductive, PTL

-----------------------------------------------------------------------------
(* Wakeups.  The four queues are counted one by one; each is pushed to,    *)
(* announced and taken from by its own few steps.                          *)
Notifying == {w \in SigWorkers : pcSig[w].at = "notify"}
Answering(w) == {r \in RtcWorkers : pcRtc[r] = w}

ConnWakeups ==
    \A w \in SigWorkers : Len(qConn[w]) = nConn[w] + (IF pcAcc = w THEN 1 ELSE 0)
SrvWakeups == Len(qSrv) = nSrv + Cardinality(Notifying)
RtcWakeups ==
    \A r \in RtcWorkers : Len(qRtc[r]) = nRtc[r] + (IF pcSrv = r THEN 1 ELSE 0)
SigWakeups ==
    \A w \in SigWorkers : Len(qSig[w]) = nSig[w] + Cardinality(Answering(w))

(* q_conn_: dispatch_new_conn pushes and then notifies, _handle_new_conn   *)
(* takes one fd for one notification.                                      *)
LEMMA ConnWakeupsStep ==
    ASSUME CInv, MInv, ConnWakeups, [Next]_vars
    PROVE  ConnWakeups'
<1>0. /\ \A v \in SigWorkers : qConn[v] \in Seq(Fds) /\ Len(qConn[v]) \in Nat /\ nConn[v] \in Nat
      /\ nextWorker \in SigWorkers /\ pcAcc \in SigWorkers \cup {null}
      /\ DOMAIN qConn = SigWorkers /\ DOMAIN nConn = SigWorkers /\ null \notin SigWorkers
  <2>1. null \notin SigWorkers
    BY DEF SigWorkers
  <2> QED BY <2>1 DEF CInv, ConnTypes, MInv, MsgTypes
<1>1. ASSUME NEW c \in Conns, NEW fd \in Fds, AcceptNewConn(c, fd) PROVE ConnWakeups'
  <2>1. /\ pcAcc = null /\ pcAcc' = nextWorker /\ nConn' = nConn
        /\ qConn'[nextWorker] = Append(qConn[nextWorker], fd)
        /\ \A v \in SigWorkers : v # nextWorker => qConn'[v] = qConn[v]
    BY <1>0, <1>1 DEF AcceptNewConn
  <2>2. Len(qConn'[nextWorker]) = Len(qConn[nextWorker]) + 1
    BY <1>0, <2>1, AppendTo
  <2>3. ASSUME NEW v \in SigWorkers
        PROVE  Len(qConn'[v]) = nConn'[v] + (IF pcAcc' = v THEN 1 ELSE 0)
    <3>1. Len(qConn[v]) = nConn[v]
      BY <1>0, <2>1 DEF ConnWakeups
    <3> QED BY <1>0, <2>1, <2>2, <3>1
  <2> QED BY <2>3 DEF ConnWakeups
<1>2. CASE NotifyNewConn
  <2>1. /\ pcAcc \in SigWorkers /\ pcAcc' = null /\ qConn' = qConn
        /\ nConn'[pcAcc] = nConn[pcAcc] + 1
        /\ \A v \in SigWorkers : v # pcAcc => nConn'[v] = nConn[v]
    BY <1>0, <1>2 DEF NotifyNewConn
  <2>2. ASSUME NEW v \in SigWorkers
        PROVE  Len(qConn'[v]) = nConn'[v] + (IF pcAcc' = v THEN 1 ELSE 0)
    <3>1. Len(qConn[v]) = nConn[v] + (IF pcAcc = v THEN 1 ELSE 0)
      BY DEF ConnWakeups
    <3>2. pcAcc' # v
      BY <1>0, <2>1
    <3> QED BY <1>0, <2>1, <3>1, <3>2
  <2> QED BY <2>2 DEF ConnWakeups
<1>3. ASSUME NEW w \in SigWorkers, NEW a \in Addrs, HandleNewConn(w, a) PROVE ConnWakeups'
  <2>1. /\ nConn[w] > 0 /\ nConn'[w] = nConn[w] - 1 /\ pcAcc' = pcAcc
        /\ \A v \in SigWorkers : v # w => nConn'[v] = nConn[v]
    BY <1>0, <1>3 DEF HandleNewConn
  <2>2. Len(qConn[w]) > 0
    BY <1>0, <2>1 DEF ConnWakeups
  <2>3. qConn[w] # <<>>
    BY <2>2
  <2>4. qConn'[w] = Tail(qConn[w]) /\ \A v \in SigWorkers : v # w => qConn'[v] = qConn[v]
    BY <1>0, <1>3, <2>3 DEF HandleNewConn
  <2>5. Len(qConn'[w]) = Len(qConn[w]) - 1
    BY <1>0, <2>3, <2>4, TailOf
  <2>6. ASSUME NEW v \in SigWorkers
        PROVE  Len(qConn'[v]) = nConn'[v] + (IF pcAcc' = v THEN 1 ELSE 0)
    <3> DEFINE k == IF pcAcc = v THEN 1 ELSE 0
    <3>1. Len(qConn[v]) = nConn[v] + k /\ k \in Nat /\ k' = k
      BY <2>1 DEF ConnWakeups
    <3> HIDE DEF k
    <3>2. \/ Len(qConn'[v]) = Len(qConn[v]) - 1 /\ nConn'[v] = nConn[v] - 1
          \/ Len(qConn'[v]) = Len(qConn[v]) /\ nConn'[v] = nConn[v]
      BY <2>1, <2>4, <2>5
    <3>3. Len(qConn[v]) \in Nat /\ nConn[v] \in Nat
      BY <1>0
    <3>4. Len(qConn'[v]) = nConn'[v] + k
      BY <3>1, <3>2, <3>3
    <3> QED BY <3>1, <3>4 DEF k
  <2> QED BY <2>6 DEF ConnWakeups
<1>4. CASE qConn' = qConn /\ nConn' = nConn /\ pcAcc' = pcAcc
  BY <1>4 DEF ConnWakeups
<1>5. ASSUME NEW w \in SigWorkers, SigWorkerNext(w) PROVE ConnWakeups'
  <2>1. (\E a \in Addrs : HandleNewConn(w, a)) \/ UNCHANGED connVars
    BY <1>5 DEF SigWorkerNext, NotifyRtcServer, RemoveConnection, ProcessRtcMsg, WriteReply,
       WriteFails, ReadRequest, RejectUnknownCmd, ReadFails, ProcessTimeout, BeginWrite
  <2> QED BY <1>3, <1>4, <2>1 DEF connVars
<1>6. ASSUME UNCHANGED vars \/ RtcServerNext \/ \E r \in RtcWorkers : RtcWorkerNext(r)
      PROVE  ConnWakeups'
  <2>1. UNCHANGED connVars
    BY <1>6 DEF RtcServerNext, RouteRtcMsg, DropWithoutCertificate, NotifyRtcWorker,
       RtcWorkerNext, ServeRtcMsg, NotifySigWorker, vars
  <2> QED BY <1>4, <2>1 DEF connVars
<1> QED BY <1>1, <1>2, <1>5, <1>6 DEF Next, SignalingServerNext

(* RtcServer::q_msg_: several signaling workers may stand between push_msg *)
(* and notify at once.                                                     *)
LEMMA SrvWakeupsStep ==
    ASSUME CInv, MInv, SrvWakeups, [Next]_vars
    PROVE  SrvWakeups'
<1>0. /\ qSrv \in Seq(RtcMsgType) /\ Len(qSrv) \in Nat /\ nSrv \in Nat
      /\ IsFiniteSet(Notifying) /\ Cardinality(Notifying) \in Nat
  <2>1. IsFiniteSet(SigWorkers)
    BY SigWorkerNumAssumption, FS_Interval DEF SigWorkers
  <2>2. Notifying \in SUBSET SigWorkers
    BY DEF Notifying
  <2>3. IsFiniteSet(Notifying) /\ Cardinality(Notifying) \in Nat
    BY <2>1, <2>2, FS_Subset, FS_CardinalityType
  <2> QED BY <2>3 DEF MInv, MsgTypes
<1>1. ASSUME NEW w \in SigWorkers, NEW fd \in Fds, NEW cmd \in Cmds, NEW s \in Streams,
             ReadRequest(w, fd, cmd, s)
      PROVE  SrvWakeups'
  <2>1. \E m \in RtcMsgType : qSrv' = Append(qSrv, m)
    <3>1. conns[w][fd] \in Addrs /\ owner[fd] \in Conns
      BY <1>1, WatchedFd DEF ReadRequest
    <3> QED BY <1>1, <3>1 DEF ReadRequest, RtcMsg, RtcMsgType
  <2>2. Len(qSrv') = Len(qSrv) + 1 /\ nSrv' = nSrv
    BY <1>0, <1>1, <2>1, AppendTo DEF ReadRequest
  <2>3. w \notin Notifying /\ Notifying' = Notifying \cup {w}
    BY <1>1 DEF ReadRequest, Watched, Idle, Notifying, CInv, ConnTypes
  <2>4. Cardinality(Notifying') = Cardinality(Notifying) + 1
    BY <1>0, <2>3, FS_AddElement
  <2> QED BY <1>0, <2>2, <2>4 DEF SrvWakeups
<1>2. ASSUME NEW w \in SigWorkers, NotifyRtcServer(w) PROVE SrvWakeups'
  <2>1. qSrv' = qSrv /\ nSrv' = nSrv + 1 /\ w \in Notifying /\ Notifying' = Notifying \ {w}
    BY <1>2 DEF NotifyRtcServer, Notifying, Idle, CInv, ConnTypes
  <2>2. Cardinality(Notifying') = Cardinality(Notifying) - 1
    BY <1>0, <2>1, FS_RemoveElement
  <2> QED BY <1>0, <2>1, <2>2 DEF SrvWakeups
<1>3. CASE RouteRtcMsg \/ DropWithoutCertificate
  <2>1. nSrv > 0 /\ nSrv' = nSrv - 1 /\ pcSig' = pcSig
    BY <1>3 DEF RouteRtcMsg, DropWithoutCertificate
  <2>2. Len(qSrv) > 0
    BY <1>0, <2>1 DEF SrvWakeups
  <2>3. qSrv # <<>>
    BY <2>2
  <2>4. qSrv' = Tail(qSrv)
    BY <1>3, <2>3 DEF RouteRtcMsg, DropWithoutCertificate
  <2>5. Len(qSrv') = Len(qSrv) - 1
    BY <1>0, <2>3, <2>4, TailOf
  <2>6. Notifying' = Notifying
    BY <2>1 DEF Notifying
  <2> QED BY <1>0, <2>1, <2>5, <2>6 DEF SrvWakeups
<1>4. ASSUME NEW w \in SigWorkers,
             \/ RemoveConnection(w) \/ WriteReply(w) \/ WriteFails(w)
             \/ \E fd \in Fds : RejectUnknownCmd(w, fd) \/ ReadFails(w, fd) \/ BeginWrite(w, fd)
             \/ \E a \in Addrs : ProcessTimeout(w, a)
      PROVE  SrvWakeups'
  <2>1. /\ qSrv' = qSrv /\ nSrv' = nSrv /\ w \notin Notifying
        /\ \/ pcSig' = pcSig
           \/ pcSig' = [pcSig EXCEPT ![w] = Idle]
           \/ \E a : pcSig' = [pcSig EXCEPT ![w] = [at |-> "remove", conn |-> a]]
           \/ \E a : pcSig' = [pcSig EXCEPT ![w] = [at |-> "write", conn |-> a]]
    <3>1. CASE RemoveConnection(w)
      BY <3>1 DEF RemoveConnection, Notifying, srvVars
    <3>2. CASE WriteReply(w)
      BY <3>2 DEF WriteReply, Notifying, srvVars
    <3>3. CASE WriteFails(w)
      BY <3>3 DEF WriteFails, CloseFd, Notifying, srvVars
    <3>4. ASSUME NEW fd \in Fds, RejectUnknownCmd(w, fd) \/ ReadFails(w, fd)
          PROVE  /\ qSrv' = qSrv /\ nSrv' = nSrv /\ w \notin Notifying
                 /\ \E a : pcSig' = [pcSig EXCEPT ![w] = [at |-> "remove", conn |-> a]]
      BY <3>4 DEF RejectUnknownCmd, ReadFails, CloseFd, Watched, Idle, Notifying, srvVars
    <3>6. ASSUME NEW a \in Addrs, ProcessTimeout(w, a)
          PROVE  /\ qSrv' = qSrv /\ nSrv' = nSrv /\ w \notin Notifying
                 /\ pcSig' = [pcSig EXCEPT ![w] = [at |-> "remove", conn |-> a]]
      BY <3>6 DEF ProcessTimeout, CloseFd, Timed, Idle, Notifying, srvVars
    <3>5. ASSUME NEW fd \in Fds, BeginWrite(w, fd)
          PROVE  /\ qSrv' = qSrv /\ nSrv' = nSrv /\ w \notin Notifying
                 /\ \E a : pcSig' = [pcSig EXCEPT ![w] = [at |-> "write", conn |-> a]]
      <4>1. pcSig' = [pcSig EXCEPT ![w] = [at |-> "write", conn |-> conns[w][fd]]]
        BY <3>5 DEF BeginWrite
      <4>2. qSrv' = qSrv /\ nSrv' = nSrv /\ w \notin Notifying
        BY <3>5 DEF BeginWrite, Watched, Idle, Notifying, srvVars
      <4> QED BY <4>1, <4>2
    <3> QED BY <1>4, <3>1, <3>2, <3>3, <3>4, <3>5, <3>6
  <2>2. pcSig'[w].at # "notify" /\ \A v \in SigWorkers : v # w => pcSig'[v] = pcSig[v]
    BY <2>1 DEF Notifying, Idle, CInv, ConnTypes
  <2>3. Notifying' = Notifying
    BY <2>1, <2>2 DEF Notifying
  <2> QED BY <2>1, <2>3 DEF SrvWakeups
<1>5. CASE qSrv' = qSrv /\ nSrv' = nSrv /\ pcSig' = pcSig
  BY <1>5 DEF SrvWakeups, Notifying
<1>6. CASE UNCHANGED vars
  BY <1>5, <1>6 DEF vars, srvVars
<1>7. CASE SignalingServerNext
  BY <1>5, <1>7 DEF SignalingServerNext, AcceptNewConn, NotifyNewConn, srvVars
<1>8. ASSUME NEW w \in SigWorkers, SigWorkerNext(w) PROVE SrvWakeups'
  <2>1. ASSUME ProcessRtcMsg(w) \/ \E a \in Addrs : HandleNewConn(w, a) PROVE SrvWakeups'
    BY <1>5, <2>1 DEF ProcessRtcMsg, HandleNewConn, srvVars
  <2> QED BY <1>1, <1>2, <1>4, <1>8, <2>1 DEF SigWorkerNext
<1>9. CASE RtcServerNext
  BY <1>3, <1>5, <1>9 DEF RtcServerNext, NotifyRtcWorker, srvVars
<1>10. ASSUME NEW r \in RtcWorkers, RtcWorkerNext(r) PROVE SrvWakeups'
  BY <1>5, <1>10 DEF RtcWorkerNext, ServeRtcMsg, NotifySigWorker, srvVars
<1> QED BY <1>6, <1>7, <1>8, <1>9, <1>10 DEF Next

(* RtcWorker::q_msg_: only RtcServer pushes, and it notifies before it     *)
(* takes the next message.                                                 *)
LEMMA RtcWakeupsStep ==
    ASSUME MInv, RtcWakeups, [Next]_vars
    PROVE  RtcWakeups'
<1>0. /\ \A r \in RtcWorkers :
            qRtc[r] \in Seq(RtcMsgType) /\ Len(qRtc[r]) \in Nat /\ nRtc[r] \in Nat
      /\ pcSrv \in RtcWorkers \cup {null} /\ null \notin RtcWorkers
      /\ DOMAIN qRtc = RtcWorkers /\ DOMAIN nRtc = RtcWorkers
  BY DEF MInv, MsgTypes
<1>1. CASE qRtc' = qRtc /\ nRtc' = nRtc /\ pcSrv' = pcSrv
  BY <1>1 DEF RtcWakeups
<1>2. CASE RouteRtcMsg
  <2>1. CASE qSrv = <<>>
    BY <1>1, <1>2, <2>1 DEF RouteRtcMsg
  <2>2. CASE qSrv # <<>>
    <3> DEFINE m == Head(qSrv)
               x == Shard[m.stream]
    <3>1. m \in RtcMsgType
      BY <2>2, TailOf DEF MInv, MsgTypes
    <3>2. x \in RtcWorkers
      BY <3>1, ShardAssumption DEF RtcMsgType
    <3>3. /\ pcSrv = null /\ nRtc' = nRtc /\ pcSrv' = x
          /\ qRtc' = [qRtc EXCEPT ![x] = Append(@, m)]
      BY <1>2, <2>2 DEF RouteRtcMsg, GetWorker
    <3> HIDE DEF m, x
    <3>4. /\ Len(qRtc'[x]) = Len(qRtc[x]) + 1
          /\ \A r \in RtcWorkers : r # x => qRtc'[r] = qRtc[r]
      BY <1>0, <3>1, <3>2, <3>3, AppendTo
    <3>5. ASSUME NEW r \in RtcWorkers
          PROVE  Len(qRtc'[r]) = nRtc'[r] + (IF pcSrv' = r THEN 1 ELSE 0)
      <4>1. Len(qRtc[r]) = nRtc[r]
        BY <1>0, <3>3 DEF RtcWakeups
      <4> QED BY <1>0, <3>2, <3>3, <3>4, <4>1
    <3> QED BY <3>5 DEF RtcWakeups
  <2> QED BY <2>1, <2>2
<1>3. CASE NotifyRtcWorker
  <2>1. /\ pcSrv \in RtcWorkers /\ pcSrv' = null /\ qRtc' = qRtc
        /\ nRtc'[pcSrv] = nRtc[pcSrv] + 1
        /\ \A r \in RtcWorkers : r # pcSrv => nRtc'[r] = nRtc[r]
    BY <1>0, <1>3 DEF NotifyRtcWorker
  <2>2. ASSUME NEW r \in RtcWorkers
        PROVE  Len(qRtc'[r]) = nRtc'[r] + (IF pcSrv' = r THEN 1 ELSE 0)
    <3>1. Len(qRtc[r]) = nRtc[r] + (IF pcSrv = r THEN 1 ELSE 0)
      BY DEF RtcWakeups
    <3>2. pcSrv' # r
      BY <1>0, <2>1
    <3> QED BY <1>0, <2>1, <3>1, <3>2
  <2> QED BY <2>2 DEF RtcWakeups
<1>4. ASSUME NEW x \in RtcWorkers, ServeRtcMsg(x) PROVE RtcWakeups'
  <2>1. /\ nRtc[x] > 0 /\ nRtc'[x] = nRtc[x] - 1 /\ pcSrv' = pcSrv
        /\ \A r \in RtcWorkers : r # x => nRtc'[r] = nRtc[r]
    BY <1>0, <1>4 DEF ServeRtcMsg
  <2>2. Len(qRtc[x]) > 0
    BY <1>0, <2>1 DEF RtcWakeups
  <2>3. qRtc[x] # <<>>
    BY <2>2
  <2>4. qRtc'[x] = Tail(qRtc[x]) /\ \A r \in RtcWorkers : r # x => qRtc'[r] = qRtc[r]
    BY <1>0, <1>4, <2>3 DEF ServeRtcMsg
  <2>5. Len(qRtc'[x]) = Len(qRtc[x]) - 1
    BY <1>0, <2>3, <2>4, TailOf
  <2>6. ASSUME NEW r \in RtcWorkers
        PROVE  Len(qRtc'[r]) = nRtc'[r] + (IF pcSrv' = r THEN 1 ELSE 0)
    <3> DEFINE k == IF pcSrv = r THEN 1 ELSE 0
    <3>1. Len(qRtc[r]) = nRtc[r] + k /\ k \in Nat /\ k' = k
      BY <2>1 DEF RtcWakeups
    <3> HIDE DEF k
    <3>2. \/ Len(qRtc'[r]) = Len(qRtc[r]) - 1 /\ nRtc'[r] = nRtc[r] - 1
          \/ Len(qRtc'[r]) = Len(qRtc[r]) /\ nRtc'[r] = nRtc[r]
      BY <2>1, <2>4, <2>5
    <3>3. Len(qRtc[r]) \in Nat /\ nRtc[r] \in Nat
      BY <1>0
    <3>4. Len(qRtc'[r]) = nRtc'[r] + k
      BY <3>1, <3>2, <3>3
    <3> QED BY <3>1, <3>4 DEF k
  <2> QED BY <2>6 DEF RtcWakeups
<1>5. CASE UNCHANGED vars
  BY <1>1, <1>5 DEF vars, rtcVars
<1>6. CASE SignalingServerNext
  BY <1>1, <1>6 DEF SignalingServerNext, AcceptNewConn, NotifyNewConn, rtcVars
<1>7. ASSUME NEW w \in SigWorkers, SigWorkerNext(w) PROVE RtcWakeups'
  BY <1>1, <1>7 DEF SigWorkerNext, HandleNewConn, NotifyRtcServer, RemoveConnection,
     ProcessRtcMsg, WriteReply, WriteFails, ReadRequest, RejectUnknownCmd, ReadFails,
     ProcessTimeout, BeginWrite, rtcVars
<1>8. CASE DropWithoutCertificate
  BY <1>1, <1>8 DEF DropWithoutCertificate, rtcVars
<1>9. ASSUME NEW r \in RtcWorkers, NotifySigWorker(r) PROVE RtcWakeups'
  BY <1>1, <1>9 DEF NotifySigWorker, rtcVars
<1> QED BY <1>2, <1>3, <1>4, <1>5, <1>6, <1>7, <1>8, <1>9 DEF Next, RtcServerNext, RtcWorkerNext

(* SignalingWorker::q_msg_: several RtcWorkers may stand between push_msg  *)
(* and notify for the same signaling worker.                               *)
LEMMA SigWakeupsStep ==
    ASSUME MInv, SigWakeups, [Next]_vars
    PROVE  SigWakeups'
<1>0. /\ \A w \in SigWorkers :
            /\ qSig[w] \in Seq(RtcMsgType) /\ Len(qSig[w]) \in Nat /\ nSig[w] \in Nat
            /\ IsFiniteSet(Answering(w)) /\ Cardinality(Answering(w)) \in Nat
      /\ DOMAIN qSig = SigWorkers /\ DOMAIN nSig = SigWorkers
      /\ pcRtc \in [RtcWorkers -> SigWorkers \cup {null}] /\ null \notin SigWorkers
  <2>1. \A w \in SigWorkers : Answering(w) \in SUBSET RtcWorkers
    BY DEF Answering
  <2>2. \A w \in SigWorkers : IsFiniteSet(Answering(w)) /\ Cardinality(Answering(w)) \in Nat
    BY <2>1, FiniteAssumption, FS_Subset, FS_CardinalityType
  <2>3. null \notin SigWorkers
    BY DEF SigWorkers
  <2> QED BY <2>2, <2>3 DEF MInv, MsgTypes
<1>1. CASE qSig' = qSig /\ nSig' = nSig /\ pcRtc' = pcRtc
  BY <1>1 DEF SigWakeups, Answering
<1>2. ASSUME NEW x \in SigWorkers, ProcessRtcMsg(x) PROVE SigWakeups'
  <2>1. /\ nSig[x] > 0 /\ nSig'[x] = nSig[x] - 1 /\ pcRtc' = pcRtc
        /\ \A w \in SigWorkers : w # x => nSig'[w] = nSig[w]
    BY <1>0, <1>2 DEF ProcessRtcMsg
  <2>2. Len(qSig[x]) > 0
    BY <1>0, <2>1 DEF SigWakeups
  <2>3. qSig[x] # <<>>
    BY <2>2
  <2>4. qSig'[x] = Tail(qSig[x]) /\ \A w \in SigWorkers : w # x => qSig'[w] = qSig[w]
    BY <1>0, <1>2, <2>3 DEF ProcessRtcMsg
  <2>5. Len(qSig'[x]) = Len(qSig[x]) - 1
    BY <1>0, <2>3, <2>4, TailOf
  <2>6. ASSUME NEW w \in SigWorkers
        PROVE  Len(qSig'[w]) = nSig'[w] + Cardinality(Answering(w)')
    <3> DEFINE k == Cardinality(Answering(w))
    <3>1. k \in Nat /\ Len(qSig[w]) = nSig[w] + k /\ Len(qSig[w]) \in Nat /\ nSig[w] \in Nat
      BY <1>0 DEF SigWakeups
    <3>2. k' = k
      BY <2>1 DEF Answering
    <3> HIDE DEF k
    <3>3. \/ Len(qSig'[w]) = Len(qSig[w]) - 1 /\ nSig'[w] = nSig[w] - 1
          \/ Len(qSig'[w]) = Len(qSig[w]) /\ nSig'[w] = nSig[w]
      BY <2>1, <2>4, <2>5
    <3>4. Len(qSig'[w]) = nSig'[w] + k
      BY <3>1, <3>3
    <3> QED BY <3>2, <3>4 DEF k
  <2> QED BY <2>6 DEF SigWakeups
<1>3. ASSUME NEW r \in RtcWorkers, ServeRtcMsg(r) PROVE SigWakeups'
  <2>1. pcRtc[r] = null /\ nSig' = nSig
    BY <1>3 DEF ServeRtcMsg
  <2>2. CASE qRtc[r] = <<>> \/ ~SentBack(Head(qRtc[r]))
    BY <1>1, <1>3, <2>1, <2>2 DEF ServeRtcMsg
  <2>3. CASE qRtc[r] # <<>> /\ SentBack(Head(qRtc[r]))
    <3> DEFINE m == Head(qRtc[r])
               x == m.worker
    <3>1. qRtc[r] \in Seq(RtcMsgType)
      BY DEF MInv, MsgTypes
    <3>2. m \in RtcMsgType
      BY <2>3, <3>1, TailOf
    <3>3. x \in SigWorkers
      BY <3>2 DEF RtcMsgType
    <3>4. qSig' = [qSig EXCEPT ![x] = Append(@, m)] /\ pcRtc' = [pcRtc EXCEPT ![r] = x]
      BY <1>3, <2>3 DEF ServeRtcMsg
    <3> HIDE DEF m, x
    <3>5. /\ Len(qSig'[x]) = Len(qSig[x]) + 1
          /\ \A w \in SigWorkers : w # x => qSig'[w] = qSig[w]
      BY <1>0, <3>2, <3>3, <3>4, AppendTo
    <3>6. /\ r \notin Answering(x)
          /\ {y \in RtcWorkers : pcRtc'[y] = x} = Answering(x) \cup {r}
          /\ \A w \in SigWorkers : w # x => {y \in RtcWorkers : pcRtc'[y] = w} = Answering(w)
      BY <1>0, <2>1, <3>3, <3>4 DEF Answering
    <3>7. Cardinality(Answering(x) \cup {r}) = Cardinality(Answering(x)) + 1
      BY <1>0, <3>3, <3>6, FS_AddElement
    <3>8. ASSUME NEW w \in SigWorkers
          PROVE  Len(qSig'[w]) = nSig'[w] + Cardinality({y \in RtcWorkers : pcRtc'[y] = w})
      <4>1. Len(qSig[w]) = nSig[w] + Cardinality(Answering(w))
        BY DEF SigWakeups
      <4>2. CASE w = x
        <5>1. Len(qSig[x]) \in Nat /\ nSig[x] \in Nat /\ Cardinality(Answering(x)) \in Nat
          BY <1>0, <3>3
        <5>2. Len(qSig'[x]) = nSig'[x] + Cardinality(Answering(x) \cup {r})
          BY <2>1, <3>5, <3>7, <4>1, <4>2, <5>1
        <5> QED BY <3>6, <4>2, <5>2
      <4>3. CASE w # x
        BY <1>0, <2>1, <3>5, <3>6, <4>1, <4>3
      <4> QED BY <4>2, <4>3
    <3> QED BY <3>8 DEF SigWakeups, Answering
  <2> QED BY <2>2, <2>3
<1>4. ASSUME NEW r \in RtcWorkers, NotifySigWorker(r) PROVE SigWakeups'
  <2> DEFINE x == pcRtc[r]
  <2>1. /\ x \in SigWorkers /\ qSig' = qSig /\ nSig'[x] = nSig[x] + 1
        /\ \A w \in SigWorkers : w # x => nSig'[w] = nSig[w]
        /\ pcRtc' = [pcRtc EXCEPT ![r] = null]
    BY <1>0, <1>4 DEF NotifySigWorker
  <2>2. /\ r \in Answering(x)
        /\ {y \in RtcWorkers : pcRtc'[y] = x} = Answering(x) \ {r}
        /\ \A w \in SigWorkers : w # x => {y \in RtcWorkers : pcRtc'[y] = w} = Answering(w)
    BY <1>0, <2>1 DEF Answering
  <2> HIDE DEF x
  <2>3. Cardinality(Answering(x) \ {r}) = Cardinality(Answering(x)) - 1
    BY <1>0, <2>1, <2>2, FS_RemoveElement
  <2>4. ASSUME NEW w \in SigWorkers
        PROVE  Len(qSig'[w]) = nSig'[w] + Cardinality({y \in RtcWorkers : pcRtc'[y] = w})
    <3>1. Len(qSig[w]) = nSig[w] + Cardinality(Answering(w))
      BY DEF SigWakeups
    <3>2. CASE w = x
      <4>1. Len(qSig[x]) \in Nat /\ nSig[x] \in Nat /\ Cardinality(Answering(x)) \in Nat
        BY <1>0, <2>1
      <4>2. Len(qSig'[x]) = nSig'[x] + Cardinality(Answering(x) \ {r})
        BY <2>1, <2>3, <3>1, <3>2, <4>1
      <4> QED BY <2>2, <3>2, <4>2
    <3>3. CASE w # x
      BY <1>0, <2>1, <2>2, <3>1, <3>3
    <3> QED BY <3>2, <3>3
  <2> QED BY <2>4 DEF SigWakeups, Answering
<1>5. CASE UNCHANGED vars
  BY <1>1, <1>5 DEF vars, sigVars
<1>6. CASE SignalingServerNext
  BY <1>1, <1>6 DEF SignalingServerNext, AcceptNewConn, NotifyNewConn, sigVars
<1>7. ASSUME NEW w \in SigWorkers, SigWorkerNext(w) PROVE SigWakeups'
  <2>1. ProcessRtcMsg(w) \/ (qSig' = qSig /\ nSig' = nSig /\ pcRtc' = pcRtc)
    BY <1>7 DEF SigWorkerNext, HandleNewConn, NotifyRtcServer, RemoveConnection,
       WriteReply, WriteFails, ReadRequest, RejectUnknownCmd, ReadFails,
       ProcessTimeout, BeginWrite, sigVars
  <2> QED BY <1>1, <1>2, <2>1
<1>8. CASE RtcServerNext
  BY <1>1, <1>8 DEF RtcServerNext, RouteRtcMsg, DropWithoutCertificate, NotifyRtcWorker, sigVars
<1> QED BY <1>3, <1>4, <1>5, <1>6, <1>7, <1>8 DEF Next, RtcWorkerNext

(* No notification is lost: for any number of workers and any capacity of  *)
(* the pipes, every queue of the path holds as many elements as its pipe   *)
(* announces and its producers are about to announce.                      *)
THEOREM Wakeups == Spec => []NoLostWakeup
<1> DEFINE W == ConnWakeups /\ SrvWakeups /\ RtcWakeups /\ SigWakeups
<1>1. Init => W
  <2> SUFFICES ASSUME Init PROVE W
    OBVIOUS
  <2>1. Notifying = {} /\ \A w \in SigWorkers : Answering(w) = {}
    <3>1. null \notin SigWorkers
      BY DEF SigWorkers
    <3> QED BY <3>1 DEF Init, Idle, Notifying, Answering
  <2>2. Cardinality({}) = 0 /\ null \notin SigWorkers
    BY FS_EmptySet DEF SigWorkers
  <2>3. ConnWakeups
    BY <2>2 DEF Init, ConnWakeups
  <2>4. SrvWakeups
    BY <2>1, <2>2 DEF Init, SrvWakeups
  <2>5. RtcWakeups
    BY DEF Init, RtcWakeups
  <2>6. SigWakeups
    <3>1. ASSUME NEW w \in SigWorkers PROVE Len(qSig[w]) = nSig[w] + Cardinality(Answering(w))
      <4>1. qSig[w] = <<>> /\ nSig[w] = 0 /\ Cardinality(Answering(w)) = 0
        BY <2>1, <2>2 DEF Init
      <4> QED BY <4>1
    <3> QED BY <3>1 DEF SigWakeups
  <2> QED BY <2>3, <2>4, <2>5, <2>6
<1>2. CInv /\ MInv /\ W /\ [Next]_vars => W'
  BY ConnWakeupsStep, SrvWakeupsStep, RtcWakeupsStep, SigWakeupsStep
<1>3. W => NoLostWakeup
  BY DEF ConnWakeups, SrvWakeups, RtcWakeups, SigWakeups, Notifying, Answering, NoLostWakeup
<1> HIDE DEF W
<1> QED BY <1>1, <1>2, <1>3, Inductive, PTL DEF Spec

-----------------------------------------------------------------------------
(* Requests.  A TcpConnection carries one request: until _process_request  *)
(* has seen it the client has asked nothing, and afterwards the connection *)
(* is deaf, closing, or its worker is still in the handler.                *)
Listening(w, fd) ==
    /\ conns[w][fd] # null
    /\ heap[conns[w][fd]].state = "head"
    /\ ~(pcSig[w].conn = conns[w][fd] /\ pcSig[w].at \in {"notify", "remove"})

Fresh ==
    /\ \A v \in SigWorkers : \A i \in 1 .. Len(qConn[v]) :
          request[owner[qConn[v][i]]] = "none"
    /\ \A w \in SigWorkers, fd \in Fds :
          Listening(w, fd) => request[heap[conns[w][fd]].client] = "none"
    /\ \A w \in SigWorkers : pcSig[w].at = "notify" =>
          request[heap[pcSig[w].conn].client] \in Cmds

(* Two connections never have the same client.                             *)
LEMMA OneConnection ==
    ASSUME CInv, NEW a \in Addrs, NEW b \in Addrs, heap[a] # null, heap[b] # null,
           heap[a].client = heap[b].client
    PROVE  a = b
<1>1. Seat(heap[a].worker, heap[a].fd, a) = Seat(heap[b].worker, heap[b].fd, b)
  BY DEF CInv, ConnInv, Slots
<1> QED BY <1>1 DEF Seat

(* What each handler does to the connection it is about.                   *)
LEMMA ReadRequestEffect ==
    ASSUME CInv, NEW w \in SigWorkers, NEW fd \in Fds, NEW cmd \in Cmds, NEW s \in Streams,
           ReadRequest(w, fd, cmd, s)
    PROVE  /\ owner' = owner /\ got' = got /\ qConn' = qConn /\ conns' = conns /\ heap' = heap
           /\ owner[fd] \in Conns /\ conns[w][fd] \in Addrs
           /\ owner[fd] = heap[conns[w][fd]].client
           /\ Listening(w, fd)
           /\ request'[owner[fd]] = cmd
           /\ \A c \in Conns : c # owner[fd] => request'[c] = request[c]
           /\ pcSig'[w].at = "notify" /\ pcSig'[w].conn = conns[w][fd] /\ pcSig[w].at = "idle"
           /\ \A v \in SigWorkers : v # w => pcSig'[v] = pcSig[v]
<1>1. /\ Watched(w, fd) /\ owner' = owner /\ heap' = heap /\ conns' = conns /\ qConn' = qConn
      /\ got' = got /\ heap[conns[w][fd]].state = "head"
      /\ request' = [request EXCEPT ![owner[fd]] = cmd]
      /\ pcSig' = [pcSig EXCEPT ![w] = [at |-> "notify", conn |-> conns[w][fd]]]
  BY DEF ReadRequest, connVars, objVars, placeVars
<1>2. /\ owner[fd] \in Conns /\ conns[w][fd] \in Addrs /\ pcSig[w].at = "idle"
      /\ owner[fd] = heap[conns[w][fd]].client
  BY <1>1, WatchedFd
<1>3. Listening(w, fd)
  BY <1>1, <1>2 DEF Listening, Watched
<1>4. /\ request'[owner[fd]] = cmd /\ \A c \in Conns : c # owner[fd] => request'[c] = request[c]
  BY <1>1, <1>2 DEF CInv, ConnTypes
<1>5. /\ pcSig'[w].at = "notify" /\ pcSig'[w].conn = conns[w][fd]
      /\ \A v \in SigWorkers : v # w => pcSig'[v] = pcSig[v]
  BY <1>1 DEF CInv, ConnTypes
<1> QED BY <1>1, <1>2, <1>3, <1>4, <1>5

(* d's answer joins the replies of the connection at a.                    *)
Replied(a, d) ==
    /\ heap[a] # null /\ heap'[a] # null /\ heap'[a].client = heap[a].client
    /\ heap'[a].replies = Append(heap[a].replies, d)
    /\ \A b \in Addrs : b # a => heap'[b] = heap[b]

LEMMA RejectUnknownCmdEffect ==
    ASSUME CInv, NEW w \in SigWorkers, NEW fd \in Fds, RejectUnknownCmd(w, fd)
    PROVE  /\ got' = got /\ qConn' = qConn /\ conns' = conns
           /\ owner[fd] \in Conns /\ conns[w][fd] \in Addrs
           /\ owner[fd] = heap[conns[w][fd]].client
           /\ Listening(w, fd)
           /\ owner'[fd] = null /\ \A f \in Fds : f # fd => owner'[f] = owner[f]
           /\ request'[owner[fd]] = "unknown"
           /\ \A c \in Conns : c # owner[fd] => request'[c] = request[c]
           /\ Replied(conns[w][fd], owner[fd])
           /\ heap'[conns[w][fd]].state = heap[conns[w][fd]].state
           /\ pcSig'[w].at = "remove" /\ pcSig'[w].conn = conns[w][fd] /\ pcSig[w].at = "idle"
           /\ \A v \in SigWorkers : v # w => pcSig'[v] = pcSig[v]
<1>1. /\ Watched(w, fd) /\ conns' = conns /\ qConn' = qConn
      /\ got' = got /\ heap[conns[w][fd]].state = "head"
      /\ request' = [request EXCEPT ![owner[fd]] = "unknown"]
      /\ heap' = AddReply(conns[w][fd], owner[fd])
      /\ CloseFd(w, conns[w][fd])
  BY DEF RejectUnknownCmd, connVars, placeVars
<1>2. /\ owner[fd] \in Conns /\ conns[w][fd] \in Addrs /\ pcSig[w].at = "idle"
      /\ owner[fd] = heap[conns[w][fd]].client /\ heap[conns[w][fd]] # null
      /\ heap[conns[w][fd]].fd = fd
  BY <1>1, WatchedFd
<1>3. Listening(w, fd)
  BY <1>1, <1>2 DEF Listening, Watched
<1>4. /\ request'[owner[fd]] = "unknown"
      /\ \A c \in Conns : c # owner[fd] => request'[c] = request[c]
  BY <1>1, <1>2 DEF CInv, ConnTypes
<1>5. /\ pcSig' = [pcSig EXCEPT ![w] = [at |-> "remove", conn |-> conns[w][fd]]]
      /\ owner' = [owner EXCEPT ![fd] = null]
  BY <1>1, <1>2 DEF CloseFd
<1>6. /\ pcSig'[w].at = "remove" /\ pcSig'[w].conn = conns[w][fd]
      /\ \A v \in SigWorkers : v # w => pcSig'[v] = pcSig[v]
      /\ owner'[fd] = null /\ \A f \in Fds : f # fd => owner'[f] = owner[f]
  BY <1>5 DEF CInv, ConnTypes
<1>7. /\ Replied(conns[w][fd], owner[fd])
      /\ heap'[conns[w][fd]].state = heap[conns[w][fd]].state
  <2> DEFINE a == conns[w][fd]
             d == owner[fd]
  <2>1. a \in Addrs /\ heap[a] # null /\ d \in Conns /\ heap' = AddReply(a, d)
        /\ seat[d] = seat[heap[a].client]
    BY <1>1, <1>2
  <2> HIDE DEF a, d
  <2>2. /\ \A b \in Addrs : b # a => heap'[b] = heap[b]
        /\ heap'[a] # null
        /\ heap'[a].client = heap[a].client /\ heap'[a].state = heap[a].state
        /\ heap'[a].replies = Append(heap[a].replies, d)
    BY <2>1, ReplyAdded
  <2>3. Replied(a, d) /\ heap'[a].state = heap[a].state
    BY <2>1, <2>2 DEF Replied
  <2> QED BY <2>3 DEF a, d
<1> QED BY <1>1, <1>2, <1>3, <1>4, <1>6, <1>7

LEMMA NotifyRtcServerEffect ==
    ASSUME CInv, NEW w \in SigWorkers, NotifyRtcServer(w)
    PROVE  /\ owner' = owner /\ request' = request /\ got' = got /\ qConn' = qConn
           /\ conns' = conns
           /\ pcSig[w].at = "notify" /\ pcSig[w].conn \in Addrs
           /\ heap[pcSig[w].conn].client \in Conns
           /\ heap'[pcSig[w].conn].state = "done"
           /\ heap'[pcSig[w].conn].client = heap[pcSig[w].conn].client
           /\ heap[pcSig[w].conn] # null /\ heap'[pcSig[w].conn] # null
           /\ \A b \in Addrs : b # pcSig[w].conn => heap'[b] = heap[b]
           /\ IF request[heap[pcSig[w].conn].client] \in StopCmds
              THEN Replied(pcSig[w].conn, heap[pcSig[w].conn].client)
              ELSE heap'[pcSig[w].conn].replies = heap[pcSig[w].conn].replies
           /\ pcSig'[w] = Idle /\ pcSig'[w].at = "idle"
           /\ \A v \in SigWorkers : v # w => pcSig'[v] = pcSig[v]
<1> DEFINE a == pcSig[w].conn
           c == heap[a].client
           h == IF request[c] \in StopCmds THEN AddReply(a, c) ELSE heap
           n == [h[a] EXCEPT !.state = "done"]
<1>1. /\ pcSig[w].at = "notify" /\ owner' = owner /\ heap' = Deaf(h, a)
      /\ pcSig' = [pcSig EXCEPT ![w] = Idle]
      /\ conns' = conns /\ qConn' = qConn /\ request' = request /\ got' = got
  BY DEF NotifyRtcServer, connVars, clientVars, placeVars
<1>2. a \in Addrs /\ heap[a] # null /\ c \in Conns /\ heap[a] \in TcpConnectionType
  BY <1>1, Typed DEF CInv, ConnInv, Threads
<1> HIDE DEF a, c
<1>3. /\ h \in [Addrs -> TcpConnectionType \cup {null}]
      /\ \A b \in Addrs : b # a => h[b] = heap[b]
      /\ h[a] # null /\ h[a].client = heap[a].client
      /\ request[c] \in StopCmds => h[a].replies = Append(heap[a].replies, c)
      /\ request[c] \notin StopCmds => h[a].replies = heap[a].replies
  <2>1. CASE request[c] \in StopCmds
    BY <1>2, <2>1, ReplyAdded DEF c
  <2>2. CASE request[c] \notin StopCmds
    BY <1>2, <2>2 DEF CInv, ConnTypes
  <2> QED BY <2>1, <2>2
<1> HIDE DEF h
<1>4. h[a] \in TcpConnectionType
  BY <1>2, <1>3
<1>5. /\ n \in TcpConnectionType /\ n.client = h[a].client /\ n.state = "done"
      /\ n.replies = h[a].replies
  BY <1>4 DEF TcpConnectionType
<1>6. heap' = [h EXCEPT ![a] = n]
  BY <1>1, <1>3 DEF Deaf
<1> HIDE DEF n
<1>7. /\ \A b \in Addrs : b # a => heap'[b] = heap[b]
      /\ heap'[a] = n /\ n # null
  BY <1>2, <1>3, <1>5, <1>6
<1>8. pcSig'[w] = Idle /\ pcSig'[w].at = "idle" /\ \A v \in SigWorkers : v # w => pcSig'[v] = pcSig[v]
  BY <1>1 DEF CInv, ConnTypes, Idle
<1>9. IF request[c] \in StopCmds THEN Replied(a, c) ELSE heap'[a].replies = heap[a].replies
  BY <1>2, <1>3, <1>5, <1>7 DEF Replied
<1> QED BY <1>1, <1>2, <1>3, <1>5, <1>7, <1>8, <1>9 DEF a, c

LEMMA ProcessRtcMsgEffect ==
    ASSUME CInv, MInv, NEW w \in SigWorkers, ProcessRtcMsg(w)
    PROVE  /\ owner' = owner /\ request' = request /\ got' = got /\ qConn' = qConn
           /\ conns' = conns /\ pcSig' = pcSig
           /\ \/ qSig' = qSig /\ heap' = heap
              \/ /\ qSig[w] # <<>> /\ qSig' = [qSig EXCEPT ![w] = Tail(@)]
                 /\ \/ heap' = heap
                    \/ \E a \in Addrs : /\ Replied(a, Head(qSig[w]).from)
                                        /\ heap'[a].state = heap[a].state
<1> DEFINE m == Head(qSig[w])
<1>1. /\ owner' = owner /\ request' = request /\ got' = got /\ qConn' = qConn
      /\ conns' = conns /\ pcSig' = pcSig
  BY DEF ProcessRtcMsg, connVars, clientVars, placeVars
<1>2. CASE qSig[w] = <<>>
  BY <1>1, <1>2 DEF ProcessRtcMsg
<1>3. CASE qSig[w] # <<>> /\ ReplyTarget(w, m) = null
  BY <1>1, <1>3 DEF ProcessRtcMsg
<1>4. CASE qSig[w] # <<>> /\ ReplyTarget(w, m) # null
  <2>1. /\ qSig[w] \in Seq(RtcMsgType) /\ m = qSig[w][1] /\ 1 \in 1 .. Len(qSig[w])
        /\ m \in RtcMsgType
    BY <1>4, TailOf DEF MInv, MsgTypes
  <2>2. seat[m.from] = Seat(w, m.fd, m.conn)
    BY <2>1 DEF MInv, Messages, Told
  <2>3. qSig' = [qSig EXCEPT ![w] = Tail(@)] /\ heap' = AddReply(ReplyTarget(w, m), m.from)
    BY <1>4 DEF ProcessRtcMsg
  <2> HIDE DEF m
  <2> DEFINE a == m.conn
             d == m.from
  <2>4. d \in Conns /\ m.fd \in Fds /\ a \in Addrs
    BY <2>1 DEF RtcMsgType
  <2>5. a = conns[w][m.fd] /\ heap' = AddReply(a, d)
    BY <1>4, <2>3 DEF ReplyTarget, Inside
  <2>6. heap[a] # null /\ seat[heap[a].client] = Seat(w, m.fd, a)
    BY <2>4, <2>5 DEF CInv, ConnInv, Slots
  <2>7. seat[d] = seat[heap[a].client]
    BY <2>2, <2>6
  <2>8. a \in Addrs /\ heap[a] # null /\ d \in Conns /\ heap' = AddReply(a, d)
        /\ seat[d] = seat[heap[a].client]
    BY <2>4, <2>5, <2>6, <2>7
  <2> HIDE DEF a, d
  <2>9. /\ \A b \in Addrs : b # a => heap'[b] = heap[b]
        /\ heap'[a] # null
        /\ heap'[a].client = heap[a].client /\ heap'[a].state = heap[a].state
        /\ heap'[a].replies = Append(heap[a].replies, d)
    BY <2>8, ReplyAdded
  <2>10. Replied(a, d) /\ heap'[a].state = heap[a].state
    BY <2>6, <2>9 DEF Replied
  <2> QED BY <1>1, <1>4, <2>3, <2>4, <2>10 DEF m, d
<1> QED BY <1>2, <1>3, <1>4

LEMMA WriteReplyEffect ==
    ASSUME CInv, NEW w \in SigWorkers, WriteReply(w)
    PROVE  /\ owner' = owner /\ request' = request /\ qConn' = qConn /\ conns' = conns
           /\ pcSig'[w] = Idle \/ pcSig'[w] = pcSig[w]
           /\ pcSig'[w].at # "notify"
           /\ \A v \in SigWorkers : v # w => pcSig'[v] = pcSig[v]
           /\ pcSig[w].at = "write" /\ pcSig[w].conn \in Addrs
           /\ \E c \in Conns, a \in Addrs :
                 /\ heap[a] # null /\ heap'[a] # null
                 /\ heap[a].replies \in Seq(Conns) /\ heap[a].replies # <<>>
                 /\ heap'[a].client = heap[a].client /\ heap'[a].state = heap[a].state
                 /\ heap'[a].replies = Tail(heap[a].replies)
                 /\ \A b \in Addrs : b # a => heap'[b] = heap[b]
                 /\ got'[c] = Append(got[c], Head(heap[a].replies))
                 /\ \A d \in Conns : d # c => got'[d] = got[d]
<1> DEFINE a == pcSig[w].conn
           c == owner[heap[a].fd]
           q == heap[a].replies
           n == [heap[a] EXCEPT !.replies = Tail(q)]
<1>1. /\ pcSig[w].at = "write" /\ owner' = owner
      /\ got' = [got EXCEPT ![c] = Append(@, Head(q))]
      /\ heap' = [heap EXCEPT ![a].replies = Tail(@)]
      /\ pcSig' = IF Tail(q) = <<>> THEN [pcSig EXCEPT ![w] = Idle] ELSE pcSig
      /\ conns' = conns /\ qConn' = qConn /\ request' = request
  BY DEF WriteReply, connVars, placeVars
<1>2. /\ a \in Addrs /\ heap[a] # null /\ heap[a] \in TcpConnectionType /\ q # <<>>
      /\ q \in Seq(Conns) /\ heap[a].fd \in Fds /\ heap[a].worker = w
      /\ heap[a].client \in Conns
  BY <1>1, Typed DEF CInv, ConnInv, Threads
<1>3. c = heap[a].client
  <2>1. Holds(a)
    BY <1>1, <1>2, Typed DEF Holds, CInv
  <2> QED BY <1>2, <2>1 DEF CInv, ConnInv, FdBelongsToClient
<1>4. heap' = [heap EXCEPT ![a] = n]
  BY <1>1, <1>2 DEF CInv, ConnTypes
<1>5. /\ n \in TcpConnectionType /\ n.client = heap[a].client /\ n.state = heap[a].state
      /\ n.replies = Tail(q)
  <2>1. Tail(q) \in Seq(Conns)
    BY <1>2, TailOf
  <2> QED BY <1>2, <2>1 DEF TcpConnectionType
<1>6. /\ pcSig'[w] = Idle \/ pcSig'[w] = pcSig[w]
      /\ \A v \in SigWorkers : v # w => pcSig'[v] = pcSig[v]
  <2>1. pcSig \in [SigWorkers -> PcSigType]
    BY DEF CInv, ConnTypes
  <2>2. CASE Tail(q) = <<>>
    BY <1>1, <2>1, <2>2
  <2>3. CASE Tail(q) # <<>>
    BY <1>1, <2>3
  <2> QED BY <2>2, <2>3
<1>7. pcSig'[w].at # "notify"
  <2>1. Idle.at = "idle" /\ pcSig[w].at = "write"
    BY <1>1 DEF Idle
  <2> QED BY <1>6, <2>1
<1> HIDE DEF a, c, q, n
<1>8. /\ \A b \in Addrs : b # a => heap'[b] = heap[b]
      /\ heap'[a] = n /\ n # null
  BY <1>2, <1>4, <1>5 DEF CInv, ConnTypes
<1>9. c \in Conns /\ got'[c] = Append(got[c], Head(q)) /\ \A d \in Conns : d # c => got'[d] = got[d]
  BY <1>1, <1>2, <1>3 DEF CInv, ConnTypes
<1>10. /\ heap[a] # null /\ heap'[a] # null
       /\ heap[a].replies \in Seq(Conns) /\ heap[a].replies # <<>>
       /\ heap'[a].client = heap[a].client /\ heap'[a].state = heap[a].state
       /\ heap'[a].replies = Tail(heap[a].replies)
       /\ got'[c] = Append(got[c], Head(heap[a].replies))
  BY <1>2, <1>5, <1>8, <1>9 DEF q
<1> QED BY <1>1, <1>2, <1>6, <1>7, <1>8, <1>9, <1>10 DEF a

LEMMA HandleNewConnEffect ==
    ASSUME CInv, NEW w \in SigWorkers, NEW a \in Addrs, HandleNewConn(w, a)
    PROVE  /\ owner' = owner /\ request' = request /\ got' = got /\ pcSig' = pcSig
           /\ \/ qConn' = qConn /\ conns' = conns /\ heap' = heap
              \/ /\ qConn[w] \in Seq(Fds) /\ qConn[w] # <<>> /\ qConn'[w] = Tail(qConn[w])
                 /\ \A v \in SigWorkers : v # w => qConn'[v] = qConn[v]
                 /\ heap[a] = null /\ heap'[a] # null
                 /\ heap'[a].client = owner[Head(qConn[w])] /\ heap'[a].replies = <<>>
                 /\ \A b \in Addrs : b # a => heap'[b] = heap[b]
                 /\ Head(qConn[w]) \in Fds /\ conns'[w][Head(qConn[w])] \in {a, null}
                 /\ \A v \in SigWorkers, f \in Fds :
                       v # w \/ f # Head(qConn[w]) => conns'[v][f] \in {conns[v][f], null}
                 /\ \A v \in SigWorkers, f \in Fds : conns[v][f] # a
<1> USE Typed DEF CInv, ConnInv
<1>1. owner' = owner /\ request' = request /\ got' = got /\ pcSig' = pcSig
  BY DEF HandleNewConn, clientVars
<1>2. CASE qConn[w] = <<>>
  BY <1>1, <1>2 DEF HandleNewConn, objVars, placeVars
<1>3. CASE qConn[w] # <<>>
  <2> DEFINE fd == Head(qConn[w])
             n == TcpConnection(owner[fd], w, fd)
  <2>1. /\ heap[a] = null
        /\ qConn' = [qConn EXCEPT ![w] = Tail(@)]
        /\ heap' = [heap EXCEPT ![a] = n]
    BY <1>3 DEF HandleNewConn
  <2>2. qConn[w] \in Seq(Fds) /\ 1 \in 1 .. Len(qConn[w]) /\ fd = qConn[w][1] /\ fd \in Fds
    BY <1>3, TailOf
  <2>3. n.client = owner[fd] /\ n.replies = <<>>
    BY DEF TcpConnection
  <2>4. n \in TcpConnectionType
    <3>1. <<>> \in Seq(Conns) /\ owner[fd] \in Conns
      BY <2>2 DEF Waiting
    <3> QED BY <2>2, <3>1 DEF TcpConnection, TcpConnectionType
  <2>5. \A v \in SigWorkers, f \in Fds : conns[v][f] # a
    BY <2>1 DEF Slots
  <2> HIDE DEF fd, n
  <2>6. /\ heap'[a] = n /\ \A b \in Addrs : b # a => heap'[b] = heap[b]
        /\ qConn'[w] = Tail(qConn[w]) /\ \A v \in SigWorkers : v # w => qConn'[v] = qConn[v]
    BY <2>1, <2>2 DEF ConnTypes
  <2>8. /\ conns'[w][fd] \in {a, null}
        /\ \A v \in SigWorkers, f \in Fds :
              v # w \/ f # fd => conns'[v][f] \in {conns[v][f], null}
    BY <1>3, HandleNewConnTable DEF fd
  <2>7. heap'[a] # null
    BY <2>4, <2>6
  <2> QED BY <1>1, <1>3, <2>1, <2>2, <2>3, <2>5, <2>6, <2>7, <2>8 DEF fd
<1> QED BY <1>2, <1>3

LEMMA RemoveConnectionEffect ==
    ASSUME CInv, NEW w \in SigWorkers, RemoveConnection(w)
    PROVE  /\ owner' = owner /\ request' = request /\ got' = got /\ qConn' = qConn
           /\ pcSig[w].at = "remove" /\ pcSig[w].conn \in Addrs
           /\ pcSig'[w] = Idle /\ \A v \in SigWorkers : v # w => pcSig'[v] = pcSig[v]
           /\ heap'[pcSig[w].conn] = null
           /\ \A b \in Addrs : b # pcSig[w].conn => heap'[b] = heap[b]
           /\ \A v \in SigWorkers, f \in Fds : conns'[v][f] # null =>
                 conns'[v][f] = conns[v][f] /\ conns[v][f] # pcSig[w].conn
<1> USE Typed DEF CInv, ConnInv
<1> DEFINE a == pcSig[w].conn
           fd == heap[a].fd
<1>1. /\ pcSig[w].at = "remove"
      /\ conns' = [conns EXCEPT ![w][fd] = null]
      /\ heap' = [heap EXCEPT ![a] = null]
      /\ pcSig' = [pcSig EXCEPT ![w] = Idle]
      /\ qConn' = qConn /\ request' = request /\ owner' = owner /\ got' = got
  BY DEF RemoveConnection, connVars, clientVars, placeVars
<1>2. a \in Addrs /\ heap[a] # null /\ fd \in Fds /\ heap[a].worker = w /\ heap[a].fd = fd
  BY <1>1 DEF Threads
<1> HIDE DEF fd, a
<1>3. /\ heap'[a] = null /\ \A b \in Addrs : b # a => heap'[b] = heap[b]
      /\ conns'[w][fd] = null
      /\ \A v \in SigWorkers, f \in Fds : v # w \/ f # fd => conns'[v][f] = conns[v][f]
      /\ pcSig'[w] = Idle /\ \A v \in SigWorkers : v # w => pcSig'[v] = pcSig[v]
  BY <1>1, <1>2 DEF ConnTypes
<1>4. \A v \in SigWorkers, f \in Fds : conns[v][f] = a => v = w /\ f = fd
  BY <1>2 DEF Slots
<1> QED BY <1>1, <1>2, <1>3, <1>4 DEF a

(* close(fd), for whatever reason: the fd was in no q_conn_.               *)
LEMMA CloseFdEffect ==
    ASSUME CInv, NEW w \in SigWorkers,
           \/ WriteFails(w)
           \/ \E fd \in Fds : ReadFails(w, fd)
           \/ \E a \in Addrs : ProcessTimeout(w, a)
    PROVE  /\ request' = request /\ got' = got /\ qConn' = qConn /\ conns' = conns /\ heap' = heap
           /\ \A v \in SigWorkers : \A i \in 1 .. Len(qConn[v]) :
                 owner'[qConn[v][i]] = owner[qConn[v][i]]
           /\ pcSig[w].at \in {"idle", "write"} /\ pcSig'[w].at = "remove"
           /\ \A v \in SigWorkers : v # w => pcSig'[v] = pcSig[v]
<1>1. \E a \in Addrs : /\ CloseFd(w, a) /\ heap[a] # null /\ heap[a].fd \in Fds
                       /\ heap[a].worker = w /\ pcSig[w].at \in {"idle", "write"}
  <2>1. CASE WriteFails(w)
    <3>1. pcSig[w].at = "write" /\ CloseFd(w, pcSig[w].conn)
      BY <2>1 DEF WriteFails
    <3>2. /\ pcSig[w].conn \in Addrs /\ heap[pcSig[w].conn] # null
          /\ heap[pcSig[w].conn].worker = w
      BY <3>1 DEF CInv, ConnInv, Threads
    <3> QED BY <3>1, <3>2, Typed DEF CInv
  <2>2. ASSUME NEW fd \in Fds, ReadFails(w, fd)
        PROVE  \E a \in Addrs : /\ CloseFd(w, a) /\ heap[a] # null /\ heap[a].fd \in Fds
                                /\ heap[a].worker = w /\ pcSig[w].at \in {"idle", "write"}
    <3>1. Watched(w, fd) /\ CloseFd(w, conns[w][fd])
      BY <2>2 DEF ReadFails
    <3> QED BY <3>1, WatchedFd
  <2>3. ASSUME NEW b \in Addrs, ProcessTimeout(w, b)
        PROVE  \E a \in Addrs : /\ CloseFd(w, a) /\ heap[a] # null /\ heap[a].fd \in Fds
                                /\ heap[a].worker = w /\ pcSig[w].at \in {"idle", "write"}
    <3>1. CloseFd(w, b) /\ heap[b] # null /\ heap[b].worker = w /\ pcSig[w].at = "idle"
      BY <2>3 DEF ProcessTimeout, Timed, Idle
    <3> QED BY <3>1, Typed DEF CInv
  <2> QED BY <2>1, <2>2, <2>3
<1>2. request' = request /\ got' = got /\ qConn' = qConn /\ conns' = conns /\ heap' = heap
  BY DEF WriteFails, ReadFails, ProcessTimeout, connVars, objVars, placeVars
<1>3. PICK a \in Addrs : /\ CloseFd(w, a) /\ heap[a] # null /\ heap[a].fd \in Fds
                         /\ heap[a].worker = w /\ pcSig[w].at \in {"idle", "write"}
  BY <1>1
<1> DEFINE fd == heap[a].fd
<1>4. /\ owner' = [owner EXCEPT ![fd] = null]
      /\ pcSig' = [pcSig EXCEPT ![w] = [at |-> "remove", conn |-> a]]
  BY <1>3 DEF CloseFd
<1>5. pcSig'[w].at = "remove" /\ \A v \in SigWorkers : v # w => pcSig'[v] = pcSig[v]
  BY <1>4 DEF CInv, ConnTypes
<1>6. Holds(a)
  BY <1>3, Typed DEF Holds, CInv
<1>7. \A v \in SigWorkers : \A i \in 1 .. Len(qConn[v]) : qConn[v][i] # fd /\ qConn[v][i] \in Fds
  BY <1>3, <1>6, Typed DEF CInv, ConnInv, FdBelongsToClient
<1> HIDE DEF fd
<1>8. \A v \in SigWorkers : \A i \in 1 .. Len(qConn[v]) :
         owner'[qConn[v][i]] = owner[qConn[v][i]]
  BY <1>3, <1>4, <1>7 DEF CInv, ConnTypes
<1> QED BY <1>2, <1>3, <1>5, <1>8

(* BeginWrite only moves the thread.                                       *)
LEMMA BeginWriteEffect ==
    ASSUME CInv, NEW w \in SigWorkers, NEW fd \in Fds, BeginWrite(w, fd)
    PROVE  /\ owner' = owner /\ request' = request /\ got' = got /\ qConn' = qConn
           /\ conns' = conns /\ heap' = heap
           /\ pcSig[w].at = "idle" /\ pcSig'[w].at = "write"
           /\ \A v \in SigWorkers : v # w => pcSig'[v] = pcSig[v]
<1>1. /\ owner' = owner /\ request' = request /\ got' = got /\ qConn' = qConn
      /\ conns' = conns /\ heap' = heap /\ Watched(w, fd)
      /\ pcSig' = [pcSig EXCEPT ![w] = [at |-> "write", conn |-> conns[w][fd]]]
  BY DEF BeginWrite, clientVars, connVars, objVars, placeVars
<1>2. pcSig'[w].at = "write" /\ \A v \in SigWorkers : v # w => pcSig'[v] = pcSig[v]
  BY <1>1 DEF CInv, ConnTypes
<1> QED BY <1>1, <1>2, WatchedFd

(* The steps of the other threads leave the connections alone.             *)
LEMMA ElsewhereEffect ==
    ASSUME \/ NotifyNewConn \/ RtcServerNext
           \/ \E r \in RtcWorkers : RtcWorkerNext(r)
           \/ UNCHANGED vars
    PROVE  /\ owner' = owner /\ request' = request /\ got' = got /\ qConn' = qConn
           /\ conns' = conns /\ heap' = heap /\ pcSig' = pcSig
BY DEF NotifyNewConn, RtcServerNext, RouteRtcMsg, DropWithoutCertificate, NotifyRtcWorker,
       RtcWorkerNext, ServeRtcMsg, NotifySigWorker, vars, clientVars, connVars, objVars, placeVars

(* A step that nobody's request changes in: whoever listens afterwards     *)
(* listened before, whoever notifies was notifying before.                 *)
LEMMA FreshStays ==
    ASSUME Fresh, request' = request, qConn' = qConn,
           \A v \in SigWorkers : \A i \in 1 .. Len(qConn[v]) :
              owner'[qConn[v][i]] = owner[qConn[v][i]],
           \A v \in SigWorkers, f \in Fds : Listening(v, f)' =>
              Listening(v, f) /\ heap'[conns'[v][f]].client = heap[conns[v][f]].client,
           \A v \in SigWorkers : pcSig'[v].at = "notify" =>
              /\ pcSig'[v] = pcSig[v]
              /\ heap'[pcSig[v].conn].client = heap[pcSig[v].conn].client
    PROVE  Fresh'
<1>1. \A v \in SigWorkers : \A i \in 1 .. Len(qConn'[v]) : request'[owner'[qConn'[v][i]]] = "none"
  BY DEF Fresh
<1>2. ASSUME NEW v \in SigWorkers, NEW f \in Fds, Listening(v, f)'
      PROVE  request'[heap'[conns'[v][f]].client] = "none"
  BY <1>2 DEF Fresh
<1>3. ASSUME NEW v \in SigWorkers, pcSig'[v].at = "notify"
      PROVE  request'[heap'[pcSig'[v].conn].client] \in Cmds
  BY <1>3 DEF Fresh
<1> QED BY <1>1, <1>2, <1>3 DEF Fresh

(* A step that sets the request of one client to something else than       *)
(* "none", and leaves its connection to its worker.                        *)
LEMMA FreshSpent ==
    ASSUME CInv, Fresh, NEW w \in SigWorkers, NEW fd \in Fds, Listening(w, fd),
           owner[fd] = heap[conns[w][fd]].client, owner[fd] \in Conns,
           conns' = conns, qConn' = qConn,
           \A v \in SigWorkers : \A i \in 1 .. Len(qConn[v]) :
              owner'[qConn[v][i]] = owner[qConn[v][i]],
           \A c \in Conns : c # owner[fd] => request'[c] = request[c],
           \A b \in Addrs : heap[b] # null =>
              heap'[b].client = heap[b].client /\ heap'[b].state = heap[b].state,
           pcSig'[w].conn = conns[w][fd], pcSig[w].at = "idle",
           \/ pcSig'[w].at = "remove"
           \/ pcSig'[w].at = "notify" /\ request'[owner[fd]] \in Cmds,
           \A v \in SigWorkers : v # w => pcSig'[v] = pcSig[v]
    PROVE  Fresh'
<1> USE Typed DEF CInv, ConnInv
<1> DEFINE c == owner[fd]
<1>0. conns[w][fd] # null /\ conns[w][fd] \in Addrs /\ c \in Conns /\ seat[c] # null
  <2>1. conns[w][fd] # null /\ conns[w][fd] \in Addrs
    BY DEF Listening
  <2>2. seat[c] = Seat(w, fd, conns[w][fd])
    BY <2>1 DEF Slots
  <2>3. Seat(w, fd, conns[w][fd]) \in SeatType
    BY <2>1 DEF Seat, SeatType
  <2> QED BY <2>1, <2>2, <2>3
<1> HIDE DEF c
<1>1. ASSUME NEW v \in SigWorkers, NEW i \in 1 .. Len(qConn'[v])
      PROVE  request'[owner'[qConn'[v][i]]] = "none"
  <2>1. /\ qConn'[v][i] = qConn[v][i] /\ i \in 1 .. Len(qConn[v]) /\ qConn[v][i] \in Fds
    BY <1>1
  <2>2. owner[qConn[v][i]] \in Conns /\ seat[owner[qConn[v][i]]] = null
    BY <2>1 DEF Waiting
  <2>3. owner[qConn[v][i]] # c
    BY <1>0, <2>2
  <2> QED BY <2>1, <2>2, <2>3 DEF Fresh, c
<1>2. ASSUME NEW v \in SigWorkers, NEW f \in Fds, Listening(v, f)'
      PROVE  request'[heap'[conns'[v][f]].client] = "none"
  <2>1. conns[v][f] # null /\ conns[v][f] \in Addrs /\ heap[conns[v][f]] # null
    BY <1>2 DEF Listening, Slots
  <2>2. /\ heap'[conns[v][f]].client = heap[conns[v][f]].client
        /\ heap'[conns[v][f]].state = heap[conns[v][f]].state
        /\ heap[conns[v][f]].client \in Conns
    BY <2>1
  <2>3. conns[v][f] # conns[w][fd] /\ heap[conns[w][fd]] # null
    <3>1. v # w \/ f # fd
      BY <1>2 DEF Listening
    <3> QED BY <1>0, <2>1, <3>1 DEF Slots
  <2>4. heap[conns[v][f]].client # c
    BY <1>0, <2>1, <2>3, OneConnection DEF c
  <2>5. Listening(v, f)
    BY <1>2, <2>1, <2>2 DEF Listening
  <2> QED BY <2>2, <2>4, <2>5 DEF Fresh, c
<1>3. ASSUME NEW v \in SigWorkers, pcSig'[v].at = "notify"
      PROVE  request'[heap'[pcSig'[v].conn].client] \in Cmds
  <2>1. CASE v = w
    <3>1. heap'[pcSig'[w].conn].client = c
      BY <1>0 DEF Slots, c
    <3> QED BY <1>3, <2>1, <3>1 DEF c
  <2>2. CASE v # w
    <3>1. pcSig'[v] = pcSig[v] /\ pcSig[v].at = "notify"
      BY <1>3, <2>2
    <3>2. /\ pcSig[v].conn \in Addrs /\ heap[pcSig[v].conn] # null
          /\ heap[pcSig[v].conn].worker = v
      BY <3>1 DEF Threads
    <3>3. heap[pcSig[v].conn].client # c /\ heap[pcSig[v].conn].client \in Conns
      <4>1. heap[conns[w][fd]] # null /\ heap[conns[w][fd]].worker = w
        BY <1>0 DEF Slots
      <4> QED BY <1>0, <2>2, <3>2, <4>1, OneConnection DEF c
    <3>4. request[heap[pcSig[v].conn].client] \in Cmds
      BY <3>1 DEF Fresh
    <3>5. heap'[pcSig[v].conn].client = heap[pcSig[v].conn].client
      BY <3>2
    <3> QED BY <3>1, <3>2, <3>3, <3>4, <3>5 DEF c
  <2> QED BY <2>1, <2>2
<1> QED BY <1>1, <1>2, <1>3 DEF Fresh

LEMMA FreshStep ==
    ASSUME CInv, MInv, Fresh, [Next]_vars
    PROVE  Fresh'
<1> USE Typed DEF CInv, ConnInv
<1>1. ASSUME NEW c \in Conns, NEW fd \in Fds, AcceptNewConn(c, fd) PROVE Fresh'
  <2>1. /\ owner' = [owner EXCEPT ![fd] = c] /\ request' = [request EXCEPT ![c] = "none"]
        /\ qConn' = [qConn EXCEPT ![nextWorker] = Append(@, fd)]
        /\ conns' = conns /\ heap' = heap /\ pcSig' = pcSig
        /\ owner[fd] = null /\ request[c] = "out" /\ nextWorker \in SigWorkers
    BY <1>1 DEF AcceptNewConn, objVars, placeVars, ConnTypes
  <2>2. /\ owner'[fd] = c /\ \A f \in Fds : f # fd => owner'[f] = owner[f]
        /\ request'[c] = "none" /\ \A d \in Conns : d # c => request'[d] = request[d]
    BY <2>1 DEF ConnTypes
  <2>3. ASSUME NEW v \in SigWorkers, NEW i \in 1 .. Len(qConn'[v])
        PROVE  request'[owner'[qConn'[v][i]]] = "none"
    <3>1. \/ i \in 1 .. Len(qConn[v]) /\ qConn'[v][i] = qConn[v][i]
          \/ qConn'[v][i] = fd
      <4>1. CASE v = nextWorker
        <5>1. qConn'[v] = Append(qConn[v], fd) /\ qConn[v] \in Seq(Fds)
          BY <2>1, <4>1 DEF ConnTypes
        <5> QED BY <2>3, <5>1, AppendTo
      <4>2. CASE v # nextWorker
        BY <2>1, <2>3, <4>2 DEF ConnTypes
      <4> QED BY <4>1, <4>2
    <3>2. CASE qConn'[v][i] = fd
      BY <2>2, <3>2
    <3>3. CASE i \in 1 .. Len(qConn[v]) /\ qConn'[v][i] = qConn[v][i] /\ qConn[v][i] # fd
      <4>1. qConn[v][i] \in Fds /\ owner[qConn[v][i]] \in Conns
        BY <3>3 DEF Waiting
      <4>2. request[owner[qConn[v][i]]] = "none"
        BY <3>3 DEF Fresh
      <4> QED BY <2>2, <3>3, <4>1, <4>2
    <3> QED BY <3>1, <3>2, <3>3
  <2>4. ASSUME NEW v \in SigWorkers, NEW f \in Fds, Listening(v, f)'
        PROVE  request'[heap'[conns'[v][f]].client] = "none"
    <3>1. Listening(v, f) /\ conns[v][f] \in Addrs /\ heap[conns[v][f]] # null
      BY <2>1, <2>4 DEF Listening, Slots
    <3>2. heap[conns[v][f]].client \in Conns
      BY <3>1
    <3> QED BY <2>1, <2>2, <3>1, <3>2 DEF Fresh
  <2>5. ASSUME NEW v \in SigWorkers, pcSig'[v].at = "notify"
        PROVE  request'[heap'[pcSig'[v].conn].client] \in Cmds
    <3>1. pcSig[v].at = "notify" /\ heap[pcSig[v].conn].client \in Conns
      BY <2>1, <2>5 DEF Threads
    <3>2. request[heap[pcSig[v].conn].client] \in Cmds
      BY <3>1 DEF Fresh
    <3>3. heap[pcSig[v].conn].client # c
      BY <2>1, <3>2 DEF Cmds, AsyncCmds, StopCmds
    <3> QED BY <2>1, <2>2, <3>1, <3>2, <3>3
  <2> QED BY <2>3, <2>4, <2>5 DEF Fresh
<1>2. ASSUME NEW w \in SigWorkers, NEW a \in Addrs, HandleNewConn(w, a) PROVE Fresh'
  <2>1. owner' = owner /\ request' = request /\ pcSig' = pcSig
    BY <1>2, HandleNewConnEffect
  <2>2. CASE qConn' = qConn /\ conns' = conns /\ heap' = heap
    BY <2>1, <2>2 DEF Fresh, Listening
  <2>3. CASE ~(qConn' = qConn /\ conns' = conns /\ heap' = heap)
    <3> DEFINE fd == Head(qConn[w])
    <3>1. /\ qConn[w] \in Seq(Fds) /\ qConn[w] # <<>> /\ qConn'[w] = Tail(qConn[w])
          /\ \A v \in SigWorkers : v # w => qConn'[v] = qConn[v]
          /\ heap[a] = null /\ heap'[a].client = owner[fd]
          /\ \A b \in Addrs : b # a => heap'[b] = heap[b]
          /\ fd \in Fds /\ conns'[w][fd] \in {a, null}
          /\ \A v \in SigWorkers, f \in Fds :
                v # w \/ f # fd => conns'[v][f] \in {conns[v][f], null}
          /\ \A v \in SigWorkers, f \in Fds : conns[v][f] # a
      BY <1>2, <2>3, HandleNewConnEffect
    <3>2. /\ 1 \in 1 .. Len(qConn[w]) /\ fd = qConn[w][1]
          /\ \A i \in 1 .. Len(Tail(qConn[w])) :
                i + 1 \in 1 .. Len(qConn[w]) /\ Tail(qConn[w])[i] = qConn[w][i + 1]
      BY <3>1, TailOf
    <3>3. request[owner[fd]] = "none"
      BY <3>2 DEF Fresh
    <3> HIDE DEF fd
    <3>4. ASSUME NEW v \in SigWorkers, NEW i \in 1 .. Len(qConn'[v])
          PROVE  request'[owner'[qConn'[v][i]]] = "none"
      <4>1. CASE v = w
        <5>1. i + 1 \in 1 .. Len(qConn[w]) /\ qConn'[v][i] = qConn[w][i + 1]
          BY <3>1, <3>2, <4>1
        <5> QED BY <2>1, <5>1 DEF Fresh
      <4>2. CASE v # w
        BY <2>1, <3>1, <4>2 DEF Fresh
      <4> QED BY <4>1, <4>2
    <3>5. ASSUME NEW v \in SigWorkers, NEW f \in Fds, Listening(v, f)'
          PROVE  request'[heap'[conns'[v][f]].client] = "none"
      <4>1. CASE v = w /\ f = fd
        BY <2>1, <3>1, <3>3, <3>5, <4>1 DEF Listening
      <4>2. CASE v # w \/ f # fd
        <5>1. /\ conns'[v][f] = conns[v][f] /\ conns[v][f] \in Addrs
              /\ heap'[conns[v][f]] = heap[conns[v][f]]
          BY <3>1, <3>5, <4>2 DEF Listening
        <5>2. Listening(v, f)
          BY <2>1, <3>5, <5>1 DEF Listening
        <5> QED BY <2>1, <5>1, <5>2 DEF Fresh
      <4> QED BY <4>1, <4>2
    <3>6. ASSUME NEW v \in SigWorkers, pcSig'[v].at = "notify"
          PROVE  request'[heap'[pcSig'[v].conn].client] \in Cmds
      <4>1. pcSig[v].at = "notify" /\ pcSig[v].conn \in Addrs /\ heap[pcSig[v].conn] # null
        BY <2>1, <3>6 DEF Threads
      <4>2. heap'[pcSig[v].conn] = heap[pcSig[v].conn]
        BY <3>1, <4>1
      <4> QED BY <2>1, <4>1, <4>2 DEF Fresh
    <3> QED BY <3>4, <3>5, <3>6 DEF Fresh
  <2> QED BY <2>2, <2>3
<1>3. ASSUME NEW w \in SigWorkers, NEW fd \in Fds, NEW cmd \in Cmds, NEW s \in Streams,
             ReadRequest(w, fd, cmd, s)
      PROVE  Fresh'
  BY <1>3, ReadRequestEffect, FreshSpent
<1>4. ASSUME NEW w \in SigWorkers, NEW fd \in Fds, RejectUnknownCmd(w, fd) PROVE Fresh'
  <2> DEFINE a == conns[w][fd]
             c == owner[fd]
  <2>1. /\ qConn' = qConn /\ conns' = conns /\ c \in Conns /\ a \in Addrs /\ c = heap[a].client
        /\ Listening(w, fd)
        /\ \A f \in Fds : f # fd => owner'[f] = owner[f]
        /\ \A d \in Conns : d # c => request'[d] = request[d]
        /\ Replied(a, c) /\ heap'[a].state = heap[a].state
        /\ pcSig'[w].at = "remove" /\ pcSig'[w].conn = a /\ pcSig[w].at = "idle"
        /\ \A v \in SigWorkers : v # w => pcSig'[v] = pcSig[v]
    BY <1>4, RejectUnknownCmdEffect
  <2>2. \A b \in Addrs : heap[b] # null =>
           heap'[b].client = heap[b].client /\ heap'[b].state = heap[b].state
    BY <2>1 DEF Replied
  <2>3. Holds(a) /\ heap[a].fd = fd
    <3>1. a # null /\ heap[a] # null /\ heap[a].worker = w /\ heap[a].fd = fd
      BY <2>1 DEF Listening, Slots
    <3> QED BY <2>1, <3>1 DEF Holds
  <2>4. \A v \in SigWorkers : \A i \in 1 .. Len(qConn[v]) : qConn[v][i] # fd /\ qConn[v][i] \in Fds
    <3>1. a \in Addrs
      BY <2>1
    <3> HIDE DEF a
    <3>2. \A v \in SigWorkers : \A i \in 1 .. Len(qConn[v]) : qConn[v][i] # heap[a].fd
      BY <2>3, <3>1 DEF FdBelongsToClient
    <3>3. \A v \in SigWorkers : \A i \in 1 .. Len(qConn[v]) : qConn[v][i] \in Fds
      OBVIOUS
    <3> QED BY <2>3, <3>2, <3>3
  <2>5. \A v \in SigWorkers : \A i \in 1 .. Len(qConn[v]) :
           owner'[qConn[v][i]] = owner[qConn[v][i]]
    BY <2>1, <2>4
  <2> QED BY <2>1, <2>2, <2>5, FreshSpent
<1>5. ASSUME NEW w \in SigWorkers, NotifyRtcServer(w) PROVE Fresh'
  <2> DEFINE a == pcSig[w].conn
  <2>1. /\ owner' = owner /\ request' = request /\ qConn' = qConn /\ conns' = conns
        /\ pcSig[w].at = "notify" /\ a \in Addrs
        /\ heap'[a].state = "done" /\ heap'[a].client = heap[a].client
        /\ \A b \in Addrs : b # a => heap'[b] = heap[b]
        /\ pcSig'[w].at = "idle"
        /\ \A v \in SigWorkers : v # w => pcSig'[v] = pcSig[v]
    BY <1>5, NotifyRtcServerEffect
  <2> HIDE DEF a
  <2>2. ASSUME NEW v \in SigWorkers, NEW f \in Fds, Listening(v, f)'
        PROVE  Listening(v, f) /\ heap'[conns'[v][f]].client = heap[conns[v][f]].client
    <3>1. conns'[v][f] = conns[v][f] /\ conns[v][f] \in Addrs /\ conns[v][f] # a
      BY <2>1, <2>2 DEF Listening
    <3>2. heap'[conns[v][f]] = heap[conns[v][f]]
      BY <2>1, <3>1
    <3> QED BY <2>1, <2>2, <3>1, <3>2 DEF Listening, a
  <2>3. ASSUME NEW v \in SigWorkers, pcSig'[v].at = "notify"
        PROVE  pcSig'[v] = pcSig[v] /\ heap'[pcSig[v].conn].client = heap[pcSig[v].conn].client
    <3>1. v # w /\ pcSig'[v] = pcSig[v] /\ pcSig[v].conn \in Addrs
      BY <2>1, <2>3 DEF Threads
    <3> QED BY <2>1, <3>1
  <2> QED BY <2>1, <2>2, <2>3, FreshStays
<1>6. ASSUME NEW w \in SigWorkers, RemoveConnection(w) PROVE Fresh'
  <2> DEFINE a == pcSig[w].conn
  <2>1. /\ owner' = owner /\ request' = request /\ qConn' = qConn
        /\ a \in Addrs /\ pcSig[w].at = "remove" /\ pcSig'[w] = Idle /\ pcSig'[w].at # "notify"
        /\ \A v \in SigWorkers : v # w => pcSig'[v] = pcSig[v]
        /\ \A b \in Addrs : b # a => heap'[b] = heap[b]
        /\ \A v \in SigWorkers, f \in Fds : conns'[v][f] # null =>
              conns'[v][f] = conns[v][f] /\ conns[v][f] # a
    BY <1>6, RemoveConnectionEffect DEF Idle
  <2> HIDE DEF a
  <2>2. ASSUME NEW v \in SigWorkers, NEW f \in Fds, Listening(v, f)'
        PROVE  Listening(v, f) /\ heap'[conns'[v][f]].client = heap[conns[v][f]].client
    <3>1. conns'[v][f] = conns[v][f] /\ conns[v][f] \in Addrs /\ conns[v][f] # a
      BY <2>1, <2>2 DEF Listening
    <3>2. heap'[conns[v][f]] = heap[conns[v][f]]
      BY <2>1, <3>1
    <3> QED BY <2>1, <2>2, <3>1, <3>2 DEF Listening, a
  <2>3. ASSUME NEW v \in SigWorkers, pcSig'[v].at = "notify"
        PROVE  pcSig'[v] = pcSig[v] /\ heap'[pcSig[v].conn].client = heap[pcSig[v].conn].client
    <3>1. v # w /\ pcSig'[v] = pcSig[v] /\ pcSig[v].conn \in Addrs
          /\ heap[pcSig[v].conn].worker = v /\ heap[pcSig[v].conn] # null
      BY <2>1, <2>3 DEF Threads
    <3>2. pcSig[v].conn # a
      <4>1. heap[a].worker = w
        BY <2>1 DEF Threads, a
      <4> QED BY <2>1, <3>1, <4>1
    <3> QED BY <2>1, <3>1, <3>2
  <2> QED BY <2>1, <2>2, <2>3, FreshStays
<1>7. ASSUME NEW w \in SigWorkers, ProcessRtcMsg(w) PROVE Fresh'
  <2>1. /\ owner' = owner /\ request' = request /\ qConn' = qConn /\ conns' = conns /\ pcSig' = pcSig
        /\ \A b \in Addrs : heap[b] # null =>
              heap'[b].client = heap[b].client /\ heap'[b].state = heap[b].state
    BY <1>7, ProcessRtcMsgEffect DEF Replied
  <2>2. ASSUME NEW v \in SigWorkers, NEW f \in Fds, Listening(v, f)'
        PROVE  Listening(v, f) /\ heap'[conns'[v][f]].client = heap[conns[v][f]].client
    <3>1. conns'[v][f] = conns[v][f] /\ conns[v][f] \in Addrs /\ heap[conns[v][f]] # null
      BY <2>1, <2>2 DEF Listening, Slots
    <3> QED BY <2>1, <2>2, <3>1 DEF Listening
  <2>3. ASSUME NEW v \in SigWorkers, pcSig'[v].at = "notify"
        PROVE  pcSig'[v] = pcSig[v] /\ heap'[pcSig[v].conn].client = heap[pcSig[v].conn].client
    BY <2>1, <2>3 DEF Threads
  <2> QED BY <2>1, <2>2, <2>3, FreshStays
<1>8. ASSUME NEW w \in SigWorkers, WriteReply(w) PROVE Fresh'
  <2>1. /\ owner' = owner /\ request' = request /\ qConn' = qConn /\ conns' = conns
        /\ pcSig'[w].at # "notify" /\ pcSig[w].at = "write"
        /\ \A v \in SigWorkers : v # w => pcSig'[v] = pcSig[v]
    BY <1>8, WriteReplyEffect
  <2>2. \A b \in Addrs : heap[b] # null =>
           heap'[b].client = heap[b].client /\ heap'[b].state = heap[b].state
    BY <1>8, WriteReplyEffect
  <2>3. ASSUME NEW v \in SigWorkers, NEW f \in Fds, Listening(v, f)'
        PROVE  Listening(v, f) /\ heap'[conns'[v][f]].client = heap[conns[v][f]].client
    <3>1. conns'[v][f] = conns[v][f] /\ conns[v][f] \in Addrs /\ heap[conns[v][f]] # null
      BY <2>1, <2>3 DEF Listening, Slots
    <3>2. heap'[conns[v][f]].client = heap[conns[v][f]].client
          /\ heap'[conns[v][f]].state = heap[conns[v][f]].state
      BY <2>2, <3>1
    <3> QED BY <2>1, <2>3, <3>1, <3>2 DEF Listening
  <2>4. ASSUME NEW v \in SigWorkers, pcSig'[v].at = "notify"
        PROVE  pcSig'[v] = pcSig[v] /\ heap'[pcSig[v].conn].client = heap[pcSig[v].conn].client
    BY <2>1, <2>2, <2>4 DEF Threads
  <2> QED BY <2>1, <2>3, <2>4, FreshStays
<1>9. ASSUME NEW w \in SigWorkers,
             \/ WriteFails(w)
             \/ \E fd \in Fds : ReadFails(w, fd) \/ BeginWrite(w, fd)
             \/ \E a \in Addrs : ProcessTimeout(w, a)
      PROVE  Fresh'
  <2>1. /\ request' = request /\ qConn' = qConn /\ conns' = conns /\ heap' = heap
        /\ \A v \in SigWorkers : \A i \in 1 .. Len(qConn[v]) :
              owner'[qConn[v][i]] = owner[qConn[v][i]]
        /\ pcSig[w].at \in {"idle", "write"} /\ pcSig'[w].at \in {"write", "remove"}
        /\ \A v \in SigWorkers : v # w => pcSig'[v] = pcSig[v]
    BY <1>9, CloseFdEffect, BeginWriteEffect
  <2>2. \A v \in SigWorkers, f \in Fds : Listening(v, f)' => Listening(v, f)
    BY <2>1 DEF Listening
  <2>3. \A v \in SigWorkers : pcSig'[v].at = "notify" => pcSig'[v] = pcSig[v]
    BY <2>1
  <2> QED BY <2>1, <2>2, <2>3, FreshStays
<1>10. ASSUME \/ NotifyNewConn \/ RtcServerNext
              \/ \E r \in RtcWorkers : RtcWorkerNext(r)
              \/ UNCHANGED vars
       PROVE  Fresh'
  BY <1>10, ElsewhereEffect DEF Fresh, Listening
<1>11. ASSUME NEW w \in SigWorkers, SigWorkerNext(w) PROVE Fresh'
  BY <1>2, <1>3, <1>4, <1>5, <1>6, <1>7, <1>8, <1>9, <1>11 DEF SigWorkerNext
<1> QED BY <1>1, <1>10, <1>11 DEF Next, SignalingServerNext

-----------------------------------------------------------------------------
(* What the steps do to the queues of messages.                            *)

(* The steps that are not about messages.                                  *)
Quiet ==
    \/ SignalingServerNext \/ NotifyRtcWorker
    \/ \E r \in RtcWorkers : NotifySigWorker(r)
    \/ \E w \in SigWorkers :
          \/ \E a \in Addrs : HandleNewConn(w, a) \/ ProcessTimeout(w, a)
          \/ NotifyRtcServer(w) \/ RemoveConnection(w) \/ WriteReply(w) \/ WriteFails(w)
          \/ \E fd \in Fds : \/ RejectUnknownCmd(w, fd) \/ ReadFails(w, fd)
                             \/ BeginWrite(w, fd)
    \/ UNCHANGED vars

LEMMA QuietEffect ==
    ASSUME Quiet
    PROVE  /\ qSrv' = qSrv /\ qRtc' = qRtc /\ qSig' = qSig
           /\ asked' = asked /\ served' = served
BY DEF Quiet, SignalingServerNext, AcceptNewConn, NotifyNewConn, NotifyRtcWorker,
       NotifySigWorker, HandleNewConn, NotifyRtcServer, RemoveConnection, WriteReply, WriteFails,
       RejectUnknownCmd, ReadFails, ProcessTimeout, BeginWrite,
       srvVars, rtcVars, sigVars, histVars, vars

LEMMA StepKinds ==
    ASSUME [Next]_vars
    PROVE  \/ Quiet \/ RouteRtcMsg \/ DropWithoutCertificate
           \/ \E r \in RtcWorkers : ServeRtcMsg(r)
           \/ \E w \in SigWorkers :
                 \/ ProcessRtcMsg(w)
                 \/ \E fd \in Fds, cmd \in Cmds, s \in Streams : ReadRequest(w, fd, cmd, s)
BY DEF Next, Quiet, SigWorkerNext, RtcServerNext, RtcWorkerNext

(* The message ReadRequest queues.                                         *)
LEMMA ReadRequestQueued ==
    ASSUME CInv, MInv, NEW w \in SigWorkers, NEW fd \in Fds, NEW cmd \in Cmds,
           NEW s \in Streams, ReadRequest(w, fd, cmd, s)
    PROVE  /\ qRtc' = qRtc /\ qSig' = qSig /\ served' = served
           /\ asked'[s] = Append(asked[s], owner[fd])
           /\ \A t \in Streams : t # s => asked'[t] = asked[t]
           /\ \E m \in RtcMsgType : /\ qSrv' = Append(qSrv, m) /\ m.from = owner[fd]
                                    /\ m.cmd = cmd /\ m.stream = s
<1> DEFINE m == RtcMsg(owner[fd], w, conns[w][fd], fd, cmd, s)
<1>1. /\ qSrv' = Append(qSrv, m) /\ asked' = [asked EXCEPT ![s] = Append(@, owner[fd])]
      /\ qRtc' = qRtc /\ qSig' = qSig /\ served' = served
  BY DEF ReadRequest, rtcVars, sigVars
<1>2. owner[fd] \in Conns /\ conns[w][fd] \in Addrs
  BY ReadRequestEffect
<1>3. m \in RtcMsgType /\ m.from = owner[fd] /\ m.cmd = cmd /\ m.stream = s
  BY <1>2 DEF RtcMsg, RtcMsgType
<1> HIDE DEF m
<1>4. /\ asked'[s] = Append(asked[s], owner[fd])
      /\ \A t \in Streams : t # s => asked'[t] = asked[t]
  BY <1>1 DEF MInv, MsgTypes
<1> QED BY <1>1, <1>3, <1>4

LEMMA RouteEffect ==
    ASSUME MInv, RouteRtcMsg
    PROVE  /\ qSig' = qSig /\ asked' = asked /\ served' = served /\ UNCHANGED clientVars
           /\ \/ qSrv' = qSrv /\ qRtc' = qRtc
              \/ /\ qSrv # <<>> /\ qSrv' = Tail(qSrv) /\ Head(qSrv) \in RtcMsgType
                 /\ \E r \in RtcWorkers :
                       /\ r = Shard[Head(qSrv).stream]
                       /\ qRtc'[r] = Append(qRtc[r], Head(qSrv))
                       /\ \A x \in RtcWorkers : x # r => qRtc'[x] = qRtc[x]
<1>1. qSig' = qSig /\ asked' = asked /\ served' = served /\ UNCHANGED clientVars
  BY DEF RouteRtcMsg, sigVars, histVars
<1>2. CASE qSrv = <<>>
  BY <1>1, <1>2 DEF RouteRtcMsg
<1>3. CASE qSrv # <<>>
  <2> DEFINE m == Head(qSrv)
             r == Shard[m.stream]
  <2>1. qSrv' = Tail(qSrv) /\ qRtc' = [qRtc EXCEPT ![r] = Append(@, m)]
    BY <1>3 DEF RouteRtcMsg, GetWorker
  <2>2. m \in RtcMsgType
    BY <1>3, TailOf DEF MInv, MsgTypes
  <2>3. r \in RtcWorkers
    BY <2>2, ShardAssumption DEF RtcMsgType
  <2>4. qRtc'[r] = Append(qRtc[r], m) /\ \A x \in RtcWorkers : x # r => qRtc'[x] = qRtc[x]
    BY <2>1, <2>3 DEF MInv, MsgTypes
  <2> QED BY <1>1, <1>3, <2>1, <2>2, <2>3, <2>4
<1> QED BY <1>2, <1>3

LEMMA ServeEffect ==
    ASSUME MInv, NEW r \in RtcWorkers, ServeRtcMsg(r)
    PROVE  /\ qSrv' = qSrv /\ asked' = asked /\ UNCHANGED clientVars
           /\ \/ qRtc' = qRtc /\ qSig' = qSig /\ served' = served
              \/ \E m \in RtcMsgType :
                    /\ qRtc[r] # <<>> /\ m = Head(qRtc[r]) /\ m = qRtc[r][1]
                    /\ qRtc'[r] = Tail(qRtc[r])
                    /\ \A x \in RtcWorkers : x # r => qRtc'[x] = qRtc[x]
                    /\ served'[m.stream] = Append(served[m.stream], m.from)
                    /\ \A t \in Streams : t # m.stream => served'[t] = served[t]
                    /\ \/ qSig' = qSig
                       \/ /\ m.cmd \in AsyncCmds
                          /\ qSig'[m.worker] = Append(qSig[m.worker], m)
                          /\ \A v \in SigWorkers : v # m.worker => qSig'[v] = qSig[v]
<1>1. qSrv' = qSrv /\ asked' = asked /\ UNCHANGED clientVars
  BY DEF ServeRtcMsg, srvVars
<1>2. CASE qRtc[r] = <<>>
  BY <1>1, <1>2 DEF ServeRtcMsg
<1>3. CASE qRtc[r] # <<>>
  <2> DEFINE m == Head(qRtc[r])
  <2>1. /\ qRtc' = [qRtc EXCEPT ![r] = Tail(@)]
        /\ served' = [served EXCEPT ![m.stream] = Append(@, m.from)]
        /\ \/ m.cmd \in AsyncCmds /\ qSig' = [qSig EXCEPT ![m.worker] = Append(@, m)]
           \/ qSig' = qSig
    BY <1>3 DEF ServeRtcMsg, SentBack
  <2>2. m \in RtcMsgType /\ m = qRtc[r][1]
    BY <1>3, TailOf DEF MInv, MsgTypes
  <2>3. m.stream \in Streams /\ m.worker \in SigWorkers
    BY <2>2 DEF RtcMsgType
  <2> HIDE DEF m
  <2>4. /\ qRtc'[r] = Tail(qRtc[r])
        /\ \A x \in RtcWorkers : x # r => qRtc'[x] = qRtc[x]
        /\ served'[m.stream] = Append(served[m.stream], m.from)
        /\ \A t \in Streams : t # m.stream => served'[t] = served[t]
    BY <2>1, <2>3 DEF MInv, MsgTypes
  <2>5. \/ qSig' = qSig
        \/ /\ m.cmd \in AsyncCmds /\ qSig'[m.worker] = Append(qSig[m.worker], m)
           /\ \A v \in SigWorkers : v # m.worker => qSig'[v] = qSig[v]
    BY <2>1, <2>3 DEF MInv, MsgTypes
  <2>6. m = Head(qRtc[r])
    BY DEF m
  <2> QED BY <1>1, <1>3, <2>2, <2>4, <2>5, <2>6
<1> QED BY <1>2, <1>3

LEMMA DropEffect ==
    ASSUME MInv, DropWithoutCertificate
    PROVE  /\ qRtc' = qRtc /\ qSig' = qSig /\ served' = served /\ UNCHANGED clientVars
           /\ \E m \in RtcMsgType :
                 /\ qSrv # <<>> /\ m = qSrv[1] /\ qSrv' = Tail(qSrv)
                 /\ asked'[m.stream] = Without(asked[m.stream], m.from)
                 /\ \A t \in Streams : t # m.stream => asked'[t] = asked[t]
<1> DEFINE m == Head(qSrv)
<1>1. /\ qRtc' = qRtc /\ qSig' = qSig /\ served' = served /\ UNCHANGED clientVars
      /\ qSrv # <<>> /\ qSrv' = Tail(qSrv)
      /\ asked' = [asked EXCEPT ![m.stream] = Without(@, m.from)]
  BY DEF DropWithoutCertificate, rtcVars, sigVars
<1>2. m \in RtcMsgType /\ m = qSrv[1]
  BY <1>1, TailOf DEF MInv, MsgTypes
<1>3. m.stream \in Streams
  BY <1>2 DEF RtcMsgType
<1> HIDE DEF m
<1>4. /\ asked'[m.stream] = Without(asked[m.stream], m.from)
      /\ \A t \in Streams : t # m.stream => asked'[t] = asked[t]
  BY <1>1, <1>3 DEF MInv, MsgTypes
<1> QED BY <1>1, <1>2, <1>4

-----------------------------------------------------------------------------
(* Every client a message, a reply or an answer is for has asked.          *)
Askers == {c \in Conns : request[c] \notin {"out", "none"}}

Spoken ==
    /\ \A k \in 1 .. Len(qSrv) : qSrv[k].from \in Askers
    /\ \A r \in RtcWorkers : \A k \in 1 .. Len(qRtc[r]) : qRtc[r][k].from \in Askers
    /\ \A w \in SigWorkers : \A k \in 1 .. Len(qSig[w]) : qSig[w][k].from \in Askers
    /\ \A a \in Addrs : heap[a] # null =>
          \A k \in 1 .. Len(heap[a].replies) : heap[a].replies[k] \in Askers
    /\ \A c \in Conns : \A k \in 1 .. Len(got[c]) : got[c][k] \in Askers

LEMMA AskedForGood ==
    ASSUME CInv, MInv, [Next]_vars
    PROVE  Askers \subseteq Askers'
<1>1. ASSUME NEW c \in Conns, NEW fd \in Fds, AcceptNewConn(c, fd)
      PROVE  Askers \subseteq Askers'
  BY <1>1 DEF AcceptNewConn, Askers, CInv, ConnTypes
<1>2. ASSUME NEW w \in SigWorkers, NEW fd \in Fds, NEW cmd \in Cmds, NEW s \in Streams,
             ReadRequest(w, fd, cmd, s)
      PROVE  Askers \subseteq Askers'
  BY <1>2, ReadRequestEffect DEF Askers, Cmds, AsyncCmds, StopCmds
<1>3. ASSUME NEW w \in SigWorkers, NEW fd \in Fds, RejectUnknownCmd(w, fd)
      PROVE  Askers \subseteq Askers'
  BY <1>3, RejectUnknownCmdEffect DEF Askers
<1>4. ASSUME request' = request PROVE Askers \subseteq Askers'
  BY <1>4 DEF Askers
<1>5. ASSUME NEW w \in SigWorkers, SigWorkerNext(w)
      PROVE  \/ request' = request
             \/ \E fd \in Fds : \/ RejectUnknownCmd(w, fd)
                                \/ \E cmd \in Cmds, s \in Streams : ReadRequest(w, fd, cmd, s)
  BY <1>5 DEF SigWorkerNext, HandleNewConn, NotifyRtcServer, RemoveConnection, ProcessRtcMsg,
     WriteReply, WriteFails, ReadFails, ProcessTimeout, BeginWrite, clientVars
<1>6. ASSUME \/ NotifyNewConn \/ RtcServerNext
             \/ \E r \in RtcWorkers : RtcWorkerNext(r)
             \/ UNCHANGED vars
      PROVE  request' = request
  BY <1>6, ElsewhereEffect
<1> QED BY <1>1, <1>2, <1>3, <1>4, <1>5, <1>6 DEF Next, SignalingServerNext

LEMMA SpokenStep ==
    ASSUME CInv, MInv, Fresh, Spoken, [Next]_vars
    PROVE  Spoken'
<1> USE Typed DEF CInv
<1>0. /\ qSrv \in Seq(RtcMsgType)
      /\ \A r \in RtcWorkers : qRtc[r] \in Seq(RtcMsgType)
      /\ \A w \in SigWorkers : qSig[w] \in Seq(RtcMsgType)
      /\ \A c \in Conns : got[c] \in Seq(Conns)
  BY DEF MInv, MsgTypes, ConnTypes
<1> DEFINE A == Askers'
<1>1. Askers \subseteq A
  BY AskedForGood
<1>2. /\ \A k \in 1 .. Len(qSrv) : qSrv[k].from \in A
      /\ \A r \in RtcWorkers : \A k \in 1 .. Len(qRtc[r]) : qRtc[r][k].from \in A
      /\ \A w \in SigWorkers : \A k \in 1 .. Len(qSig[w]) : qSig[w][k].from \in A
      /\ \A a \in Addrs : heap[a] # null =>
            \A k \in 1 .. Len(heap[a].replies) : heap[a].replies[k] \in A
      /\ \A c \in Conns : \A k \in 1 .. Len(got[c]) : got[c][k] \in A
  BY <1>1 DEF Spoken
<1> HIDE DEF A
<1>3. ASSUME NEW q \in Seq(RtcMsgType), NEW m \in RtcMsgType,
             \A k \in 1 .. Len(q) : q[k].from \in A, m.from \in A
      PROVE  \A k \in 1 .. Len(Append(q, m)) : Append(q, m)[k].from \in A
  BY <1>3, AppendTo
<1>4. ASSUME NEW q \in Seq(RtcMsgType), q # <<>>, \A k \in 1 .. Len(q) : q[k].from \in A
      PROVE  \A k \in 1 .. Len(Tail(q)) : Tail(q)[k].from \in A
  BY <1>4, TailOf
(* The messages.                                                           *)
<1>5. /\ \A k \in 1 .. Len(qSrv') : qSrv'[k].from \in A
      /\ \A r \in RtcWorkers : \A k \in 1 .. Len(qRtc'[r]) : qRtc'[r][k].from \in A
      /\ \A w \in SigWorkers : \A k \in 1 .. Len(qSig'[w]) : qSig'[w][k].from \in A
  <2> DEFINE Goal == /\ \A k \in 1 .. Len(qSrv') : qSrv'[k].from \in A
                     /\ \A r \in RtcWorkers : \A k \in 1 .. Len(qRtc'[r]) : qRtc'[r][k].from \in A
                     /\ \A w \in SigWorkers : \A k \in 1 .. Len(qSig'[w]) : qSig'[w][k].from \in A
  <2>1. ASSUME Quiet PROVE Goal
    BY <1>2, <2>1, QuietEffect
  <2>2. ASSUME RouteRtcMsg PROVE Goal
    <3>1. CASE qSrv' = qSrv /\ qRtc' = qRtc
      BY <1>2, <2>2, <3>1, RouteEffect
    <3>2. CASE ~(qSrv' = qSrv /\ qRtc' = qRtc)
      <4> DEFINE m == Head(qSrv)
      <4>1. /\ qSig' = qSig /\ qSrv # <<>> /\ qSrv' = Tail(qSrv) /\ m \in RtcMsgType
            /\ \E r \in RtcWorkers : /\ qRtc'[r] = Append(qRtc[r], m)
                                     /\ \A x \in RtcWorkers : x # r => qRtc'[x] = qRtc[x]
        BY <2>2, <3>2, RouteEffect
      <4>2. m.from \in A
        BY <1>0, <1>2, <4>1, TailOf
      <4> HIDE DEF m
      <4>3. \A r \in RtcWorkers : \A k \in 1 .. Len(qRtc'[r]) : qRtc'[r][k].from \in A
        <5>1. PICK r \in RtcWorkers : /\ qRtc'[r] = Append(qRtc[r], m)
                                      /\ \A x \in RtcWorkers : x # r => qRtc'[x] = qRtc[x]
          BY <4>1
        <5>2. \A k \in 1 .. Len(Append(qRtc[r], m)) : Append(qRtc[r], m)[k].from \in A
          BY <1>0, <1>2, <1>3, <4>1, <4>2
        <5> QED BY <1>2, <5>1, <5>2
      <4>4. \A k \in 1 .. Len(qSrv') : qSrv'[k].from \in A
        BY <1>0, <1>2, <1>4, <4>1
      <4> QED BY <1>2, <4>1, <4>3, <4>4
    <3> QED BY <3>1, <3>2
  <2>3. ASSUME DropWithoutCertificate PROVE Goal
    BY <1>0, <1>2, <1>4, <2>3, DropEffect
  <2>4. ASSUME NEW r \in RtcWorkers, ServeRtcMsg(r) PROVE Goal
    <3>1. CASE qRtc' = qRtc /\ qSig' = qSig
      BY <1>2, <2>4, <3>1, ServeEffect
    <3>2. CASE ~(qRtc' = qRtc /\ qSig' = qSig)
      <4>1. PICK m \in RtcMsgType :
               /\ qRtc[r] # <<>> /\ m = qRtc[r][1]
               /\ qRtc'[r] = Tail(qRtc[r])
               /\ \A x \in RtcWorkers : x # r => qRtc'[x] = qRtc[x]
               /\ \/ qSig' = qSig
                  \/ /\ qSig'[m.worker] = Append(qSig[m.worker], m)
                     /\ \A v \in SigWorkers : v # m.worker => qSig'[v] = qSig[v]
        BY <2>4, <3>2, ServeEffect
      <4>2. qSrv' = qSrv
        BY <2>4, ServeEffect
      <4>3. m.from \in A /\ m.worker \in SigWorkers
        <5>1. 1 \in 1 .. Len(qRtc[r])
          BY <1>0, <4>1, TailOf
        <5> QED BY <1>2, <4>1, <5>1 DEF RtcMsgType
      <4>4. \A k \in 1 .. Len(Tail(qRtc[r])) : Tail(qRtc[r])[k].from \in A
        BY <1>0, <1>2, <1>4, <4>1
      <4>5. ASSUME NEW x \in RtcWorkers PROVE \A k \in 1 .. Len(qRtc'[x]) : qRtc'[x][k].from \in A
        BY <1>2, <4>1, <4>4
      <4>6. \A k \in 1 .. Len(Append(qSig[m.worker], m)) :
               Append(qSig[m.worker], m)[k].from \in A
        BY <1>0, <1>2, <1>3, <4>3
      <4>7. ASSUME NEW v \in SigWorkers PROVE \A k \in 1 .. Len(qSig'[v]) : qSig'[v][k].from \in A
        BY <1>2, <4>1, <4>6
      <4> QED BY <1>2, <4>2, <4>5, <4>7
    <3> QED BY <3>1, <3>2
  <2>5. ASSUME NEW w \in SigWorkers, ProcessRtcMsg(w) PROVE Goal
    <3>1. qSrv' = qSrv /\ qRtc' = qRtc
      BY <2>5 DEF ProcessRtcMsg, srvVars, rtcVars
    <3>2. CASE qSig' = qSig
      BY <1>2, <3>1, <3>2
    <3>3. CASE qSig[w] # <<>> /\ qSig' = [qSig EXCEPT ![w] = Tail(@)]
      <4>1. qSig'[w] = Tail(qSig[w]) /\ \A v \in SigWorkers : v # w => qSig'[v] = qSig[v]
        BY <3>3 DEF MInv, MsgTypes
      <4>2. \A v \in SigWorkers : \A k \in 1 .. Len(qSig'[v]) : qSig'[v][k].from \in A
        BY <1>0, <1>2, <1>4, <3>3, <4>1
      <4> QED BY <1>2, <3>1, <4>2
    <3> QED BY <2>5, <3>2, <3>3, ProcessRtcMsgEffect
  <2>6. ASSUME NEW w \in SigWorkers, NEW fd \in Fds, NEW cmd \in Cmds, NEW s \in Streams,
               ReadRequest(w, fd, cmd, s)
        PROVE  Goal
    <3>1. owner[fd] \in A
      BY <2>6, ReadRequestEffect DEF A, Askers, Cmds, AsyncCmds, StopCmds
    <3>2. \A k \in 1 .. Len(qSrv') : qSrv'[k].from \in A
      <4>1. PICK m \in RtcMsgType : qSrv' = Append(qSrv, m) /\ m.from = owner[fd]
        BY <2>6, ReadRequestQueued
      <4> QED BY <1>0, <1>2, <1>3, <3>1, <4>1
    <3>3. qRtc' = qRtc /\ qSig' = qSig
      BY <2>6, ReadRequestQueued
    <3> QED BY <1>2, <3>2, <3>3
  <2> HIDE DEF Goal
  <2>7. Goal
    BY <2>1, <2>2, <2>3, <2>4, <2>5, <2>6, StepKinds
  <2> QED BY <2>7 DEF Goal
(* The replies and the answers.                                            *)
<1>6. /\ \A a \in Addrs : heap'[a] # null =>
            \A k \in 1 .. Len(heap'[a].replies) : heap'[a].replies[k] \in A
      /\ \A c \in Conns : \A k \in 1 .. Len(got'[c]) : got'[c][k] \in A
  <2> DEFINE Goal == /\ \A a \in Addrs : heap'[a] # null =>
                           \A k \in 1 .. Len(heap'[a].replies) : heap'[a].replies[k] \in A
                     /\ \A c \in Conns : \A k \in 1 .. Len(got'[c]) : got'[c][k] \in A
  <2>1. ASSUME heap' = heap, got' = got PROVE Goal
    BY <1>2, <2>1
  <2>2. ASSUME NEW a \in Addrs, NEW d \in A, Replied(a, d), got' = got, d \in Conns PROVE Goal
    <3>1. /\ heap[a] # null /\ heap[a].replies \in Seq(Conns)
          /\ heap'[a].replies = Append(heap[a].replies, d)
          /\ \A b \in Addrs : b # a => heap'[b] = heap[b]
      BY <2>2 DEF Replied
    <3>2. \A k \in 1 .. Len(heap'[a].replies) : heap'[a].replies[k] \in A
      BY <1>2, <2>2, <3>1, AppendTo
    <3>3. \A b \in Addrs : heap'[b] # null =>
             \A k \in 1 .. Len(heap'[b].replies) : heap'[b].replies[k] \in A
      BY <1>2, <3>1, <3>2
    <3> QED BY <1>2, <2>2, <3>3
  <2>3. ASSUME NEW c \in Conns, NEW fd \in Fds, AcceptNewConn(c, fd) PROVE Goal
    BY <2>1, <2>3 DEF AcceptNewConn, objVars, placeVars
  <2>4. ASSUME NEW w \in SigWorkers, NEW a \in Addrs, HandleNewConn(w, a) PROVE Goal
    <3>1. CASE heap' = heap
      BY <2>1, <2>4, <3>1, HandleNewConnEffect
    <3>2. CASE heap' # heap
      <4>1. got' = got /\ heap'[a].replies = <<>> /\ \A b \in Addrs : b # a => heap'[b] = heap[b]
        BY <2>4, <3>2, HandleNewConnEffect
      <4>2. \A b \in Addrs : heap'[b] # null =>
               \A k \in 1 .. Len(heap'[b].replies) : heap'[b].replies[k] \in A
        BY <1>2, <4>1
      <4> QED BY <1>2, <4>1, <4>2
    <3> QED BY <3>1, <3>2
  <2>5. ASSUME NEW w \in SigWorkers, NEW fd \in Fds, RejectUnknownCmd(w, fd) PROVE Goal
    <3>1. owner[fd] \in A
      BY <2>5, RejectUnknownCmdEffect DEF A, Askers
    <3> QED BY <2>2, <2>5, <3>1, RejectUnknownCmdEffect
  <2>6. ASSUME NEW w \in SigWorkers, NotifyRtcServer(w) PROVE Goal
    <3> DEFINE a == pcSig[w].conn
               c == heap[a].client
    <3>1. /\ pcSig[w].at = "notify" /\ a \in Addrs /\ c \in Conns /\ got' = got
          /\ request' = request
          /\ \A b \in Addrs : b # a => heap'[b] = heap[b]
          /\ heap[a] # null
          /\ IF request[c] \in StopCmds THEN Replied(a, c)
             ELSE heap'[a].replies = heap[a].replies
      BY <2>6, NotifyRtcServerEffect
    <3> HIDE DEF a
    <3>2. CASE request[c] \in StopCmds
      <4>1. c \in A
        BY <3>1, <3>2 DEF A, Askers, StopCmds
      <4> QED BY <2>2, <3>1, <3>2, <4>1
    <3>3. CASE request[c] \notin StopCmds
      BY <1>2, <3>1, <3>3
    <3> QED BY <3>2, <3>3
  <2>7. ASSUME NEW w \in SigWorkers, RemoveConnection(w) PROVE Goal
    <3>1. got' = got /\ \A b \in Addrs : heap'[b] # null => heap'[b] = heap[b]
      BY <2>7, RemoveConnectionEffect
    <3> QED BY <1>2, <3>1
  <2>8. ASSUME NEW w \in SigWorkers, ProcessRtcMsg(w) PROVE Goal
    <3>1. got' = got
      BY <2>8, ProcessRtcMsgEffect
    <3>2. CASE heap' = heap
      BY <2>1, <3>1, <3>2
    <3>3. CASE heap' # heap
      <4>1. qSig[w] # <<>> /\ \E a \in Addrs : Replied(a, Head(qSig[w]).from)
        BY <2>8, <3>3, ProcessRtcMsgEffect
      <4>2. Head(qSig[w]).from \in A /\ Head(qSig[w]).from \in Conns
        <5>1. /\ 1 \in 1 .. Len(qSig[w]) /\ Head(qSig[w]) = qSig[w][1]
              /\ Head(qSig[w]) \in RtcMsgType
          BY <1>0, <4>1, TailOf
        <5> QED BY <1>2, <5>1 DEF RtcMsgType
      <4> QED BY <2>2, <3>1, <4>1, <4>2
    <3> QED BY <3>2, <3>3
  <2>9. ASSUME NEW w \in SigWorkers, WriteReply(w) PROVE Goal
    <3>1. PICK c \in Conns, a \in Addrs :
             /\ heap[a] # null /\ heap[a].replies \in Seq(Conns) /\ heap[a].replies # <<>>
             /\ heap'[a].replies = Tail(heap[a].replies)
             /\ \A b \in Addrs : b # a => heap'[b] = heap[b]
             /\ got'[c] = Append(got[c], Head(heap[a].replies))
             /\ \A d \in Conns : d # c => got'[d] = got[d]
      BY <2>9, WriteReplyEffect
    <3> DEFINE q == heap[a].replies
    <3>2. /\ Head(q) \in A /\ Head(q) \in Conns
          /\ \A k \in 1 .. Len(Tail(q)) : Tail(q)[k] \in A
      <4>1. q \in Seq(Conns) /\ q # <<>> /\ \A k \in 1 .. Len(q) : q[k] \in A
        BY <1>2, <3>1
      <4> HIDE DEF q
      <4> QED BY <4>1, TailOf
    <3>3. \A b \in Addrs : heap'[b] # null =>
             \A k \in 1 .. Len(heap'[b].replies) : heap'[b].replies[k] \in A
      BY <1>2, <3>1, <3>2
    <3>4. \A d \in Conns : \A k \in 1 .. Len(got'[d]) : got'[d][k] \in A
      <4>1. \A k \in 1 .. Len(got'[c]) : got'[c][k] \in A
        BY <1>0, <1>2, <3>1, <3>2, AppendTo
      <4> QED BY <1>2, <3>1, <4>1
    <3> QED BY <3>3, <3>4
  <2>10. ASSUME NEW w \in SigWorkers,
                \/ WriteFails(w)
                \/ \E fd \in Fds : ReadFails(w, fd) \/ BeginWrite(w, fd)
                \/ \E a \in Addrs : ProcessTimeout(w, a)
         PROVE  Goal
    <3>1. heap' = heap /\ got' = got
      BY <2>10, CloseFdEffect, BeginWriteEffect
    <3> QED BY <2>1, <3>1
  <2>11. ASSUME NEW w \in SigWorkers, NEW fd \in Fds, NEW cmd \in Cmds, NEW s \in Streams,
                ReadRequest(w, fd, cmd, s)
         PROVE  Goal
    BY <2>1, <2>11, ReadRequestEffect
  <2>12. ASSUME \/ NotifyNewConn \/ RtcServerNext
                \/ \E r \in RtcWorkers : RtcWorkerNext(r)
                \/ UNCHANGED vars
         PROVE  Goal
    BY <2>1, <2>12, ElsewhereEffect
  <2> HIDE DEF Goal
  <2>13. ASSUME NEW w \in SigWorkers, SigWorkerNext(w) PROVE Goal
    BY <2>4, <2>5, <2>6, <2>7, <2>8, <2>9, <2>10, <2>11, <2>13 DEF SigWorkerNext
  <2>14. Goal
    BY <2>3, <2>12, <2>13 DEF Next, SignalingServerNext
  <2> QED BY <2>14 DEF Goal
<1> QED BY <1>5, <1>6 DEF A, Spoken

-----------------------------------------------------------------------------
(* The order of the requests of one stream.  In the history h of who asked *)
(* for a stream, the request m comes before the request p; and m is beyond *)
(* the first n, which have been served.                                    *)
Before(h, m, p) == \A i, j \in 1 .. Len(h) : h[i] = m.from /\ h[j] = p.from => i < j
Beyond(h, n, m) == \E i \in n + 1 .. Len(h) : h[i] = m.from

LEMMA AskedLater ==
    ASSUME NEW h \in Seq(Conns), NEW c \in Conns, \A i \in 1 .. Len(h) : h[i] # c
    PROVE  /\ \A m, p : Before(h, m, p) /\ m.from # c /\ p.from # c => Before(Append(h, c), m, p)
           /\ \A m, p : m.from # c /\ p.from = c => Before(Append(h, c), m, p)
           /\ \A n \in Nat : \A m : Beyond(h, n, m) => Beyond(Append(h, c), n, m)
           /\ \A n \in Nat : \A m : n <= Len(h) /\ m.from = c => Beyond(Append(h, c), n, m)
<1> DEFINE g == Append(h, c)
<1>1. /\ Len(h) \in Nat /\ Len(g) = Len(h) + 1 /\ g[Len(h) + 1] = c
      /\ \A i \in 1 .. Len(h) : g[i] = h[i]
      /\ \A i \in 1 .. Len(g) : i \in 1 .. Len(h) \/ (i = Len(h) + 1 /\ g[i] = c)
  BY AppendTo
<1> HIDE DEF g
<1>2. ASSUME NEW m, NEW p, Before(h, m, p), m.from # c, p.from # c PROVE Before(g, m, p)
  <2>1. ASSUME NEW i \in 1 .. Len(g), NEW j \in 1 .. Len(g), g[i] = m.from, g[j] = p.from
        PROVE  i < j
    <3>1. i \in 1 .. Len(h) /\ j \in 1 .. Len(h) /\ h[i] = m.from /\ h[j] = p.from
      BY <1>1, <1>2, <2>1
    <3> QED BY <1>2, <3>1 DEF Before
  <2> QED BY <2>1 DEF Before
<1>3. ASSUME NEW m, NEW p, m.from # c, p.from = c PROVE Before(g, m, p)
  <2>1. ASSUME NEW i \in 1 .. Len(g), NEW j \in 1 .. Len(g), g[i] = m.from, g[j] = p.from
        PROVE  i < j
    <3>1. i \in 1 .. Len(h)
      BY <1>1, <1>3, <2>1
    <3>2. j = Len(h) + 1
      BY <1>1, <1>3, <2>1
    <3> QED BY <1>1, <3>1, <3>2
  <2> QED BY <2>1 DEF Before
<1>4. ASSUME NEW n \in Nat, NEW m, Beyond(h, n, m) PROVE Beyond(g, n, m)
  <2>1. PICK i \in n + 1 .. Len(h) : h[i] = m.from
    BY <1>4 DEF Beyond
  <2>2. i \in n + 1 .. Len(g) /\ i \in 1 .. Len(h)
    BY <1>1
  <2>3. g[i] = m.from
    BY <1>1, <2>1, <2>2
  <2> QED BY <2>2, <2>3 DEF Beyond
<1>5. ASSUME NEW n \in Nat, NEW m, n <= Len(h), m.from = c PROVE Beyond(g, n, m)
  <2>1. Len(h) + 1 \in n + 1 .. Len(g)
    BY <1>1, <1>5
  <2> QED BY <1>1, <1>5, <2>1 DEF Beyond
<1> QED BY <1>2, <1>3, <1>4, <1>5 DEF g

(* The history g is h without its k-th request; the others keep their      *)
(* order and, if the k-th was unserved, stay beyond what was served.       *)
NoTwice(h) == \A i, j \in 1 .. Len(h) : h[i] = h[j] => i = j

Shortened(h, k, g) ==
    /\ g \in Seq(Conns) /\ Len(g) = Len(h) - 1
    /\ \A j \in 1 .. Len(g) : IF j < k THEN j \in 1 .. Len(h) /\ g[j] = h[j]
                                       ELSE j + 1 \in 1 .. Len(h) /\ g[j] = h[j + 1]
    /\ \A i, j \in 1 .. Len(g) : g[i] = g[j] => i = j
    /\ \A m, p : Before(h, m, p) => Before(g, m, p)
    /\ \A n \in Nat : \A m : n < k /\ Beyond(h, n, m) /\ m.from # h[k] => Beyond(g, n, m)

LEMMA AskedNoMore ==
    ASSUME NEW h \in Seq(Conns), NEW k \in 1 .. Len(h), NoTwice(h)
    PROVE  Shortened(h, k, Without(h, h[k]))
<1> USE DEF NoTwice
<1> DEFINE g == Without(h, h[k])
<1>1. /\ g \in Seq(Conns) /\ Len(g) = Len(h) - 1 /\ Len(h) \in Nat /\ Len(g) \in Nat
      /\ \A j \in 1 .. Len(g) : g[j] = IF j < k THEN h[j] ELSE h[j + 1]
  <2>1. \A j \in 1 .. Len(h) : h[j] = h[k] => j = k
    OBVIOUS
  <2>2. /\ g \in Seq(Conns) /\ Len(g) = Len(h) - 1
        /\ \A j \in 1 .. Len(h) - 1 : g[j] = IF j < k THEN h[j] ELSE h[j + 1]
    BY <2>1, WithoutOne
  <2> QED BY <2>2
<1> HIDE DEF g
<1>2. \A j \in 1 .. Len(g) :
         IF j < k THEN j \in 1 .. Len(h) /\ g[j] = h[j]
                  ELSE j + 1 \in 1 .. Len(h) /\ g[j] = h[j + 1]
  BY <1>1
<1>3. ASSUME NEW i \in 1 .. Len(g), NEW j \in 1 .. Len(g), g[i] = g[j] PROVE i = j
  <2> DEFINE x == IF i < k THEN i ELSE i + 1
             y == IF j < k THEN j ELSE j + 1
  <2>1. x \in 1 .. Len(h) /\ y \in 1 .. Len(h) /\ g[i] = h[x] /\ g[j] = h[y]
    BY <1>2
  <2>2. x = y
    BY <1>3, <2>1
  <2> QED BY <1>1, <2>2
<1>4. ASSUME NEW m, NEW p, Before(h, m, p) PROVE Before(g, m, p)
  <2>1. ASSUME NEW i \in 1 .. Len(g), NEW j \in 1 .. Len(g), g[i] = m.from, g[j] = p.from
        PROVE  i < j
    <3> DEFINE x == IF i < k THEN i ELSE i + 1
               y == IF j < k THEN j ELSE j + 1
    <3>1. x \in 1 .. Len(h) /\ y \in 1 .. Len(h) /\ h[x] = m.from /\ h[y] = p.from
      BY <1>2, <2>1
    <3>2. x < y
      BY <1>4, <3>1 DEF Before
    <3> QED BY <1>1, <3>2
  <2> QED BY <2>1 DEF Before
<1>5. ASSUME NEW n \in Nat, NEW m, n < k, Beyond(h, n, m), m.from # h[k] PROVE Beyond(g, n, m)
  <2>1. PICK i \in n + 1 .. Len(h) : h[i] = m.from
    BY <1>5 DEF Beyond
  <2>2. i # k
    BY <1>5, <2>1
  <2>3. CASE i < k
    <3>1. i \in n + 1 .. Len(g) /\ i \in 1 .. Len(g)
      BY <1>1, <2>3
    <3>2. g[i] = h[i]
      BY <1>1, <2>3, <3>1
    <3> QED BY <2>1, <3>1, <3>2 DEF Beyond
  <2>4. CASE i > k
    <3>1. i - 1 \in n + 1 .. Len(g) /\ i - 1 \in 1 .. Len(g) /\ ~(i - 1 < k) /\ i - 1 + 1 = i
      BY <1>1, <1>5, <2>4
    <3>2. g[i - 1] = h[i]
      BY <1>1, <3>1
    <3> QED BY <2>1, <3>1, <3>2 DEF Beyond
  <2> QED BY <1>1, <2>2, <2>3, <2>4
<1>6. Shortened(h, k, g)
  BY <1>1, <1>2, <1>3, <1>4, <1>5 DEF Shortened
<1> QED BY <1>6 DEF g

(* A request that comes after the next one to be served stays beyond.      *)
LEMMA ServedNext ==
    ASSUME NEW h \in Seq(Conns), NEW n \in Nat, n + 1 <= Len(h), NEW m, h[n + 1] = m.from,
           NEW p, Before(h, m, p), Beyond(h, n, p)
    PROVE  Beyond(h, n + 1, p)
<1>1. PICK i \in n + 1 .. Len(h) : h[i] = p.from
  BY DEF Beyond
<1>2. n + 1 \in 1 .. Len(h) /\ i \in 1 .. Len(h)
  BY LenProperties
<1>3. n + 1 < i
  BY <1>1, <1>2 DEF Before
<1>4. i \in (n + 1) + 1 .. Len(h)
  BY <1>2, <1>3
<1> QED BY <1>1, <1>4 DEF Beyond

(* PerStreamOrder is not inductive: that the head of an RtcWorker's queue  *)
(* is the next request of its stream needs the order of everything that is *)
(* still queued, and that nothing asked and unserved is missing.           *)
Histories ==
    /\ \A s \in Streams : \A i, j \in 1 .. Len(asked[s]) : asked[s][i] = asked[s][j] => i = j
    /\ \A s \in Streams : \A i \in 1 .. Len(asked[s]) : asked[s][i] \in Askers

Sharded ==
    \A r \in RtcWorkers : \A k \in 1 .. Len(qRtc[r]) : Shard[qRtc[r][k].stream] = r

Is(m, s, c) == m.stream = s /\ m.from = c

Pending ==
    \A s \in Streams : \A i \in Len(served[s]) + 1 .. Len(asked[s]) :
       \/ \E k \in 1 .. Len(qSrv) : Is(qSrv[k], s, asked[s][i])
       \/ \E r \in RtcWorkers : \E k \in 1 .. Len(qRtc[r]) : Is(qRtc[r][k], s, asked[s][i])

Unserved ==
    /\ \A k \in 1 .. Len(qSrv) :
          Beyond(asked[qSrv[k].stream], Len(served[qSrv[k].stream]), qSrv[k])
    /\ \A r \in RtcWorkers : \A k \in 1 .. Len(qRtc[r]) :
          Beyond(asked[qRtc[r][k].stream], Len(served[qRtc[r][k].stream]), qRtc[r][k])

InLine ==
    /\ \A k, l \in 1 .. Len(qSrv) :
          k < l /\ qSrv[k].stream = qSrv[l].stream =>
             Before(asked[qSrv[k].stream], qSrv[k], qSrv[l])
    /\ \A r \in RtcWorkers : \A k, l \in 1 .. Len(qRtc[r]) :
          k < l /\ qRtc[r][k].stream = qRtc[r][l].stream =>
             Before(asked[qRtc[r][k].stream], qRtc[r][k], qRtc[r][l])
    /\ \A r \in RtcWorkers : \A k \in 1 .. Len(qRtc[r]), l \in 1 .. Len(qSrv) :
          qRtc[r][k].stream = qSrv[l].stream =>
             Before(asked[qRtc[r][k].stream], qRtc[r][k], qSrv[l])

Order == Histories /\ Sharded /\ Pending /\ Unserved /\ InLine /\ PerStreamOrder

(* What MInv says of single messages and histories.                        *)
LEMMA QueuesTyped ==
    ASSUME MInv
    PROVE  /\ qSrv \in Seq(RtcMsgType) /\ Len(qSrv) \in Nat
           /\ \A k \in 1 .. Len(qSrv) : qSrv[k].stream \in Streams /\ qSrv[k].from \in Conns
           /\ \A r \in RtcWorkers : qRtc[r] \in Seq(RtcMsgType) /\ Len(qRtc[r]) \in Nat
           /\ \A r \in RtcWorkers : \A k \in 1 .. Len(qRtc[r]) :
                 qRtc[r][k].stream \in Streams /\ qRtc[r][k].from \in Conns
           /\ \A w \in SigWorkers : qSig[w] \in Seq(RtcMsgType) /\ Len(qSig[w]) \in Nat
           /\ \A w \in SigWorkers : \A k \in 1 .. Len(qSig[w]) : qSig[w][k].from \in Conns
           /\ \A s \in Streams : asked[s] \in Seq(Conns) /\ served[s] \in Seq(Conns)
           /\ \A s \in Streams : Len(asked[s]) \in Nat /\ Len(served[s]) \in Nat
<1>1. /\ qSrv \in Seq(RtcMsgType)
      /\ \A r \in RtcWorkers : qRtc[r] \in Seq(RtcMsgType)
      /\ \A w \in SigWorkers : qSig[w] \in Seq(RtcMsgType)
      /\ \A s \in Streams : asked[s] \in Seq(Conns) /\ served[s] \in Seq(Conns)
  BY DEF MInv, MsgTypes
<1>2. /\ \A k \in 1 .. Len(qSrv) : qSrv[k] \in RtcMsgType
      /\ \A r \in RtcWorkers : \A k \in 1 .. Len(qRtc[r]) : qRtc[r][k] \in RtcMsgType
      /\ \A w \in SigWorkers : \A k \in 1 .. Len(qSig[w]) : qSig[w][k] \in RtcMsgType
  BY <1>1
<1>3. \A m \in RtcMsgType : m.stream \in Streams /\ m.from \in Conns
  BY DEF RtcMsgType
<1>4. /\ Len(qSrv) \in Nat
      /\ \A r \in RtcWorkers : Len(qRtc[r]) \in Nat
      /\ \A w \in SigWorkers : Len(qSig[w]) \in Nat
      /\ \A s \in Streams : Len(asked[s]) \in Nat /\ Len(served[s]) \in Nat
  BY <1>1, LenProperties
<1> QED BY <1>1, <1>2, <1>3, <1>4

LEMMA OrderQuiet ==
    ASSUME CInv, MInv, Order, [Next]_vars, qSrv' = qSrv, qRtc' = qRtc, asked' = asked,
           served' = served
    PROVE  Order'
<1>1. Askers \subseteq Askers'
  BY AskedForGood
<1>2. Histories'
  BY <1>1 DEF Order, Histories
<1>3. Sharded' /\ Pending' /\ Unserved' /\ InLine' /\ PerStreamOrder'
  BY DEF Order, Sharded, Pending, Unserved, InLine, PerStreamOrder
<1> QED BY <1>2, <1>3 DEF Order

(* A new request is the last of its stream and the last in q_msg_.         *)
LEMMA OrderReadRequest ==
    ASSUME CInv, MInv, Fresh, Spoken, Order, [Next]_vars,
           NEW w \in SigWorkers, NEW fd \in Fds, NEW cmd \in Cmds, NEW s \in Streams,
           ReadRequest(w, fd, cmd, s)
    PROVE  Order'
<1> USE QueuesTyped DEF Order
<1> DEFINE c == owner[fd]
<1>1. c \in Conns /\ c \notin Askers /\ c \in Askers'
  <2>1. c \in Conns /\ request[c] = "none" /\ request'[c] \in Cmds
    BY ReadRequestEffect DEF Fresh
  <2> QED BY <2>1 DEF Askers, Cmds, AsyncCmds, StopCmds
<1>2. /\ qRtc' = qRtc /\ served' = served
      /\ asked'[s] = Append(asked[s], c) /\ \A t \in Streams : t # s => asked'[t] = asked[t]
  BY ReadRequestQueued
<1>3. PICK m \in RtcMsgType : qSrv' = Append(qSrv, m) /\ m.from = c /\ m.stream = s
  BY ReadRequestQueued
<1> HIDE DEF c
<1>4. /\ Len(qSrv') = Len(qSrv) + 1 /\ qSrv'[Len(qSrv) + 1] = m
      /\ \A k \in 1 .. Len(qSrv) : qSrv'[k] = qSrv[k]
      /\ \A k \in 1 .. Len(qSrv') :
            k \in 1 .. Len(qSrv) \/ (k = Len(qSrv) + 1 /\ qSrv'[k] = m)
  BY <1>3, AppendTo
<1>5. /\ Len(asked'[s]) = Len(asked[s]) + 1 /\ asked'[s][Len(asked[s]) + 1] = c
      /\ \A i \in 1 .. Len(asked[s]) : asked'[s][i] = asked[s][i]
      /\ \A i \in 1 .. Len(asked'[s]) :
            i \in 1 .. Len(asked[s]) \/ (i = Len(asked[s]) + 1 /\ asked'[s][i] = c)
  BY <1>1, <1>2, AppendTo
<1>6. ASSUME NEW t \in Streams, NEW i \in 1 .. Len(asked[t]) PROVE asked[t][i] # c
  <2>1. asked[t][i] \in Askers
    BY DEF Histories
  <2> QED BY <1>1, <2>1
<1>7. /\ \A k \in 1 .. Len(qSrv) : qSrv[k].from # c
      /\ \A r \in RtcWorkers : \A k \in 1 .. Len(qRtc[r]) : qRtc[r][k].from # c
  BY <1>1 DEF Spoken
<1>8. /\ \A p, q : Before(asked[s], p, q) /\ p.from # c /\ q.from # c => Before(asked'[s], p, q)
      /\ \A p, q : p.from # c /\ q.from = c => Before(asked'[s], p, q)
      /\ \A n \in Nat : \A p : Beyond(asked[s], n, p) => Beyond(asked'[s], n, p)
      /\ \A n \in Nat : \A p : n <= Len(asked[s]) /\ p.from = c => Beyond(asked'[s], n, p)
  BY <1>1, <1>2, <1>6, AskedLater
<1>9. ASSUME NEW t \in Streams
      PROVE  /\ \A p, q : Before(asked[t], p, q) /\ p.from # c /\ q.from # c => Before(asked'[t], p, q)
             /\ \A n \in Nat : \A p : Beyond(asked[t], n, p) => Beyond(asked'[t], n, p)
  BY <1>2, <1>8
<1>10. Histories'
  <2>1. ASSUME NEW t \in Streams, NEW i \in 1 .. Len(asked'[t]), NEW j \in 1 .. Len(asked'[t]),
               asked'[t][i] = asked'[t][j]
        PROVE  i = j
    <3>1. CASE t # s
      BY <1>2, <2>1, <3>1 DEF Histories
    <3>2. CASE t = s
      <4>1. CASE i \in 1 .. Len(asked[s]) /\ j \in 1 .. Len(asked[s])
        BY <1>5, <2>1, <3>2, <4>1 DEF Histories
      <4>2. CASE i \notin 1 .. Len(asked[s]) \/ j \notin 1 .. Len(asked[s])
        <5>1. i = Len(asked[s]) + 1 \/ j = Len(asked[s]) + 1
          BY <1>5, <3>2, <4>2
        <5>2. asked'[s][i] = c /\ asked'[s][j] = c
          BY <1>5, <2>1, <3>2, <5>1
        <5> QED BY <1>5, <1>6, <3>2, <5>2
      <4> QED BY <4>1, <4>2
    <3> QED BY <3>1, <3>2
  <2>2. ASSUME NEW t \in Streams, NEW i \in 1 .. Len(asked'[t]) PROVE asked'[t][i] \in Askers'
    <3>1. Askers \subseteq Askers'
      BY AskedForGood
    <3> QED BY <1>1, <1>2, <1>5, <3>1 DEF Histories
  <2> QED BY <2>1, <2>2 DEF Histories
<1>11. Sharded'
  BY <1>2 DEF Sharded
<1>12. Pending'
  <2> SUFFICES ASSUME NEW t \in Streams, NEW i \in Len(served[t]) + 1 .. Len(asked'[t])
               PROVE  \/ \E k \in 1 .. Len(qSrv') : Is(qSrv'[k], t, asked'[t][i])
                      \/ \E r \in RtcWorkers : \E k \in 1 .. Len(qRtc[r]) :
                            Is(qRtc[r][k], t, asked'[t][i])
    BY <1>2 DEF Pending
  <2>1. CASE t = s /\ i = Len(asked[s]) + 1
    <3>1. Len(qSrv) + 1 \in 1 .. Len(qSrv')
      BY <1>4
    <3>2. Is(qSrv'[Len(qSrv) + 1], t, asked'[t][i])
      BY <1>3, <1>4, <1>5, <2>1 DEF Is
    <3> QED BY <3>1, <3>2
  <2>2. CASE ~(t = s /\ i = Len(asked[s]) + 1)
    <3>1. i \in Len(served[t]) + 1 .. Len(asked[t]) /\ asked'[t][i] = asked[t][i]
      <4>1. CASE t = s
        <5>1. i \in 1 .. Len(asked'[s])
          BY <4>1
        <5>2. i \in 1 .. Len(asked[s])
          BY <1>5, <2>2, <4>1, <5>1
        <5> QED BY <1>5, <4>1, <5>2
      <4>2. CASE t # s
        BY <1>2, <4>2
      <4> QED BY <4>1, <4>2
    <3>2. \A k \in 1 .. Len(qSrv) : k \in 1 .. Len(qSrv') /\ qSrv'[k] = qSrv[k]
      BY <1>4
    <3>3. \/ \E k \in 1 .. Len(qSrv) : Is(qSrv[k], t, asked[t][i])
          \/ \E r \in RtcWorkers : \E k \in 1 .. Len(qRtc[r]) : Is(qRtc[r][k], t, asked[t][i])
      BY <3>1 DEF Pending
    <3> QED BY <3>1, <3>2, <3>3
  <2> QED BY <2>1, <2>2
<1>13. Unserved'
  <2>1. ASSUME NEW k \in 1 .. Len(qSrv')
        PROVE  Beyond(asked'[qSrv'[k].stream], Len(served[qSrv'[k].stream]), qSrv'[k])
    <3>1. CASE k \in 1 .. Len(qSrv)
      BY <1>4, <1>9, <3>1 DEF Unserved
    <3>2. CASE qSrv'[k] = m
      <4>1. Len(served[s]) <= Len(asked[s]) /\ Len(served[s]) \in Nat
        BY DEF PerStreamOrder
      <4> QED BY <1>3, <1>8, <3>2, <4>1
    <3> QED BY <1>4, <3>1, <3>2
  <2>2. ASSUME NEW r \in RtcWorkers, NEW k \in 1 .. Len(qRtc[r])
        PROVE  Beyond(asked'[qRtc[r][k].stream], Len(served[qRtc[r][k].stream]), qRtc[r][k])
    BY <1>9 DEF Unserved
  <2> QED BY <1>2, <2>1, <2>2 DEF Unserved
<1>14. InLine'
  <2>1. ASSUME NEW k \in 1 .. Len(qSrv'), NEW l \in 1 .. Len(qSrv'), k < l,
               qSrv'[k].stream = qSrv'[l].stream
        PROVE  Before(asked'[qSrv'[k].stream], qSrv'[k], qSrv'[l])
    <3>1. k \in 1 .. Len(qSrv) /\ qSrv'[k] = qSrv[k] /\ qSrv[k].stream \in Streams
      BY <1>4, <2>1
    <3>2. CASE l \in 1 .. Len(qSrv)
      <4>1. Before(asked[qSrv[k].stream], qSrv[k], qSrv[l]) /\ qSrv'[l] = qSrv[l]
        BY <1>4, <2>1, <3>1, <3>2 DEF InLine
      <4> QED BY <1>7, <1>9, <3>1, <3>2, <4>1
    <3>3. CASE qSrv'[l] = m
      BY <1>3, <1>7, <1>8, <2>1, <3>1, <3>3
    <3> QED BY <1>4, <3>2, <3>3
  <2>2. ASSUME NEW r \in RtcWorkers, NEW k \in 1 .. Len(qRtc[r]), NEW l \in 1 .. Len(qRtc[r]),
               k < l, qRtc[r][k].stream = qRtc[r][l].stream
        PROVE  Before(asked'[qRtc[r][k].stream], qRtc[r][k], qRtc[r][l])
    <3>1. Before(asked[qRtc[r][k].stream], qRtc[r][k], qRtc[r][l])
      BY <2>2 DEF InLine
    <3> QED BY <1>7, <1>9, <3>1
  <2>3. ASSUME NEW r \in RtcWorkers, NEW k \in 1 .. Len(qRtc[r]), NEW l \in 1 .. Len(qSrv'),
               qRtc[r][k].stream = qSrv'[l].stream
        PROVE  Before(asked'[qRtc[r][k].stream], qRtc[r][k], qSrv'[l])
    <3>1. CASE l \in 1 .. Len(qSrv)
      <4>1. Before(asked[qRtc[r][k].stream], qRtc[r][k], qSrv[l]) /\ qSrv'[l] = qSrv[l]
        BY <1>4, <2>3, <3>1 DEF InLine
      <4> QED BY <1>7, <1>9, <3>1, <4>1
    <3>2. CASE qSrv'[l] = m
      BY <1>3, <1>7, <1>8, <2>3, <3>2
    <3> QED BY <1>4, <3>1, <3>2
  <2> QED BY <1>2, <2>1, <2>2, <2>3 DEF InLine
<1>15. PerStreamOrder'
  <2>1. ASSUME NEW t \in Streams
        PROVE  /\ Len(served[t]) <= Len(asked'[t])
               /\ \A i \in 1 .. Len(served[t]) : served[t][i] = asked'[t][i]
    <3>1. /\ Len(served[t]) <= Len(asked[t])
          /\ \A i \in 1 .. Len(served[t]) : served[t][i] = asked[t][i]
      BY DEF PerStreamOrder
    <3>2. CASE t = s
      <4>1. \A i \in 1 .. Len(served[s]) : i \in 1 .. Len(asked[s])
        BY <3>1, <3>2
      <4>2. Len(served[s]) <= Len(asked[s]) + 1
        BY <3>1, <3>2
      <4>3. \A i \in 1 .. Len(served[s]) : served[s][i] = asked'[s][i]
        BY <1>5, <3>1, <3>2, <4>1
      <4> QED BY <1>5, <3>2, <4>2, <4>3
    <3>3. CASE t # s
      BY <1>2, <3>1, <3>3
    <3> QED BY <3>2, <3>3
  <2> QED BY <1>2, <2>1 DEF PerStreamOrder
<1> QED BY <1>10, <1>11, <1>12, <1>13, <1>14, <1>15

(* RtcServer moves the first of its queue behind everything the worker of  *)
(* the stream still has.                                                   *)
LEMMA OrderRoute ==
    ASSUME CInv, MInv, Order, [Next]_vars, RouteRtcMsg
    PROVE  Order'
<1> USE QueuesTyped DEF Order
<1>0. asked' = asked /\ served' = served
  BY RouteEffect
<1>1. CASE qSrv' = qSrv /\ qRtc' = qRtc
  BY <1>0, <1>1, OrderQuiet
<1>2. CASE ~(qSrv' = qSrv /\ qRtc' = qRtc)
  <2> DEFINE m == Head(qSrv)
  <2>1. /\ qSrv # <<>> /\ qSrv' = Tail(qSrv) /\ m \in RtcMsgType
        /\ \E r \in RtcWorkers : /\ r = Shard[m.stream] /\ qRtc'[r] = Append(qRtc[r], m)
                                 /\ \A x \in RtcWorkers : x # r => qRtc'[x] = qRtc[x]
    BY <1>2, RouteEffect
  <2>2. PICK r \in RtcWorkers : /\ r = Shard[m.stream] /\ qRtc'[r] = Append(qRtc[r], m)
                                /\ \A x \in RtcWorkers : x # r => qRtc'[x] = qRtc[x]
    BY <2>1
  <2>3. /\ 1 \in 1 .. Len(qSrv) /\ m = qSrv[1] /\ Len(qSrv') = Len(qSrv) - 1
        /\ \A k \in 1 .. Len(qSrv') :
              k + 1 \in 1 .. Len(qSrv) /\ k + 1 # 1 /\ qSrv'[k] = qSrv[k + 1]
    BY <2>1, TailOf
  <2>4. m.stream \in Streams
    BY <2>3
  <2> HIDE DEF m
  <2>5. /\ Len(qRtc'[r]) = Len(qRtc[r]) + 1 /\ qRtc'[r][Len(qRtc[r]) + 1] = m
        /\ \A k \in 1 .. Len(qRtc[r]) : k \in 1 .. Len(qRtc'[r]) /\ qRtc'[r][k] = qRtc[r][k]
        /\ \A k \in 1 .. Len(qRtc'[r]) :
              k \in 1 .. Len(qRtc[r]) \/ (k = Len(qRtc[r]) + 1 /\ qRtc'[r][k] = m)
    <3>1. qRtc[r] \in Seq(RtcMsgType) /\ Len(qRtc[r]) \in Nat
      OBVIOUS
    <3> QED BY <2>1, <2>2, <3>1, AppendTo
  <2>6. \A x \in RtcWorkers : \A k \in 1 .. Len(qRtc'[x]) :
           \/ k \in 1 .. Len(qRtc[x]) /\ qRtc'[x][k] = qRtc[x][k]
           \/ x = r /\ k = Len(qRtc[r]) + 1 /\ qRtc'[x][k] = m
    BY <2>2, <2>5
  <2>7. Histories'
    <3>1. Askers \subseteq Askers'
      BY AskedForGood
    <3> QED BY <1>0, <3>1 DEF Histories
  <2>8. Sharded'
    BY <2>2, <2>6 DEF Sharded
  <2>9. Pending'
    <3> SUFFICES ASSUME NEW t \in Streams, NEW i \in Len(served[t]) + 1 .. Len(asked[t])
                 PROVE  \/ \E k \in 1 .. Len(qSrv') : Is(qSrv'[k], t, asked[t][i])
                        \/ \E x \in RtcWorkers : \E k \in 1 .. Len(qRtc'[x]) :
                              Is(qRtc'[x][k], t, asked[t][i])
      BY <1>0 DEF Pending
    <3>1. \/ \E k \in 1 .. Len(qSrv) : Is(qSrv[k], t, asked[t][i])
          \/ \E x \in RtcWorkers : \E k \in 1 .. Len(qRtc[x]) : Is(qRtc[x][k], t, asked[t][i])
      BY DEF Pending
    <3>2. ASSUME NEW x \in RtcWorkers, NEW k \in 1 .. Len(qRtc[x]), Is(qRtc[x][k], t, asked[t][i])
          PROVE  \E l \in 1 .. Len(qRtc'[x]) : Is(qRtc'[x][l], t, asked[t][i])
      <4>1. k \in 1 .. Len(qRtc'[x]) /\ qRtc'[x][k] = qRtc[x][k]
        BY <2>2, <2>5
      <4> QED BY <3>2, <4>1
    <3>3. ASSUME NEW k \in 1 .. Len(qSrv), Is(qSrv[k], t, asked[t][i])
          PROVE  \/ \E l \in 1 .. Len(qSrv') : Is(qSrv'[l], t, asked[t][i])
                 \/ \E l \in 1 .. Len(qRtc'[r]) : Is(qRtc'[r][l], t, asked[t][i])
      <4>1. CASE k = 1
        <5>1. Len(qRtc[r]) + 1 \in 1 .. Len(qRtc'[r]) /\ qRtc'[r][Len(qRtc[r]) + 1] = qSrv[k]
          BY <2>3, <2>5, <4>1
        <5> QED BY <3>3, <5>1
      <4>2. CASE k # 1
        <5>1. k - 1 \in 1 .. Len(qSrv') /\ (k - 1) + 1 = k
          BY <2>3, <4>2
        <5>2. qSrv'[k - 1] = qSrv[k]
          BY <2>3, <5>1
        <5> QED BY <3>3, <5>1, <5>2
      <4> QED BY <4>1, <4>2
    <3> QED BY <3>1, <3>2, <3>3
  <2>10. Unserved'
    <3>1. Beyond(asked[m.stream], Len(served[m.stream]), m)
      BY <2>3 DEF Unserved
    <3>2. ASSUME NEW k \in 1 .. Len(qSrv')
          PROVE  Beyond(asked[qSrv'[k].stream], Len(served[qSrv'[k].stream]), qSrv'[k])
      BY <2>3 DEF Unserved
    <3>3. ASSUME NEW x \in RtcWorkers, NEW k \in 1 .. Len(qRtc'[x])
          PROVE  Beyond(asked[qRtc'[x][k].stream], Len(served[qRtc'[x][k].stream]), qRtc'[x][k])
      BY <2>6, <3>1 DEF Unserved
    <3> QED BY <1>0, <3>2, <3>3 DEF Unserved
  <2>11. InLine'
    <3>1. ASSUME NEW k \in 1 .. Len(qSrv'), NEW l \in 1 .. Len(qSrv'), k < l,
                 qSrv'[k].stream = qSrv'[l].stream
          PROVE  Before(asked[qSrv'[k].stream], qSrv'[k], qSrv'[l])
      <4>1. /\ k + 1 \in 1 .. Len(qSrv) /\ qSrv'[k] = qSrv[k + 1]
            /\ l + 1 \in 1 .. Len(qSrv) /\ qSrv'[l] = qSrv[l + 1] /\ k + 1 < l + 1
        BY <2>3, <3>1
      <4> QED BY <3>1, <4>1 DEF InLine
    <3>2. ASSUME NEW x \in RtcWorkers, NEW k \in 1 .. Len(qRtc'[x]), NEW l \in 1 .. Len(qRtc'[x]),
                 k < l, qRtc'[x][k].stream = qRtc'[x][l].stream
          PROVE  Before(asked[qRtc'[x][k].stream], qRtc'[x][k], qRtc'[x][l])
      <4>1. k \in 1 .. Len(qRtc[x]) /\ qRtc'[x][k] = qRtc[x][k]
        BY <2>2, <2>5, <2>6, <3>2
      <4>2. CASE l \in 1 .. Len(qRtc[x]) /\ qRtc'[x][l] = qRtc[x][l]
        BY <3>2, <4>1, <4>2 DEF InLine
      <4>3. CASE qRtc'[x][l] = m
        BY <2>3, <3>2, <4>1, <4>3 DEF InLine
      <4> QED BY <2>6, <4>2, <4>3
    <3>3. ASSUME NEW x \in RtcWorkers, NEW k \in 1 .. Len(qRtc'[x]), NEW l \in 1 .. Len(qSrv'),
                 qRtc'[x][k].stream = qSrv'[l].stream
          PROVE  Before(asked[qRtc'[x][k].stream], qRtc'[x][k], qSrv'[l])
      <4>1. l + 1 \in 1 .. Len(qSrv) /\ qSrv'[l] = qSrv[l + 1] /\ 1 < l + 1
        BY <2>3
      <4>2. CASE k \in 1 .. Len(qRtc[x]) /\ qRtc'[x][k] = qRtc[x][k]
        BY <3>3, <4>1, <4>2 DEF InLine
      <4>3. CASE qRtc'[x][k] = m
        BY <2>3, <3>3, <4>1, <4>3 DEF InLine
      <4> QED BY <2>6, <4>2, <4>3
    <3> QED BY <1>0, <3>1, <3>2, <3>3 DEF InLine
  <2>12. PerStreamOrder'
    BY <1>0 DEF PerStreamOrder
  <2> QED BY <2>7, <2>8, <2>9, <2>10, <2>11, <2>12
<1> QED BY <1>1, <1>2

(* The head of an RtcWorker's queue is the next request of its stream.     *)
LEMMA HeadIsNext ==
    ASSUME MInv, Order, NEW r \in RtcWorkers, 1 \in 1 .. Len(qRtc[r]),
           NEW s \in Streams, qRtc[r][1].stream = s
    PROVE  /\ Len(served[s]) + 1 \in 1 .. Len(asked[s])
           /\ asked[s][Len(served[s]) + 1] = qRtc[r][1].from
<1> USE QueuesTyped DEF Order
<1> DEFINE n == Len(served[s])
           m == qRtc[r][1]
<1>1. n \in Nat /\ Len(asked[s]) \in Nat
  OBVIOUS
<1>2. PICK i \in n + 1 .. Len(asked[s]) : asked[s][i] = m.from
  BY DEF Unserved, Beyond
<1>3. n + 1 \in 1 .. Len(asked[s]) /\ n + 1 \in n + 1 .. Len(asked[s]) /\ i \in 1 .. Len(asked[s])
  BY <1>1
<1>4. \/ \E k \in 1 .. Len(qSrv) : Is(qSrv[k], s, asked[s][n + 1])
      \/ \E x \in RtcWorkers : \E k \in 1 .. Len(qRtc[x]) : Is(qRtc[x][k], s, asked[s][n + 1])
  BY <1>3 DEF Pending
<1> HIDE DEF n
<1>5. ASSUME NEW k \in 1 .. Len(qSrv), Is(qSrv[k], s, asked[s][n + 1]) PROVE i = n + 1
  <2>1. Before(asked[s], m, qSrv[k])
    BY <1>5 DEF InLine, Is
  <2>2. i < n + 1
    BY <1>2, <1>3, <1>5, <2>1 DEF Before, Is
  <2> QED BY <1>1, <2>2
<1>6. ASSUME NEW x \in RtcWorkers, NEW k \in 1 .. Len(qRtc[x]), Is(qRtc[x][k], s, asked[s][n + 1])
      PROVE  i = n + 1
  <2>1. x = r
    <3>1. Shard[s] = x /\ Shard[s] = r
      BY <1>6 DEF Sharded, Is
    <3> QED BY <3>1
  <2>2. CASE k = 1
    <3>1. asked[s][i] = asked[s][n + 1]
      BY <1>2, <1>6, <2>1, <2>2 DEF Is
    <3> QED BY <1>3, <3>1 DEF Histories
  <2>3. CASE k # 1
    <3>1. k \in 1 .. Len(qRtc[r]) /\ 1 < k
      BY <1>6, <2>1, <2>3
    <3>2. Before(asked[s], m, qRtc[r][k])
      BY <1>6, <2>1, <3>1 DEF InLine, Is
    <3>3. i < n + 1
      BY <1>2, <1>3, <1>6, <2>1, <3>2 DEF Before, Is
    <3> QED BY <1>1, <3>3
  <2> QED BY <2>2, <2>3
<1>7. i = n + 1
  BY <1>4, <1>5, <1>6
<1> QED BY <1>2, <1>3, <1>7 DEF n

LEMMA OrderServe ==
    ASSUME CInv, MInv, Order, [Next]_vars, NEW r \in RtcWorkers, ServeRtcMsg(r)
    PROVE  Order'
<1> USE QueuesTyped DEF Order
<1>0. asked' = asked /\ qSrv' = qSrv
  BY ServeEffect
<1>1. CASE qRtc' = qRtc /\ served' = served
  BY <1>0, <1>1, OrderQuiet
<1>2. CASE ~(qRtc' = qRtc /\ served' = served)
  <2>1. PICK m \in RtcMsgType :
           /\ qRtc[r] # <<>> /\ m = qRtc[r][1]
           /\ qRtc'[r] = Tail(qRtc[r])
           /\ \A x \in RtcWorkers : x # r => qRtc'[x] = qRtc[x]
           /\ served'[m.stream] = Append(served[m.stream], m.from)
           /\ \A t \in Streams : t # m.stream => served'[t] = served[t]
    BY <1>2, ServeEffect
  <2> DEFINE s == m.stream
             n == Len(served[s])
  <2>2. /\ 1 \in 1 .. Len(qRtc[r]) /\ Len(qRtc'[r]) = Len(qRtc[r]) - 1
        /\ \A k \in 1 .. Len(qRtc'[r]) :
              k + 1 \in 1 .. Len(qRtc[r]) /\ k + 1 # 1 /\ qRtc'[r][k] = qRtc[r][k + 1]
    <3>1. qRtc[r] \in Seq(RtcMsgType)
      OBVIOUS
    <3> QED BY <2>1, <3>1, TailOf
  <2>3. s \in Streams /\ m.from \in Conns
    BY DEF RtcMsgType
  <2>4. n + 1 \in 1 .. Len(asked[s]) /\ asked[s][n + 1] = m.from /\ n \in Nat
    BY <2>1, <2>2, <2>3, HeadIsNext
  <2> HIDE DEF s
  <2>5. /\ Len(served'[s]) = n + 1 /\ served'[s][n + 1] = m.from
        /\ \A i \in 1 .. n : served'[s][i] = served[s][i]
    <3>1. served[s] \in Seq(Conns) /\ served'[s] = Append(served[s], m.from)
      BY <2>1, <2>3 DEF s
    <3> QED BY <2>3, <3>1, AppendTo
  <2>6. \A t \in Streams : t # s => served'[t] = served[t]
    BY <2>1 DEF s
  <2> HIDE DEF n
  <2>7. Histories'
    <3>1. Askers \subseteq Askers'
      BY AskedForGood
    <3> QED BY <1>0, <3>1 DEF Histories
  <2>8. \A x \in RtcWorkers : \A k \in 1 .. Len(qRtc'[x]) :
           \/ x # r /\ k \in 1 .. Len(qRtc[x]) /\ qRtc'[x][k] = qRtc[x][k]
           \/ /\ x = r /\ k + 1 \in 1 .. Len(qRtc[x]) /\ qRtc'[x][k] = qRtc[x][k + 1]
              /\ 1 < k + 1
    <3> SUFFICES ASSUME NEW x \in RtcWorkers, NEW k \in 1 .. Len(qRtc'[x])
                 PROVE  \/ x # r /\ k \in 1 .. Len(qRtc[x]) /\ qRtc'[x][k] = qRtc[x][k]
                        \/ /\ x = r /\ k + 1 \in 1 .. Len(qRtc[x])
                           /\ qRtc'[x][k] = qRtc[x][k + 1] /\ 1 < k + 1
      OBVIOUS
    <3>1. CASE x = r
      <4>1. k \in 1 .. Len(qRtc'[r])
        BY <3>1
      <4>2. k + 1 \in 1 .. Len(qRtc[r]) /\ qRtc'[r][k] = qRtc[r][k + 1]
        BY <2>2, <4>1
      <4>3. k \in Nat /\ k > 0
        BY <2>2, <4>1
      <4> QED BY <3>1, <4>2, <4>3
    <3>2. CASE x # r
      <4>1. qRtc'[x] = qRtc[x]
        BY <2>1, <3>2
      <4> QED BY <3>2, <4>1
    <3> QED BY <3>1, <3>2
  <2>9. Sharded'
    <3> SUFFICES ASSUME NEW x \in RtcWorkers, NEW k \in 1 .. Len(qRtc'[x])
                 PROVE  Shard[qRtc'[x][k].stream] = x
      BY DEF Sharded
    <3>1. PICK j \in 1 .. Len(qRtc[x]) : qRtc'[x][k] = qRtc[x][j]
      BY <2>8
    <3> QED BY <3>1 DEF Sharded
  <2>10. Pending'
    <3> SUFFICES ASSUME NEW t \in Streams, NEW i \in Len(served'[t]) + 1 .. Len(asked[t])
                 PROVE  \/ \E k \in 1 .. Len(qSrv) : Is(qSrv[k], t, asked[t][i])
                        \/ \E x \in RtcWorkers : \E k \in 1 .. Len(qRtc'[x]) :
                              Is(qRtc'[x][k], t, asked[t][i])
      BY <1>0 DEF Pending
    <3>1. i \in Len(served[t]) + 1 .. Len(asked[t]) /\ (t = s => i # n + 1)
      <4>1. CASE t = s
        BY <2>4, <2>5, <4>1 DEF n
      <4>2. CASE t # s
        BY <2>6, <4>2
      <4> QED BY <4>1, <4>2
    <3>2. \/ \E k \in 1 .. Len(qSrv) : Is(qSrv[k], t, asked[t][i])
          \/ \E x \in RtcWorkers : \E k \in 1 .. Len(qRtc[x]) : Is(qRtc[x][k], t, asked[t][i])
      BY <3>1 DEF Pending
    <3>3. ASSUME NEW x \in RtcWorkers, NEW k \in 1 .. Len(qRtc[x]), Is(qRtc[x][k], t, asked[t][i])
          PROVE  \E l \in 1 .. Len(qRtc'[x]) : Is(qRtc'[x][l], t, asked[t][i])
      <4>1. CASE x # r
        <5>1. qRtc'[x] = qRtc[x]
          BY <2>1, <4>1
        <5> QED BY <3>3, <5>1
      <4>2. CASE x = r
        <5>1. k # 1
          <6>1. SUFFICES ASSUME k = 1 PROVE FALSE
            OBVIOUS
          <6>2. t = s /\ asked[t][i] = asked[s][n + 1]
            BY <2>1, <2>4, <3>3, <4>2, <6>1 DEF Is, s
          <6>3. i \in 1 .. Len(asked[s])
            BY <3>1, <6>2
          <6>4. i = n + 1
            BY <2>4, <6>2, <6>3 DEF Histories
          <6> QED BY <3>1, <6>2, <6>4
        <5>2. k - 1 \in 1 .. Len(qRtc'[r]) /\ (k - 1) + 1 = k
          BY <2>2, <4>2, <5>1
        <5>3. qRtc'[r][k - 1] = qRtc[r][k]
          BY <2>2, <5>2
        <5> QED BY <3>3, <4>2, <5>2, <5>3
      <4> QED BY <4>1, <4>2
    <3> QED BY <3>2, <3>3
  <2>11. ASSUME NEW p, p.stream \in Streams,
                Beyond(asked[p.stream], Len(served[p.stream]), p),
                p.stream = s => Before(asked[s], m, p)
         PROVE  Beyond(asked[p.stream], Len(served'[p.stream]), p)
    <3>1. CASE p.stream = s
      <4>1. asked[s] \in Seq(Conns) /\ n + 1 <= Len(asked[s])
        BY <2>3, <2>4
      <4>2. Before(asked[s], m, p) /\ Beyond(asked[s], n, p)
        BY <2>11, <3>1 DEF n
      <4>3. Beyond(asked[s], n + 1, p)
        BY <2>4, <4>1, <4>2, ServedNext
      <4> QED BY <2>5, <3>1, <4>3
    <3>2. CASE p.stream # s
      BY <2>6, <2>11, <3>2
    <3> QED BY <3>1, <3>2
  <2>12. Unserved'
    <3>1. ASSUME NEW k \in 1 .. Len(qSrv)
          PROVE  Beyond(asked[qSrv[k].stream], Len(served'[qSrv[k].stream]), qSrv[k])
      <4>1. qSrv[k].stream = s => Before(asked[s], m, qSrv[k])
        BY <2>1, <2>2 DEF InLine, s
      <4> QED BY <2>11, <4>1 DEF Unserved
    <3>2. ASSUME NEW x \in RtcWorkers, NEW k \in 1 .. Len(qRtc'[x])
          PROVE  Beyond(asked[qRtc'[x][k].stream], Len(served'[qRtc'[x][k].stream]), qRtc'[x][k])
      <4>1. CASE x # r /\ k \in 1 .. Len(qRtc[x]) /\ qRtc'[x][k] = qRtc[x][k]
        <5>1. qRtc[x][k].stream # s
          <6>1. Shard[qRtc[x][k].stream] = x /\ Shard[s] = r
            BY <2>1, <2>2, <4>1 DEF Sharded, s
          <6> QED BY <4>1, <6>1
        <5>2. /\ qRtc[x][k].stream \in Streams
              /\ Beyond(asked[qRtc[x][k].stream], Len(served[qRtc[x][k].stream]), qRtc[x][k])
          BY <4>1 DEF Unserved
        <5> QED BY <2>11, <4>1, <5>1, <5>2
      <4>2. CASE /\ x = r /\ k + 1 \in 1 .. Len(qRtc[x]) /\ qRtc'[x][k] = qRtc[x][k + 1]
                 /\ 1 < k + 1
        <5> DEFINE p == qRtc[r][k + 1]
        <5>1. p.stream \in Streams /\ Beyond(asked[p.stream], Len(served[p.stream]), p)
          BY <4>2 DEF Unserved
        <5>2. p.stream = s => Before(asked[s], m, p)
          BY <2>1, <2>2, <4>2 DEF InLine, s
        <5> QED BY <2>11, <4>2, <5>1, <5>2
      <4> QED BY <2>8, <4>1, <4>2
    <3> QED BY <1>0, <3>1, <3>2 DEF Unserved
  <2>13. InLine'
    <3>1. ASSUME NEW x \in RtcWorkers, NEW k \in 1 .. Len(qRtc'[x]), NEW l \in 1 .. Len(qRtc'[x]),
                 k < l, qRtc'[x][k].stream = qRtc'[x][l].stream
          PROVE  Before(asked[qRtc'[x][k].stream], qRtc'[x][k], qRtc'[x][l])
      <4>1. CASE x # r
        <5>1. qRtc'[x] = qRtc[x]
          BY <2>1, <4>1
        <5> QED BY <3>1, <5>1 DEF InLine
      <4>2. CASE x = r
        <5>1. /\ k + 1 \in 1 .. Len(qRtc[r]) /\ qRtc'[r][k] = qRtc[r][k + 1]
              /\ l + 1 \in 1 .. Len(qRtc[r]) /\ qRtc'[r][l] = qRtc[r][l + 1] /\ k + 1 < l + 1
          BY <2>2, <3>1, <4>2
        <5> QED BY <3>1, <4>2, <5>1 DEF InLine
      <4> QED BY <4>1, <4>2
    <3>2. ASSUME NEW x \in RtcWorkers, NEW k \in 1 .. Len(qRtc'[x]), NEW l \in 1 .. Len(qSrv),
                 qRtc'[x][k].stream = qSrv[l].stream
          PROVE  Before(asked[qRtc'[x][k].stream], qRtc'[x][k], qSrv[l])
      <4>1. PICK j \in 1 .. Len(qRtc[x]) : qRtc'[x][k] = qRtc[x][j]
        BY <2>8
      <4> QED BY <3>2, <4>1 DEF InLine
    <3> QED BY <1>0, <3>1, <3>2 DEF InLine
  <2>14. PerStreamOrder'
    <3>1. ASSUME NEW t \in Streams
          PROVE  /\ Len(served'[t]) <= Len(asked[t])
                 /\ \A i \in 1 .. Len(served'[t]) : served'[t][i] = asked[t][i]
      <4>1. CASE t = s
        <5>1. ASSUME NEW i \in 1 .. n + 1 PROVE served'[s][i] = asked[s][i]
          <6>1. CASE i = n + 1
            BY <2>4, <2>5, <6>1
          <6>2. CASE i # n + 1
            <7>1. i \in 1 .. n
              BY <2>4, <6>2
            <7> QED BY <2>3, <2>5, <7>1 DEF PerStreamOrder, n
          <6> QED BY <6>1, <6>2
        <5> QED BY <2>4, <2>5, <4>1, <5>1
      <4>2. CASE t # s
        BY <2>6, <4>2 DEF PerStreamOrder
      <4> QED BY <4>1, <4>2
    <3> QED BY <1>0, <3>1 DEF PerStreamOrder
  <2> QED BY <2>7, <2>9, <2>10, <2>12, <2>13, <2>14
<1> QED BY <1>1, <1>2

(* A request without a certificate leaves its place to the ones behind it. *)
LEMMA OrderDrop ==
    ASSUME CInv, MInv, Order, [Next]_vars, DropWithoutCertificate
    PROVE  Order'
<1> USE QueuesTyped DEF Order
<1>0. qRtc' = qRtc /\ served' = served
  BY DropEffect
<1>1. PICK m \in RtcMsgType :
         /\ qSrv # <<>> /\ m = qSrv[1] /\ qSrv' = Tail(qSrv)
         /\ asked'[m.stream] = Without(asked[m.stream], m.from)
         /\ \A t \in Streams : t # m.stream => asked'[t] = asked[t]
  BY DropEffect
<1>2. /\ 1 \in 1 .. Len(qSrv) /\ Len(qSrv') = Len(qSrv) - 1
      /\ \A l \in 1 .. Len(qSrv') :
            l + 1 \in 1 .. Len(qSrv) /\ l + 1 # 1 /\ qSrv'[l] = qSrv[l + 1]
  BY <1>1, TailOf
<1> DEFINE s == m.stream
           h == asked[s]
           g == asked'[s]
           n == Len(served[s])
<1>3. s \in Streams /\ m.from \in Conns
  BY DEF RtcMsgType
<1>4. h \in Seq(Conns) /\ n \in Nat /\ Len(h) \in Nat
  BY <1>3
<1>5. PICK k \in n + 1 .. Len(h) : h[k] = m.from
  BY <1>1, <1>2 DEF Unserved, Beyond
<1>6. \A t \in Streams : t # s => asked'[t] = asked[t]
  BY <1>1
<1>7. k \in 1 .. Len(h) /\ n < k
  BY <1>4
<1>8. \A i, j \in 1 .. Len(h) : h[i] = h[j] => i = j
  BY <1>3 DEF Histories
<1>9. g = Without(h, h[k])
  BY <1>1, <1>5
<1> HIDE DEF h, g, n
<1>10. /\ g \in Seq(Conns) /\ Len(g) = Len(h) - 1
       /\ \A j \in 1 .. Len(g) :
             IF j < k THEN j \in 1 .. Len(h) /\ g[j] = h[j]
                      ELSE j + 1 \in 1 .. Len(h) /\ g[j] = h[j + 1]
       /\ \A i, j \in 1 .. Len(g) : g[i] = g[j] => i = j
       /\ \A x, p : Before(h, x, p) => Before(g, x, p)
       /\ \A i \in Nat : \A x : i < k /\ Beyond(h, i, x) /\ x.from # h[k] => Beyond(g, i, x)
  <2>1. NoTwice(h)
    BY <1>8 DEF NoTwice
  <2>2. Shortened(h, k, Without(h, h[k]))
    BY <1>4, <1>7, <2>1, AskedNoMore
  <2>3. Shortened(h, k, g)
    BY <1>9, <2>2
  <2> QED BY <2>3 DEF Shortened
<1>11. h = asked[s] /\ g = asked'[s] /\ n = Len(served[s])
  BY DEF h, g, n
<1> HIDE DEF s
<1>12. ASSUME NEW i \in 1 .. Len(g)
       PROVE  \E j \in 1 .. Len(h) : /\ g[i] = h[j] /\ j # k /\ (i < k => j = i)
                                     /\ (i > n => j > n)
  <2>1. CASE i < k
    <3>1. i \in 1 .. Len(h) /\ g[i] = h[i]
      BY <1>10, <2>1
    <3> QED BY <2>1, <3>1
  <2>2. CASE ~(i < k)
    <3>1. i + 1 \in 1 .. Len(h) /\ g[i] = h[i + 1]
      BY <1>10, <2>2
    <3>2. i \in Int /\ k \in Int /\ i >= k /\ i + 1 # k /\ (i > n => i + 1 > n)
      BY <1>4, <1>7, <1>10, <2>2
    <3> QED BY <2>2, <3>1, <3>2
  <2> QED BY <2>1, <2>2
<1>13. Histories'
  <2>1. Askers \subseteq Askers'
    BY AskedForGood
  <2> DEFINE A == Askers'
  <2>2. \A t \in Streams : \A i, j \in 1 .. Len(asked'[t]) : asked'[t][i] = asked'[t][j] => i = j
    <3>1. ASSUME NEW t \in Streams
          PROVE  \A i, j \in 1 .. Len(asked'[t]) : asked'[t][i] = asked'[t][j] => i = j
      <4>1. CASE t = s
        BY <1>10, <1>11, <4>1
      <4>2. CASE t # s
        BY <1>6, <4>2 DEF Histories
      <4> QED BY <4>1, <4>2
    <3> QED BY <3>1
  <2>3. \A t \in Streams : \A i \in 1 .. Len(asked'[t]) : asked'[t][i] \in A
    <3>1. ASSUME NEW t \in Streams, NEW i \in 1 .. Len(asked'[t]) PROVE asked'[t][i] \in A
      <4>1. CASE t = s
        <5>1. i \in 1 .. Len(g)
          BY <1>11, <4>1
        <5>2. PICK j \in 1 .. Len(h) : g[i] = h[j]
          BY <1>12, <5>1
        <5>3. h[j] \in Askers
          BY <1>3, <1>11, <4>1 DEF Histories
        <5> QED BY <1>11, <2>1, <4>1, <5>2, <5>3
      <4>2. CASE t # s
        BY <1>6, <2>1, <4>2 DEF Histories
      <4> QED BY <4>1, <4>2
    <3> QED BY <3>1
  <2> QED BY <2>2, <2>3 DEF Histories
<1>14. Sharded'
  BY <1>0 DEF Sharded
<1>15. Pending'
  <2> SUFFICES ASSUME NEW t \in Streams, NEW i \in Len(served[t]) + 1 .. Len(asked'[t])
               PROVE  \/ \E l \in 1 .. Len(qSrv') : Is(qSrv'[l], t, asked'[t][i])
                      \/ \E x \in RtcWorkers : \E l \in 1 .. Len(qRtc[x]) :
                            Is(qRtc[x][l], t, asked'[t][i])
    BY <1>0 DEF Pending
  <2>1. PICK j \in Len(served[t]) + 1 .. Len(asked[t]) :
           asked'[t][i] = asked[t][j] /\ (t = s => j # k)
    <3>1. CASE t = s
      <4>1. i \in 1 .. Len(g) /\ i > n
        BY <1>4, <1>10, <1>11, <3>1
      <4>2. PICK j \in 1 .. Len(h) : g[i] = h[j] /\ j # k /\ j > n
        BY <1>12, <4>1
      <4>3. j \in n + 1 .. Len(h)
        BY <1>4, <4>2
      <4> QED BY <1>11, <3>1, <4>2, <4>3
    <3>2. CASE t # s
      BY <1>6, <3>2
    <3> QED BY <3>1, <3>2
  <2>2. \/ \E l \in 1 .. Len(qSrv) : Is(qSrv[l], t, asked[t][j])
        \/ \E x \in RtcWorkers : \E l \in 1 .. Len(qRtc[x]) : Is(qRtc[x][l], t, asked[t][j])
    BY <2>1 DEF Pending
  <2>3. ASSUME NEW l \in 1 .. Len(qSrv), Is(qSrv[l], t, asked[t][j])
        PROVE  \E e \in 1 .. Len(qSrv') : Is(qSrv'[e], t, asked[t][j])
    <3>1. l # 1
      <4>1. SUFFICES ASSUME l = 1 PROVE FALSE
        OBVIOUS
      <4>2. t = s /\ m.from = asked[t][j]
        BY <1>1, <2>3, <4>1 DEF Is, s
      <4>3. j \in 1 .. Len(h) /\ h[j] = h[k]
        <5>1. j \in n + 1 .. Len(h)
          BY <1>11, <2>1, <4>2
        <5> QED BY <1>4, <1>5, <1>11, <4>2, <5>1
      <4>4. j = k
        BY <1>7, <1>8, <4>3
      <4> QED BY <2>1, <4>2, <4>4
    <3>2. l - 1 \in 1 .. Len(qSrv') /\ (l - 1) + 1 = l
      BY <1>2, <3>1
    <3>3. qSrv'[l - 1] = qSrv[l]
      BY <1>2, <3>2
    <3> QED BY <2>3, <3>2, <3>3
  <2> QED BY <2>1, <2>2, <2>3
<1>16. ASSUME NEW p, p.stream \in Streams, Beyond(asked[p.stream], Len(served[p.stream]), p),
              p.stream = s => p.from # h[k]
       PROVE  Beyond(asked'[p.stream], Len(served[p.stream]), p)
  <2>1. CASE p.stream = s
    <3>1. Beyond(h, n, p) /\ p.from # h[k] /\ n < k
      BY <1>7, <1>11, <1>16, <2>1
    <3>2. Beyond(g, n, p)
      BY <1>4, <1>10, <3>1
    <3> QED BY <1>11, <2>1, <3>2
  <2>2. CASE p.stream # s
    BY <1>6, <1>16, <2>2
  <2> QED BY <2>1, <2>2
<1>17. Unserved'
  <2>1. ASSUME NEW l \in 1 .. Len(qSrv')
        PROVE  Beyond(asked'[qSrv'[l].stream], Len(served[qSrv'[l].stream]), qSrv'[l])
    <3> DEFINE p == qSrv[l + 1]
    <3>1. l + 1 \in 1 .. Len(qSrv) /\ qSrv'[l] = p /\ 1 < l + 1
      BY <1>2
    <3>2. p.stream \in Streams /\ Beyond(asked[p.stream], Len(served[p.stream]), p)
      BY <3>1 DEF Unserved
    <3>3. p.stream = s => p.from # h[k]
      <4>1. SUFFICES ASSUME p.stream = s, p.from = h[k] PROVE FALSE
        OBVIOUS
      <4>2. Before(h, m, p)
        BY <1>1, <1>2, <1>11, <3>1, <4>1 DEF InLine, s
      <4>3. k < k
        BY <1>5, <1>7, <4>1, <4>2 DEF Before
      <4> QED BY <1>7, <4>3
    <3> HIDE DEF p
    <3> QED BY <1>16, <3>1, <3>2, <3>3
  <2>2. ASSUME NEW x \in RtcWorkers, NEW l \in 1 .. Len(qRtc[x])
        PROVE  Beyond(asked'[qRtc[x][l].stream], Len(served[qRtc[x][l].stream]), qRtc[x][l])
    <3> DEFINE p == qRtc[x][l]
    <3>1. p.stream \in Streams /\ Beyond(asked[p.stream], Len(served[p.stream]), p)
      BY DEF Unserved
    <3>2. p.stream = s => p.from # h[k]
      <4>1. SUFFICES ASSUME p.stream = s, p.from = h[k] PROVE FALSE
        OBVIOUS
      <4>2. Before(h, p, m)
        BY <1>1, <1>2, <1>11, <4>1 DEF InLine, s
      <4>3. k < k
        BY <1>5, <1>7, <4>1, <4>2 DEF Before
      <4> QED BY <1>7, <4>3
    <3> HIDE DEF p
    <3>3. Beyond(asked'[p.stream], Len(served[p.stream]), p)
      BY <1>16, <3>1, <3>2
    <3> QED BY <3>3 DEF p
  <2> QED BY <1>0, <2>1, <2>2 DEF Unserved
<1>18. ASSUME NEW t \in Streams, NEW x, NEW p, Before(asked[t], x, p)
       PROVE  Before(asked'[t], x, p)
  <2>1. CASE t = s
    BY <1>10, <1>11, <1>18, <2>1
  <2>2. CASE t # s
    BY <1>6, <1>18, <2>2
  <2> QED BY <2>1, <2>2
<1>19. InLine'
  <2>1. ASSUME NEW e \in 1 .. Len(qSrv'), NEW l \in 1 .. Len(qSrv'), e < l,
               qSrv'[e].stream = qSrv'[l].stream
        PROVE  Before(asked'[qSrv'[e].stream], qSrv'[e], qSrv'[l])
    <3>1. /\ e + 1 \in 1 .. Len(qSrv) /\ qSrv'[e] = qSrv[e + 1]
          /\ l + 1 \in 1 .. Len(qSrv) /\ qSrv'[l] = qSrv[l + 1] /\ e + 1 < l + 1
      BY <1>2, <2>1
    <3>2. /\ qSrv[e + 1].stream \in Streams
          /\ Before(asked[qSrv[e + 1].stream], qSrv[e + 1], qSrv[l + 1])
      BY <2>1, <3>1 DEF InLine
    <3> QED BY <1>18, <3>1, <3>2
  <2>2. ASSUME NEW x \in RtcWorkers, NEW e \in 1 .. Len(qRtc[x]), NEW l \in 1 .. Len(qRtc[x]),
               e < l, qRtc[x][e].stream = qRtc[x][l].stream
        PROVE  Before(asked'[qRtc[x][e].stream], qRtc[x][e], qRtc[x][l])
    BY <1>18, <2>2 DEF InLine
  <2>3. ASSUME NEW x \in RtcWorkers, NEW e \in 1 .. Len(qRtc[x]), NEW l \in 1 .. Len(qSrv'),
               qRtc[x][e].stream = qSrv'[l].stream
        PROVE  Before(asked'[qRtc[x][e].stream], qRtc[x][e], qSrv'[l])
    <3>1. l + 1 \in 1 .. Len(qSrv) /\ qSrv'[l] = qSrv[l + 1]
      BY <1>2
    <3> QED BY <1>18, <2>3, <3>1 DEF InLine
  <2> QED BY <1>0, <2>1, <2>2, <2>3 DEF InLine
<1>20. PerStreamOrder'
  <2>1. ASSUME NEW t \in Streams
        PROVE  /\ Len(served[t]) <= Len(asked'[t])
               /\ \A i \in 1 .. Len(served[t]) : served[t][i] = asked'[t][i]
    <3>1. CASE t = s
      <4>1. n <= Len(g)
        BY <1>4, <1>7, <1>10
      <4>2. ASSUME NEW i \in 1 .. n PROVE served[s][i] = g[i]
        <5>1. i \in 1 .. Len(g) /\ i < k
          BY <1>4, <1>7, <4>1, <1>10
        <5>2. g[i] = h[i]
          BY <1>10, <5>1
        <5>3. served[s][i] = h[i]
          BY <1>3, <1>11, <3>1 DEF PerStreamOrder
        <5> QED BY <5>2, <5>3
      <4> QED BY <1>11, <3>1, <4>1, <4>2
    <3>2. CASE t # s
      BY <1>6, <3>2 DEF PerStreamOrder
    <3> QED BY <3>1, <3>2
  <2> QED BY <1>0, <2>1 DEF PerStreamOrder
<1> QED BY <1>13, <1>14, <1>15, <1>17, <1>19, <1>20

LEMMA OrderStep ==
    ASSUME CInv, MInv, Fresh, Spoken, Order, [Next]_vars
    PROVE  Order'
<1>1. CASE Quiet
  BY <1>1, QuietEffect, OrderQuiet
<1>2. ASSUME NEW w \in SigWorkers, ProcessRtcMsg(w) PROVE Order'
  <2>1. qSrv' = qSrv /\ qRtc' = qRtc /\ asked' = asked /\ served' = served
    BY <1>2 DEF ProcessRtcMsg, srvVars, rtcVars, histVars
  <2> QED BY <2>1, OrderQuiet
<1> QED BY <1>1, <1>2, StepKinds, OrderRoute, OrderDrop, OrderServe, OrderReadRequest

(* What has been asked, and who has spoken, in the first state.            *)
LEMMA NothingAsked == Init => Fresh /\ Spoken /\ Order
<1> SUFFICES ASSUME Init PROVE Fresh /\ Spoken /\ Order
  OBVIOUS
<1>1. /\ \A w \in SigWorkers : Len(qConn[w]) = 0 /\ Len(qSig[w]) = 0
      /\ \A r \in RtcWorkers : Len(qRtc[r]) = 0
      /\ \A s \in Streams : Len(asked[s]) = 0 /\ Len(served[s]) = 0
      /\ \A c \in Conns : Len(got[c]) = 0
      /\ Len(qSrv) = 0
  BY DEF Init
<1>2. /\ \A w \in SigWorkers, fd \in Fds : conns[w][fd] = null
      /\ \A a \in Addrs : heap[a] = null
      /\ \A w \in SigWorkers : pcSig[w].at = "idle"
  BY DEF Init, Idle
<1>3. Fresh
  BY <1>1, <1>2 DEF Fresh, Listening
<1>4. Spoken
  BY <1>1, <1>2 DEF Spoken
<1>5. Order
  BY <1>1 DEF Order, Histories, Sharded, Pending, Unserved, InLine, PerStreamOrder
<1> QED BY <1>3, <1>4, <1>5

LEMMA AskingInductive == Spec => [](Fresh /\ Spoken /\ Order)
<1>1. CInv /\ MInv /\ (Fresh /\ Spoken /\ Order) /\ [Next]_vars => (Fresh /\ Spoken /\ Order)'
  BY FreshStep, SpokenStep, OrderStep
<1> QED BY <1>1, NothingAsked, Inductive, PTL DEF Spec

(* The requests of a stream are served in the order RtcServer queued them, *)
(* for any number of workers and streams and any sharding: that the hash   *)
(* always picks the same worker is all it takes (rtc_server.cpp).          *)
THEOREM StreamOrder == Spec => []PerStreamOrder
<1>1. Order => PerStreamOrder
  BY DEF Order
<1> QED BY <1>1, AskingInductive, PTL

-----------------------------------------------------------------------------
(* One answer to each request.  The answer to d's request is owed by at    *)
(* most one party at a time: kind[d] and holder[d] say which one.  It is   *)
(* a waiting push or pull in a queue, a stop whose worker has not answered *)
(* it yet, a reply of a connection, or an answer a client has got.         *)
QueueAt(q, kind, holder, K, h) ==
    \A i \in 1 .. Len(q) : q[i].cmd \in AsyncCmds =>
       /\ kind[q[i].from] = K /\ holder[q[i].from] = h
       /\ \A j \in 1 .. Len(q) : q[j].cmd \in AsyncCmds /\ q[j].from = q[i].from => j = i

ListAt(q, kind, holder, K, h) ==
    \A i \in 1 .. Len(q) :
       /\ kind[q[i]] = K /\ holder[q[i]] = h
       /\ \A j \in 1 .. Len(q) : q[j] = q[i] => j = i

(* The answer to d's request, and no other, changes hands.                 *)
Moved(kind, holder, kind2, holder2, d) ==
    \A x \in Conns : x # d => kind2[x] = kind[x] /\ holder2[x] = holder[x]

LEMMA QueueKept ==
    ASSUME NEW q \in Seq(RtcMsgType), NEW kind, NEW holder, NEW kind2, NEW holder2, NEW d,
           NEW K, NEW h, QueueAt(q, kind, holder, K, h),
           Moved(kind, holder, kind2, holder2, d), kind[d] # K \/ holder[d] # h
    PROVE  QueueAt(q, kind2, holder2, K, h)
<1>1. ASSUME NEW i \in 1 .. Len(q), q[i].cmd \in AsyncCmds
      PROVE  /\ kind2[q[i].from] = K /\ holder2[q[i].from] = h
             /\ \A j \in 1 .. Len(q) : q[j].cmd \in AsyncCmds /\ q[j].from = q[i].from => j = i
  <2>1. /\ kind[q[i].from] = K /\ holder[q[i].from] = h
        /\ \A j \in 1 .. Len(q) : q[j].cmd \in AsyncCmds /\ q[j].from = q[i].from => j = i
    BY <1>1 DEF QueueAt
  <2>2. q[i] \in RtcMsgType
    OBVIOUS
  <2>3. q[i].from \in Conns /\ q[i].from # d
    BY <2>1, <2>2 DEF RtcMsgType
  <2> QED BY <2>1, <2>3 DEF Moved
<1> QED BY <1>1 DEF QueueAt

LEMMA QueueShorter ==
    ASSUME NEW q \in Seq(RtcMsgType), q # <<>>, NEW kind, NEW holder, NEW K, NEW h,
           QueueAt(q, kind, holder, K, h)
    PROVE  QueueAt(Tail(q), kind, holder, K, h)
<1>1. /\ Len(q) \in Nat /\ Len(Tail(q)) = Len(q) - 1
      /\ \A i \in 1 .. Len(Tail(q)) : i + 1 \in 1 .. Len(q) /\ Tail(q)[i] = q[i + 1]
  BY TailOf
<1> DEFINE t == Tail(q)
<1> HIDE DEF t
<1>2. ASSUME NEW i \in 1 .. Len(t), t[i].cmd \in AsyncCmds
      PROVE  /\ kind[t[i].from] = K /\ holder[t[i].from] = h
             /\ \A j \in 1 .. Len(t) : t[j].cmd \in AsyncCmds /\ t[j].from = t[i].from => j = i
  <2>1. i + 1 \in 1 .. Len(q) /\ t[i] = q[i + 1] /\ i \in Int
    BY <1>1 DEF t
  <2>2. /\ kind[q[i + 1].from] = K /\ holder[q[i + 1].from] = h
        /\ \A j \in 1 .. Len(q) : q[j].cmd \in AsyncCmds /\ q[j].from = q[i + 1].from => j = i + 1
    BY <1>2, <2>1 DEF QueueAt
  <2>3. ASSUME NEW j \in 1 .. Len(t), t[j].cmd \in AsyncCmds, t[j].from = t[i].from PROVE j = i
    <3>1. j + 1 \in 1 .. Len(q) /\ t[j] = q[j + 1] /\ j \in Int
      BY <1>1 DEF t
    <3>2. j + 1 = i + 1
      BY <2>1, <2>2, <2>3, <3>1
    <3> QED BY <2>1, <3>1, <3>2
  <2> QED BY <2>1, <2>2, <2>3
<1>3. QueueAt(t, kind, holder, K, h)
  BY <1>2 DEF QueueAt
<1> QED BY <1>3 DEF t

(* The answer to d's request is the next one in a queue or a list.         *)
FirstInQueue(q, d) == q # <<>> /\ Head(q).cmd \in AsyncCmds /\ d = Head(q).from
FirstInList(q, d) == q # <<>> /\ d = Head(q)

LEMMA QueueTaken ==
    ASSUME NEW q \in Seq(RtcMsgType), NEW kind, NEW holder, NEW kind2, NEW holder2,
           NEW d, FirstInQueue(q, d), NEW K, NEW h, QueueAt(q, kind, holder, K, h),
           Moved(kind, holder, kind2, holder2, d)
    PROVE  /\ QueueAt(Tail(q), kind2, holder2, K, h)
           /\ kind[d] = K /\ holder[d] = h
<1>0. q # <<>> /\ Head(q).cmd \in AsyncCmds /\ d = Head(q).from
  BY DEF FirstInQueue
<1>1. /\ Len(q) \in Nat /\ Len(Tail(q)) = Len(q) - 1 /\ Head(q) = q[1] /\ 1 \in 1 .. Len(q)
      /\ Tail(q) \in Seq(RtcMsgType)
      /\ \A i \in 1 .. Len(Tail(q)) :
            i + 1 \in 1 .. Len(q) /\ i + 1 # 1 /\ Tail(q)[i] = q[i + 1]
  BY <1>0, TailOf
<1> DEFINE t == Tail(q)
<1>2. QueueAt(t, kind, holder, K, h)
  BY <1>0, QueueShorter
<1> HIDE DEF t
<1>3. /\ kind[d] = K /\ holder[d] = h
      /\ \A j \in 1 .. Len(q) : q[j].cmd \in AsyncCmds /\ q[j].from = d => j = 1
  BY <1>0, <1>1 DEF QueueAt
<1>4. ASSUME NEW i \in 1 .. Len(t), t[i].cmd \in AsyncCmds
      PROVE  /\ kind2[t[i].from] = K /\ holder2[t[i].from] = h
             /\ \A j \in 1 .. Len(t) : t[j].cmd \in AsyncCmds /\ t[j].from = t[i].from => j = i
  <2>1. t[i].from # d
    BY <1>1, <1>3, <1>4 DEF t
  <2>2. t[i].from \in Conns
    <3>1. t[i] \in RtcMsgType
      BY <1>1 DEF t
    <3> QED BY <3>1 DEF RtcMsgType
  <2> QED BY <1>2, <1>4, <2>1, <2>2 DEF QueueAt, Moved
<1>5. QueueAt(t, kind2, holder2, K, h)
  BY <1>4 DEF QueueAt
<1> QED BY <1>3, <1>5 DEF t

LEMMA QueueJoined ==
    ASSUME NEW q \in Seq(RtcMsgType), NEW m \in RtcMsgType,
           NEW kind, NEW holder, NEW kind2, NEW holder2, NEW d, d = m.from,
           NEW K, NEW h, QueueAt(q, kind, holder, K, h),
           Moved(kind, holder, kind2, holder2, d), kind[d] # K \/ holder[d] # h,
           kind2[d] = K, holder2[d] = h
    PROVE  QueueAt(Append(q, m), kind2, holder2, K, h)
<1> DEFINE t == Append(q, m)
<1>1. /\ Len(q) \in Nat /\ Len(t) = Len(q) + 1 /\ t[Len(q) + 1] = m
      /\ \A i \in 1 .. Len(q) : t[i] = q[i]
      /\ \A i \in 1 .. Len(t) : i \in 1 .. Len(q) \/ (i = Len(q) + 1 /\ t[i] = m)
  BY AppendTo
<1> HIDE DEF t
<1>2. QueueAt(q, kind2, holder2, K, h)
  BY QueueKept
<1>3. \A i \in 1 .. Len(q) : t[i].cmd \in AsyncCmds => t[i].from # d
  BY <1>1 DEF QueueAt
<1>4. ASSUME NEW i \in 1 .. Len(t), t[i].cmd \in AsyncCmds
      PROVE  /\ kind2[t[i].from] = K /\ holder2[t[i].from] = h
             /\ \A j \in 1 .. Len(t) : t[j].cmd \in AsyncCmds /\ t[j].from = t[i].from => j = i
  <2>1. CASE i \in 1 .. Len(q)
    <3>1. kind2[t[i].from] = K /\ holder2[t[i].from] = h
      BY <1>1, <1>2, <1>4, <2>1 DEF QueueAt
    <3>2. ASSUME NEW j \in 1 .. Len(t), t[j].cmd \in AsyncCmds, t[j].from = t[i].from PROVE j = i
      <4>1. j \in 1 .. Len(q)
        BY <1>1, <1>3, <1>4, <2>1, <3>2
      <4>2. t[i] = q[i] /\ t[j] = q[j]
        BY <1>1, <2>1, <4>1
      <4> QED BY <1>2, <1>4, <2>1, <3>2, <4>1, <4>2 DEF QueueAt
    <3> QED BY <3>1, <3>2
  <2>2. CASE i = Len(q) + 1 /\ t[i] = m
    BY <1>1, <1>3, <2>2
  <2> QED BY <1>1, <2>1, <2>2
<1>5. QueueAt(t, kind2, holder2, K, h)
  BY <1>4 DEF QueueAt
<1> QED BY <1>5 DEF t

(* A stop in a queue is nobody's answer.                                   *)
LEMMA QueueJoinedByStop ==
    ASSUME NEW q \in Seq(RtcMsgType), NEW m \in RtcMsgType, m.cmd \notin AsyncCmds,
           NEW kind, NEW holder, NEW K, NEW h, QueueAt(q, kind, holder, K, h)
    PROVE  QueueAt(Append(q, m), kind, holder, K, h)
<1> DEFINE t == Append(q, m)
<1>1. \A i \in 1 .. Len(t) : t[i].cmd \in AsyncCmds => i \in 1 .. Len(q) /\ t[i] = q[i]
  BY AppendTo
<1> HIDE DEF t
<1>2. QueueAt(t, kind, holder, K, h)
  BY <1>1 DEF QueueAt
<1> QED BY <1>2 DEF t

LEMMA ListKept ==
    ASSUME NEW q \in Seq(Conns), NEW kind, NEW holder, NEW kind2, NEW holder2, NEW d,
           NEW K, NEW h, ListAt(q, kind, holder, K, h),
           Moved(kind, holder, kind2, holder2, d), kind[d] # K \/ holder[d] # h
    PROVE  ListAt(q, kind2, holder2, K, h)
<1>1. \A i \in 1 .. Len(q) : q[i] \in Conns /\ q[i] # d
  BY DEF ListAt
<1> QED BY <1>1 DEF ListAt, Moved

LEMMA ListTaken ==
    ASSUME NEW q \in Seq(Conns), NEW kind, NEW holder, NEW kind2, NEW holder2,
           NEW d, FirstInList(q, d), NEW K, NEW h, ListAt(q, kind, holder, K, h),
           Moved(kind, holder, kind2, holder2, d)
    PROVE  /\ ListAt(Tail(q), kind2, holder2, K, h)
           /\ kind[d] = K /\ holder[d] = h
<1> DEFINE t == Tail(q)
<1>1. /\ Len(q) \in Nat /\ Len(t) = Len(q) - 1 /\ d = q[1] /\ 1 \in 1 .. Len(q)
      /\ \A i \in 1 .. Len(t) : i + 1 \in 1 .. Len(q) /\ i + 1 # 1 /\ t[i] = q[i + 1]
  BY TailOf DEF FirstInList
<1> HIDE DEF t
<1>2. kind[d] = K /\ holder[d] = h /\ \A j \in 1 .. Len(q) : q[j] = d => j = 1
  BY <1>1 DEF ListAt
<1>3. ASSUME NEW i \in 1 .. Len(t)
      PROVE  /\ kind2[t[i]] = K /\ holder2[t[i]] = h
             /\ \A j \in 1 .. Len(t) : t[j] = t[i] => j = i
  <2>1. /\ i + 1 \in 1 .. Len(q) /\ t[i] = q[i + 1] /\ t[i] # d /\ i \in Int
        /\ t[i] \in Conns
    BY <1>1, <1>2
  <2>2. kind2[t[i]] = K /\ holder2[t[i]] = h
    BY <2>1 DEF ListAt, Moved
  <2>3. ASSUME NEW j \in 1 .. Len(t), t[j] = t[i] PROVE j = i
    <3>1. j + 1 \in 1 .. Len(q) /\ t[j] = q[j + 1] /\ j \in Int
      BY <1>1
    <3>2. j + 1 = i + 1
      BY <2>1, <2>3, <3>1 DEF ListAt
    <3> QED BY <2>1, <3>1, <3>2
  <2> QED BY <2>2, <2>3
<1>4. ListAt(t, kind2, holder2, K, h)
  BY <1>3 DEF ListAt
<1> QED BY <1>2, <1>4 DEF t

LEMMA ListJoined ==
    ASSUME NEW q \in Seq(Conns), NEW d \in Conns,
           NEW kind, NEW holder, NEW kind2, NEW holder2,
           NEW K, NEW h, ListAt(q, kind, holder, K, h),
           Moved(kind, holder, kind2, holder2, d), kind[d] # K \/ holder[d] # h,
           kind2[d] = K, holder2[d] = h
    PROVE  ListAt(Append(q, d), kind2, holder2, K, h)
<1> DEFINE t == Append(q, d)
<1>1. /\ Len(q) \in Nat /\ Len(t) = Len(q) + 1 /\ t[Len(q) + 1] = d
      /\ \A i \in 1 .. Len(q) : t[i] = q[i]
      /\ \A i \in 1 .. Len(t) : i \in 1 .. Len(q) \/ (i = Len(q) + 1 /\ t[i] = d)
  BY AppendTo
<1> HIDE DEF t
<1>2. ListAt(q, kind2, holder2, K, h)
  BY ListKept
<1>3. \A i \in 1 .. Len(q) : t[i] # d
  BY <1>1 DEF ListAt
<1>4. ASSUME NEW i \in 1 .. Len(t)
      PROVE  /\ kind2[t[i]] = K /\ holder2[t[i]] = h
             /\ \A j \in 1 .. Len(t) : t[j] = t[i] => j = i
  <2>1. CASE i \in 1 .. Len(q)
    <3>1. kind2[t[i]] = K /\ holder2[t[i]] = h
      BY <1>1, <1>2, <2>1 DEF ListAt
    <3>2. ASSUME NEW j \in 1 .. Len(t), t[j] = t[i] PROVE j = i
      <4>1. j \in 1 .. Len(q)
        BY <1>1, <1>3, <2>1, <3>2
      <4> QED BY <1>1, <1>2, <2>1, <3>2, <4>1 DEF ListAt
    <3> QED BY <3>1, <3>2
  <2>2. CASE i = Len(q) + 1 /\ t[i] = d
    BY <1>1, <1>3, <2>2
  <2> QED BY <1>1, <2>1, <2>2
<1>5. ListAt(t, kind2, holder2, K, h)
  BY <1>4 DEF ListAt
<1> QED BY <1>5 DEF t

(* Worker w has queued the stop of d and is about to answer it.            *)
Stops(w, d) ==
    /\ pcSig[w].at = "notify" /\ heap[pcSig[w].conn].client = d /\ request[d] \in StopCmds

Tracked(kind, holder) ==
    /\ \A d \in Conns : d \notin Askers => kind[d] = "none"
    /\ QueueAt(qSrv, kind, holder, "srv", null)
    /\ \A r \in RtcWorkers : QueueAt(qRtc[r], kind, holder, "rtc", r)
    /\ \A w \in SigWorkers : QueueAt(qSig[w], kind, holder, "sig", w)
    /\ \A w \in SigWorkers, d \in Conns : Stops(w, d) => kind[d] = "notify" /\ holder[d] = w
    /\ \A a \in Addrs : heap[a] # null => ListAt(heap[a].replies, kind, holder, "heap", a)
    /\ \A c \in Conns : ListAt(got[c], kind, holder, "got", c)

(* Only push and pull come back from an RtcWorker.                         *)
SentBackOnly == \A w \in SigWorkers : \A i \in 1 .. Len(qSig[w]) : qSig[w][i].cmd \in AsyncCmds

Once == SentBackOnly /\ \E kind, holder : Tracked(kind, holder)

(* A worker owes the answer to a stop only from ReadRequest to             *)
(* NotifyRtcServer.                                                        *)
LEMMA StopsFrom ==
    ASSUME CInv, MInv, Fresh, [Next]_vars
    PROVE  /\ \A v \in SigWorkers, d \in Conns : Stops(v, d)' =>
                 \/ Stops(v, d)
                 \/ \E fd \in Fds, cmd \in Cmds, s \in Streams :
                       ReadRequest(v, fd, cmd, s) /\ d = owner[fd]
           /\ \A v \in SigWorkers, d \in Conns : NotifyRtcServer(v) => ~Stops(v, d)'
<1> USE Typed DEF CInv, ConnInv
<1>1. \A v \in SigWorkers, d \in Conns : NotifyRtcServer(v) => ~Stops(v, d)'
  BY NotifyRtcServerEffect DEF Stops
<1>2. \A v \in SigWorkers, d \in Conns : Stops(v, d) => request[d] \in StopCmds /\ request[d] # "out"
  BY DEF Stops, StopCmds
<1> DEFINE Kept == \A v \in SigWorkers, d \in Conns : Stops(v, d)' => Stops(v, d)
           Goal == \A v \in SigWorkers, d \in Conns : Stops(v, d)' =>
                      \/ Stops(v, d)
                      \/ \E fd \in Fds, cmd \in Cmds, s \in Streams :
                            ReadRequest(v, fd, cmd, s) /\ d = owner[fd]
<1>3. ASSUME request' = request,
             \A v \in SigWorkers : pcSig'[v].at = "notify" =>
                /\ pcSig'[v] = pcSig[v]
                /\ heap'[pcSig[v].conn].client = heap[pcSig[v].conn].client
      PROVE  Kept
  BY <1>3 DEF Stops
<1>4. ASSUME NEW c \in Conns, NEW fd \in Fds, AcceptNewConn(c, fd) PROVE Kept
  <2>1. /\ request' = [request EXCEPT ![c] = "none"] /\ heap' = heap /\ pcSig' = pcSig
        /\ request \in [Conns -> Cmds \cup {"out", "none", "unknown"}]
    BY <1>4 DEF AcceptNewConn, objVars, placeVars, ConnTypes
  <2>2. \A d \in Conns : request'[d] \in StopCmds => request'[d] = request[d]
    BY <2>1 DEF StopCmds
  <2> QED BY <2>1, <2>2 DEF Stops
<1>5. ASSUME NEW w \in SigWorkers, NEW a \in Addrs, HandleNewConn(w, a) PROVE Kept
  <2>1. request' = request /\ pcSig' = pcSig
    BY <1>5, HandleNewConnEffect
  <2>2. ASSUME NEW v \in SigWorkers, pcSig'[v].at = "notify"
        PROVE  heap'[pcSig[v].conn].client = heap[pcSig[v].conn].client
    <3>1. pcSig[v].conn \in Addrs /\ heap[pcSig[v].conn] # null
      BY <2>1, <2>2 DEF Threads
    <3> QED BY <1>5, <3>1, HandleNewConnEffect
  <2> QED BY <1>3, <2>1, <2>2
<1>6. ASSUME NEW w \in SigWorkers, NEW fd \in Fds, NEW cmd \in Cmds, NEW s \in Streams,
             ReadRequest(w, fd, cmd, s)
      PROVE  Goal
  <2>1. /\ owner[fd] \in Conns /\ heap' = heap
        /\ pcSig'[w].conn = conns[w][fd] /\ owner[fd] = heap[conns[w][fd]].client
        /\ Listening(w, fd)
        /\ \A c \in Conns : c # owner[fd] => request'[c] = request[c]
        /\ \A v \in SigWorkers : v # w => pcSig'[v] = pcSig[v]
    BY <1>6, ReadRequestEffect
  <2> SUFFICES ASSUME NEW v \in SigWorkers, NEW d \in Conns, Stops(v, d)'
               PROVE  Stops(v, d) \/ (v = w /\ d = owner[fd])
    BY <1>6
  <2>2. CASE v = w
    BY <2>1, <2>2 DEF Stops
  <2>3. CASE v # w
    <3>1. pcSig[v].at = "notify" /\ heap[pcSig[v].conn].client = d
      BY <2>1, <2>3 DEF Stops
    <3>2. request[d] \in Cmds
      BY <3>1 DEF Fresh
    <3>3. request[owner[fd]] = "none"
      BY <2>1 DEF Fresh
    <3>4. d # owner[fd]
      BY <3>2, <3>3 DEF Cmds, AsyncCmds, StopCmds
    <3> QED BY <2>1, <3>1, <3>4 DEF Stops
  <2> QED BY <2>2, <2>3
<1>7. ASSUME NEW w \in SigWorkers, NEW fd \in Fds, RejectUnknownCmd(w, fd) PROVE Kept
  <2>1. /\ owner[fd] \in Conns /\ conns[w][fd] \in Addrs
        /\ \A c \in Conns : c # owner[fd] => request'[c] = request[c]
        /\ request'[owner[fd]] = "unknown"
        /\ Replied(conns[w][fd], owner[fd])
        /\ pcSig'[w].at = "remove"
        /\ \A v \in SigWorkers : v # w => pcSig'[v] = pcSig[v]
    BY <1>7, RejectUnknownCmdEffect
  <2>2. ASSUME NEW v \in SigWorkers, NEW d \in Conns, Stops(v, d)' PROVE Stops(v, d)
    <3>1. pcSig'[v] = pcSig[v] /\ pcSig[v].at = "notify" /\ d # owner[fd]
      BY <2>1, <2>2 DEF Stops, StopCmds
    <3>2. pcSig[v].conn \in Addrs
      BY <3>1 DEF Threads
    <3>3. heap'[pcSig[v].conn].client = heap[pcSig[v].conn].client
      BY <2>1, <3>2 DEF Replied
    <3> QED BY <2>1, <2>2, <3>1, <3>3 DEF Stops
  <2> QED BY <2>2
<1>8. ASSUME NEW w \in SigWorkers, NotifyRtcServer(w) PROVE Kept
  <2>1. /\ request' = request /\ pcSig'[w].at = "idle"
        /\ heap'[pcSig[w].conn].client = heap[pcSig[w].conn].client
        /\ \A b \in Addrs : b # pcSig[w].conn => heap'[b] = heap[b]
        /\ \A v \in SigWorkers : v # w => pcSig'[v] = pcSig[v]
    BY <1>8, NotifyRtcServerEffect
  <2>2. ASSUME NEW v \in SigWorkers, pcSig'[v].at = "notify"
        PROVE  pcSig'[v] = pcSig[v] /\ heap'[pcSig[v].conn].client = heap[pcSig[v].conn].client
    <3>1. v # w /\ pcSig'[v] = pcSig[v] /\ pcSig[v].conn \in Addrs
      BY <2>1, <2>2 DEF Threads
    <3> QED BY <2>1, <3>1
  <2> QED BY <1>3, <2>1, <2>2
<1>9. ASSUME NEW w \in SigWorkers, RemoveConnection(w) PROVE Kept
  <2> DEFINE a == pcSig[w].conn
  <2>1. /\ request' = request /\ a \in Addrs /\ pcSig[w].at = "remove" /\ pcSig'[w].at # "notify"
        /\ \A v \in SigWorkers : v # w => pcSig'[v] = pcSig[v]
        /\ \A b \in Addrs : b # a => heap'[b] = heap[b]
    BY <1>9, RemoveConnectionEffect DEF Idle
  <2> HIDE DEF a
  <2>2. ASSUME NEW v \in SigWorkers, pcSig'[v].at = "notify"
        PROVE  pcSig'[v] = pcSig[v] /\ heap'[pcSig[v].conn].client = heap[pcSig[v].conn].client
    <3>1. v # w /\ pcSig'[v] = pcSig[v] /\ pcSig[v].conn \in Addrs
          /\ heap[pcSig[v].conn].worker = v /\ heap[pcSig[v].conn] # null
      BY <2>1, <2>2 DEF Threads
    <3>2. pcSig[v].conn # a
      <4>1. heap[a].worker = w
        BY <2>1 DEF Threads, a
      <4> QED BY <2>1, <3>1, <4>1
    <3> QED BY <2>1, <3>1, <3>2
  <2> QED BY <1>3, <2>1, <2>2
<1>10. ASSUME NEW w \in SigWorkers, ProcessRtcMsg(w) PROVE Kept
  <2>1. /\ request' = request /\ pcSig' = pcSig
        /\ \A b \in Addrs : heap[b] # null => heap'[b].client = heap[b].client
    BY <1>10, ProcessRtcMsgEffect DEF Replied
  <2>2. \A v \in SigWorkers : pcSig'[v].at = "notify" =>
           heap'[pcSig[v].conn].client = heap[pcSig[v].conn].client
    BY <2>1 DEF Threads
  <2> QED BY <1>3, <2>1, <2>2
<1>11. ASSUME NEW w \in SigWorkers, WriteReply(w) PROVE Kept
  <2>1. /\ request' = request /\ pcSig'[w].at # "notify"
        /\ \A v \in SigWorkers : v # w => pcSig'[v] = pcSig[v]
        /\ \A b \in Addrs : heap[b] # null => heap'[b].client = heap[b].client
    BY <1>11, WriteReplyEffect
  <2>2. ASSUME NEW v \in SigWorkers, pcSig'[v].at = "notify"
        PROVE  pcSig'[v] = pcSig[v] /\ heap'[pcSig[v].conn].client = heap[pcSig[v].conn].client
    BY <2>1, <2>2 DEF Threads
  <2> QED BY <1>3, <2>1, <2>2
<1>12. ASSUME NEW w \in SigWorkers,
              \/ WriteFails(w)
              \/ \E fd \in Fds : ReadFails(w, fd) \/ BeginWrite(w, fd)
              \/ \E a \in Addrs : ProcessTimeout(w, a)
       PROVE  Kept
  <2>1. /\ request' = request /\ heap' = heap /\ pcSig'[w].at \in {"write", "remove"}
        /\ \A v \in SigWorkers : v # w => pcSig'[v] = pcSig[v]
    BY <1>12, CloseFdEffect, BeginWriteEffect
  <2>2. \A v \in SigWorkers : pcSig'[v].at = "notify" => pcSig'[v] = pcSig[v]
    BY <2>1
  <2> QED BY <1>3, <2>1, <2>2
<1>13. ASSUME \/ NotifyNewConn \/ RtcServerNext
              \/ \E r \in RtcWorkers : RtcWorkerNext(r)
              \/ UNCHANGED vars
       PROVE  Kept
  BY <1>13, ElsewhereEffect DEF Stops
<1>14. Kept => Goal
  OBVIOUS
<1> HIDE DEF Kept, Goal
<1>15. ASSUME NEW w \in SigWorkers, SigWorkerNext(w) PROVE Goal
  BY <1>5, <1>6, <1>7, <1>8, <1>9, <1>10, <1>11, <1>12, <1>14, <1>15 DEF SigWorkerNext
<1>16. Goal
  BY <1>4, <1>13, <1>14, <1>15 DEF Next, SignalingServerNext
<1> QED BY <1>1, <1>16 DEF Goal

(* What is left alone when the answer to d's request changes hands.        *)
LeftAlone(kind, holder, kind2, holder2, d) ==
    /\ \A x \in Conns : x \notin Askers /\ x # d => kind2[x] = "none"
    /\ kind[d] # "srv" => QueueAt(qSrv, kind2, holder2, "srv", null)
    /\ \A r \in RtcWorkers : kind[d] # "rtc" \/ holder[d] # r =>
          QueueAt(qRtc[r], kind2, holder2, "rtc", r)
    /\ \A w \in SigWorkers : kind[d] # "sig" \/ holder[d] # w =>
          QueueAt(qSig[w], kind2, holder2, "sig", w)
    /\ \A w \in SigWorkers, x \in Conns :
          Stops(w, x) /\ (kind[d] # "notify" \/ holder[d] # w) =>
             kind2[x] = "notify" /\ holder2[x] = w
    /\ \A a \in Addrs : heap[a] # null /\ (kind[d] # "heap" \/ holder[d] # a) =>
          ListAt(heap[a].replies, kind2, holder2, "heap", a)
    /\ \A c \in Conns : kind[d] # "got" \/ holder[d] # c =>
          ListAt(got[c], kind2, holder2, "got", c)

LEMMA MoveKept ==
    ASSUME CInv, MInv, NEW kind, NEW holder, NEW kind2, NEW holder2, Tracked(kind, holder),
           NEW d \in Conns, Moved(kind, holder, kind2, holder2, d)
    PROVE  LeftAlone(kind, holder, kind2, holder2, d)
<1> USE QueuesTyped, Typed DEF CInv
<1>1. \A x \in Conns : x \notin Askers /\ x # d => kind2[x] = "none"
  BY DEF Tracked, Moved
<1>2. kind[d] # "srv" => QueueAt(qSrv, kind2, holder2, "srv", null)
  BY QueueKept DEF Tracked
<1>3. \A r \in RtcWorkers : kind[d] # "rtc" \/ holder[d] # r =>
         QueueAt(qRtc[r], kind2, holder2, "rtc", r)
  BY QueueKept DEF Tracked
<1>4. \A w \in SigWorkers : kind[d] # "sig" \/ holder[d] # w =>
         QueueAt(qSig[w], kind2, holder2, "sig", w)
  BY QueueKept DEF Tracked
<1>5. \A w \in SigWorkers, x \in Conns :
         Stops(w, x) /\ (kind[d] # "notify" \/ holder[d] # w) =>
            kind2[x] = "notify" /\ holder2[x] = w
  BY DEF Tracked, Moved
<1>6. \A a \in Addrs : heap[a] # null /\ (kind[d] # "heap" \/ holder[d] # a) =>
         ListAt(heap[a].replies, kind2, holder2, "heap", a)
  BY ListKept DEF Tracked
<1>7. \A c \in Conns : got[c] \in Seq(Conns)
  BY DEF ConnTypes
<1>8. \A c \in Conns : kind[d] # "got" \/ holder[d] # c =>
         ListAt(got[c], kind2, holder2, "got", c)
  BY <1>7, ListKept DEF Tracked
<1> QED BY <1>1, <1>2, <1>3, <1>4, <1>5, <1>6, <1>8 DEF LeftAlone

Now(f, d, v) == [x \in Conns |-> IF x = d THEN v ELSE f[x]]

LEMMA MoveExists ==
    ASSUME NEW kind, NEW holder, NEW d \in Conns, NEW K, NEW h
    PROVE  /\ Moved(kind, holder, Now(kind, d, K), Now(holder, d, h), d)
           /\ Now(kind, d, K)[d] = K /\ Now(holder, d, h)[d] = h
BY DEF Moved, Now

LEMMA OnceBy ==
    ASSUME SentBackOnly', NEW kind, NEW holder,
           \A d \in Conns : d \notin Askers' => kind[d] = "none",
           QueueAt(qSrv', kind, holder, "srv", null),
           \A r \in RtcWorkers : QueueAt(qRtc'[r], kind, holder, "rtc", r),
           \A w \in SigWorkers : QueueAt(qSig'[w], kind, holder, "sig", w),
           \A w \in SigWorkers, d \in Conns : Stops(w, d)' => kind[d] = "notify" /\ holder[d] = w,
           \A a \in Addrs : heap'[a] # null => ListAt(heap'[a].replies, kind, holder, "heap", a),
           \A c \in Conns : ListAt(got'[c], kind, holder, "got", c)
    PROVE  Once'
<1>1. Tracked(kind, holder)'
  BY DEF Tracked
<1> QED BY <1>1 DEF Once

(* Unless a request is read, nobody starts to owe the answer to a stop.    *)
LEMMA StopsKept ==
    ASSUME CInv, MInv, Fresh, [Next]_vars, Len(qSrv') # Len(qSrv) + 1
    PROVE  \A v \in SigWorkers, d \in Conns : Stops(v, d)' => Stops(v, d)
<1>1. ASSUME NEW v \in SigWorkers, NEW fd \in Fds, NEW cmd \in Cmds, NEW s \in Streams,
             ReadRequest(v, fd, cmd, s)
      PROVE  Len(qSrv') = Len(qSrv) + 1
  <2>1. PICK m \in RtcMsgType : qSrv' = Append(qSrv, m)
    BY <1>1, ReadRequestQueued
  <2> QED BY <2>1, QueuesTyped, AppendTo
<1> QED BY <1>1, StopsFrom

LEMMA NoReplies == \A kind, holder, K, h : ListAt(<<>>, kind, holder, K, h)
BY DEF ListAt

(* The steps in which no answer changes hands; it may be lost.             *)
LEMMA OnceStays ==
    ASSUME CInv, MInv, Fresh, Once, [Next]_vars,
           qSrv' = qSrv \/ (qSrv # <<>> /\ qSrv' = Tail(qSrv)), qRtc' = qRtc, qSig' = qSig,
           \A a \in Addrs : heap'[a] # null =>
              \/ heap[a] # null /\ heap'[a].replies = heap[a].replies
              \/ heap'[a].replies = <<>>,
           got' = got
    PROVE  Once'
<1>1. PICK kind, holder : Tracked(kind, holder)
  BY DEF Once
<1>2. Len(qSrv') # Len(qSrv) + 1
  <2>1. CASE qSrv' = qSrv
    BY <2>1, QueuesTyped
  <2>2. CASE qSrv # <<>> /\ qSrv' = Tail(qSrv)
    BY <2>2, QueuesTyped, TailOf
  <2> QED BY <2>1, <2>2
<1>3. \A v \in SigWorkers, d \in Conns : Stops(v, d)' => kind[d] = "notify" /\ holder[d] = v
  BY <1>1, <1>2, StopsKept DEF Tracked
<1>4. QueueAt(qSrv', kind, holder, "srv", null)
  <2>1. qSrv \in Seq(RtcMsgType) /\ QueueAt(qSrv, kind, holder, "srv", null)
    BY <1>1, QueuesTyped DEF Tracked
  <2>2. CASE qSrv' = qSrv
    BY <2>1, <2>2
  <2>3. CASE qSrv # <<>> /\ qSrv' = Tail(qSrv)
    BY <2>1, <2>3, QueueShorter
  <2> QED BY <2>2, <2>3
<1>5. \A d \in Conns : d \notin Askers' => kind[d] = "none"
  BY <1>1, AskedForGood DEF Tracked
<1>6. \A a \in Addrs : heap'[a] # null => ListAt(heap'[a].replies, kind, holder, "heap", a)
  BY <1>1, NoReplies DEF Tracked
<1>7. /\ \A r \in RtcWorkers : QueueAt(qRtc'[r], kind, holder, "rtc", r)
      /\ \A w \in SigWorkers : QueueAt(qSig'[w], kind, holder, "sig", w)
      /\ \A c \in Conns : ListAt(got'[c], kind, holder, "got", c)
  BY <1>1 DEF Tracked
<1>8. SentBackOnly'
  BY DEF Once, SentBackOnly
<1> QED BY <1>3, <1>4, <1>5, <1>6, <1>7, <1>8, OnceBy

(* Who asks for the first time is owed nothing yet.                        *)
LEMMA OnceReadRequest ==
    ASSUME CInv, MInv, Fresh, Once, [Next]_vars,
           NEW w \in SigWorkers, NEW fd \in Fds, NEW cmd \in Cmds, NEW s \in Streams,
           ReadRequest(w, fd, cmd, s)
    PROVE  Once'
<1>1. PICK kind, holder : Tracked(kind, holder)
  BY DEF Once
<1>2. PICK d \in Conns : d = owner[fd]
  BY ReadRequestEffect
<1>3. /\ heap' = heap /\ got' = got /\ request'[d] = cmd
      /\ pcSig'[w].conn = conns[w][fd] /\ d = heap[conns[w][fd]].client
      /\ \A v \in SigWorkers : v # w => pcSig'[v] = pcSig[v]
      /\ request[d] = "none"
  BY <1>2, ReadRequestEffect DEF Fresh
<1>4. PICK m \in RtcMsgType : qSrv' = Append(qSrv, m) /\ m.from = d /\ m.cmd = cmd
  BY <1>2, ReadRequestQueued
<1>5. qRtc' = qRtc /\ qSig' = qSig
  BY ReadRequestQueued
<1>6. d \notin Askers /\ kind[d] = "none"
  BY <1>1, <1>3 DEF Tracked, Askers
<1>7. d \in Askers' /\ Askers \subseteq Askers'
  BY <1>3, AskedForGood DEF Askers, Cmds, AsyncCmds, StopCmds
<1>8. ASSUME NEW v \in SigWorkers, NEW x \in Conns, Stops(v, x)', ~Stops(v, x)
      PROVE  v = w /\ x = d /\ cmd \in StopCmds
  <2>1. PICK f \in Fds, e \in Cmds, t \in Streams : ReadRequest(v, f, e, t) /\ x = owner[f]
    BY <1>8, StopsFrom
  <2>2. /\ pcSig'[v].at = "notify" /\ pcSig[v].at = "idle" /\ pcSig'[v].conn = conns[v][f]
        /\ x = heap[conns[v][f]].client
    BY <2>1, ReadRequestEffect
  <2>3. v = w
    BY <1>3, <2>2
  <2>4. x = d
    BY <1>3, <2>2, <2>3
  <2>5. request'[x] \in StopCmds
    BY <1>8 DEF Stops
  <2> QED BY <1>3, <2>3, <2>4, <2>5
<1>9. SentBackOnly'
  BY <1>5 DEF Once, SentBackOnly
<1>10. CASE cmd \in AsyncCmds
  <2>1. PICK kind2, holder2 :
           Moved(kind, holder, kind2, holder2, d) /\ kind2[d] = "srv" /\ holder2[d] = null
    <3>1. /\ Moved(kind, holder, Now(kind, d, "srv"), Now(holder, d, null), d)
          /\ Now(kind, d, "srv")[d] = "srv" /\ Now(holder, d, null)[d] = null
      BY MoveExists
    <3> QED BY <3>1
  <2>2. QueueAt(qSrv', kind2, holder2, "srv", null)
    <3>1. QueueAt(qSrv, kind, holder, "srv", null)
      BY <1>1 DEF Tracked
    <3>2. qSrv \in Seq(RtcMsgType)
      BY QueuesTyped
    <3> QED BY <1>4, <1>6, <2>1, <3>1, <3>2, QueueJoined
  <2>3. /\ \A x \in Conns : x \notin Askers /\ x # d => kind2[x] = "none"
        /\ \A r \in RtcWorkers : QueueAt(qRtc[r], kind2, holder2, "rtc", r)
        /\ \A v \in SigWorkers : QueueAt(qSig[v], kind2, holder2, "sig", v)
        /\ \A v \in SigWorkers, x \in Conns : Stops(v, x) => kind2[x] = "notify" /\ holder2[x] = v
        /\ \A a \in Addrs : heap[a] # null => ListAt(heap[a].replies, kind2, holder2, "heap", a)
        /\ \A c \in Conns : ListAt(got[c], kind2, holder2, "got", c)
    <3>1. LeftAlone(kind, holder, kind2, holder2, d)
      BY <1>1, <1>6, <2>1, MoveKept
    <3> QED BY <1>1, <1>6, <2>1, <3>1 DEF LeftAlone
  <2>4. \A x \in Conns : x \notin Askers' => kind2[x] = "none"
    BY <1>7, <2>3
  <2>5. \A v \in SigWorkers, x \in Conns : Stops(v, x)' => kind2[x] = "notify" /\ holder2[x] = v
    BY <1>8, <1>10, <2>3 DEF AsyncCmds, StopCmds
  <2> QED BY <1>3, <1>5, <1>9, <2>2, <2>3, <2>4, <2>5, OnceBy
<1>11. CASE cmd \notin AsyncCmds
  <2>1. PICK kind2, holder2 :
           Moved(kind, holder, kind2, holder2, d) /\ kind2[d] = "notify" /\ holder2[d] = w
    <3>1. /\ Moved(kind, holder, Now(kind, d, "notify"), Now(holder, d, w), d)
          /\ Now(kind, d, "notify")[d] = "notify" /\ Now(holder, d, w)[d] = w
      BY MoveExists
    <3> QED BY <3>1
  <2>2. /\ \A x \in Conns : x \notin Askers /\ x # d => kind2[x] = "none"
        /\ QueueAt(qSrv, kind2, holder2, "srv", null)
        /\ \A r \in RtcWorkers : QueueAt(qRtc[r], kind2, holder2, "rtc", r)
        /\ \A v \in SigWorkers : QueueAt(qSig[v], kind2, holder2, "sig", v)
        /\ \A v \in SigWorkers, x \in Conns : Stops(v, x) => kind2[x] = "notify" /\ holder2[x] = v
        /\ \A a \in Addrs : heap[a] # null => ListAt(heap[a].replies, kind2, holder2, "heap", a)
        /\ \A c \in Conns : ListAt(got[c], kind2, holder2, "got", c)
    <3>1. LeftAlone(kind, holder, kind2, holder2, d)
      BY <1>1, <1>6, <2>1, MoveKept
    <3> QED BY <1>1, <1>6, <2>1, <3>1 DEF LeftAlone
  <2>3. QueueAt(qSrv', kind2, holder2, "srv", null)
    BY <1>4, <1>11, <2>2, QueuesTyped, QueueJoinedByStop
  <2>4. \A x \in Conns : x \notin Askers' => kind2[x] = "none"
    BY <1>7, <2>2
  <2>5. \A v \in SigWorkers, x \in Conns : Stops(v, x)' => kind2[x] = "notify" /\ holder2[x] = v
    BY <1>8, <2>1, <2>2
  <2> QED BY <1>3, <1>5, <1>9, <2>2, <2>3, <2>4, <2>5, OnceBy
<1> QED BY <1>10, <1>11

(* The answer of d becomes the last reply of the connection at a.          *)
LEMMA RepliedAt ==
    ASSUME CInv, MInv, NEW kind, NEW holder, NEW kind2, NEW holder2, Tracked(kind, holder),
           NEW d \in Conns, NEW a \in Addrs, Moved(kind, holder, kind2, holder2, d),
           kind[d] # "heap", kind2[d] = "heap", holder2[d] = a, Replied(a, d)
    PROVE  \A b \in Addrs : heap'[b] # null => ListAt(heap'[b].replies, kind2, holder2, "heap", b)
<1> USE Typed DEF CInv
<1>1. /\ heap[a] # null /\ heap'[a].replies = Append(heap[a].replies, d)
      /\ \A b \in Addrs : b # a => heap'[b] = heap[b]
  BY DEF Replied
<1>2. ListAt(heap'[a].replies, kind2, holder2, "heap", a)
  <2>1. heap[a].replies \in Seq(Conns) /\ ListAt(heap[a].replies, kind, holder, "heap", a)
    BY <1>1 DEF Tracked
  <2> QED BY <1>1, <2>1, ListJoined
<1>3. \A b \in Addrs : heap[b] # null => ListAt(heap[b].replies, kind2, holder2, "heap", b)
  <2>1. LeftAlone(kind, holder, kind2, holder2, d)
    BY MoveKept
  <2> QED BY <2>1 DEF LeftAlone
<1> QED BY <1>1, <1>2, <1>3

LEMMA OnceRejectUnknownCmd ==
    ASSUME CInv, MInv, Fresh, Once, [Next]_vars,
           NEW w \in SigWorkers, NEW fd \in Fds, RejectUnknownCmd(w, fd)
    PROVE  Once'
<1>1. PICK kind, holder : Tracked(kind, holder)
  BY DEF Once
<1>2. PICK d \in Conns, a \in Addrs : d = owner[fd] /\ a = conns[w][fd]
  BY RejectUnknownCmdEffect
<1>3. got' = got /\ request'[d] = "unknown" /\ request[d] = "none" /\ Replied(a, d)
  BY <1>2, RejectUnknownCmdEffect DEF Fresh
<1>4. qSrv' = qSrv /\ qRtc' = qRtc /\ qSig' = qSig
  BY DEF RejectUnknownCmd, srvVars, rtcVars, sigVars
<1>5. kind[d] = "none" /\ d \in Askers' /\ Askers \subseteq Askers'
  BY <1>1, <1>3, AskedForGood DEF Tracked, Askers
<1>6. PICK kind2, holder2 :
         Moved(kind, holder, kind2, holder2, d) /\ kind2[d] = "heap" /\ holder2[d] = a
  <2>1. /\ Moved(kind, holder, Now(kind, d, "heap"), Now(holder, d, a), d)
        /\ Now(kind, d, "heap")[d] = "heap" /\ Now(holder, d, a)[d] = a
    BY MoveExists
  <2> QED BY <2>1
<1>7. \A b \in Addrs : heap'[b] # null => ListAt(heap'[b].replies, kind2, holder2, "heap", b)
  BY <1>1, <1>3, <1>5, <1>6, RepliedAt
<1>8. /\ \A x \in Conns : x \notin Askers /\ x # d => kind2[x] = "none"
      /\ QueueAt(qSrv, kind2, holder2, "srv", null)
      /\ \A r \in RtcWorkers : QueueAt(qRtc[r], kind2, holder2, "rtc", r)
      /\ \A v \in SigWorkers : QueueAt(qSig[v], kind2, holder2, "sig", v)
      /\ \A v \in SigWorkers, x \in Conns : Stops(v, x) => kind2[x] = "notify" /\ holder2[x] = v
      /\ \A c \in Conns : ListAt(got[c], kind2, holder2, "got", c)
  <2>1. LeftAlone(kind, holder, kind2, holder2, d)
    BY <1>1, <1>5, <1>6, MoveKept
  <2> QED BY <1>1, <1>5, <1>6, <2>1 DEF LeftAlone
<1>9. \A v \in SigWorkers, x \in Conns : Stops(v, x)' => kind2[x] = "notify" /\ holder2[x] = v
  <2>1. Len(qSrv') # Len(qSrv) + 1
    BY <1>4, QueuesTyped
  <2> QED BY <1>8, <2>1, StopsKept
<1>10. \A x \in Conns : x \notin Askers' => kind2[x] = "none"
  BY <1>5, <1>8
<1>11. SentBackOnly'
  BY <1>4 DEF Once, SentBackOnly
<1> QED BY <1>3, <1>4, <1>7, <1>8, <1>9, <1>10, <1>11, OnceBy

(* A stop is answered by the worker that read it.                          *)
LEMMA OnceNotifyRtcServer ==
    ASSUME CInv, MInv, Fresh, Once, [Next]_vars, NEW w \in SigWorkers, NotifyRtcServer(w)
    PROVE  Once'
<1>1. PICK d \in Conns, a \in Addrs : d = heap[pcSig[w].conn].client /\ a = pcSig[w].conn
  BY NotifyRtcServerEffect
<1>2. qSrv' = qSrv /\ qRtc' = qRtc /\ qSig' = qSig
  BY DEF NotifyRtcServer, rtcVars, sigVars
<1>3. /\ got' = got /\ pcSig[w].at = "notify" /\ heap[a] # null
      /\ \A b \in Addrs : b # a => heap'[b] = heap[b]
      /\ IF request[d] \in StopCmds THEN Replied(a, d) ELSE heap'[a].replies = heap[a].replies
  BY <1>1, NotifyRtcServerEffect
<1>4. CASE request[d] \notin StopCmds
  BY <1>2, <1>3, <1>4, OnceStays
<1>5. CASE request[d] \in StopCmds
  <2>1. PICK kind, holder : Tracked(kind, holder)
    BY DEF Once
  <2>2. kind[d] = "notify" /\ holder[d] = w
    BY <1>1, <1>3, <1>5, <2>1 DEF Tracked, Stops
  <2>3. PICK kind2, holder2 :
           Moved(kind, holder, kind2, holder2, d) /\ kind2[d] = "heap" /\ holder2[d] = a
    <3>1. /\ Moved(kind, holder, Now(kind, d, "heap"), Now(holder, d, a), d)
          /\ Now(kind, d, "heap")[d] = "heap" /\ Now(holder, d, a)[d] = a
      BY MoveExists
    <3> QED BY <3>1
  <2>4. \A b \in Addrs : heap'[b] # null => ListAt(heap'[b].replies, kind2, holder2, "heap", b)
    BY <1>3, <1>5, <2>1, <2>2, <2>3, RepliedAt
  <2>5. /\ \A x \in Conns : x \notin Askers /\ x # d => kind2[x] = "none"
        /\ QueueAt(qSrv, kind2, holder2, "srv", null)
        /\ \A r \in RtcWorkers : QueueAt(qRtc[r], kind2, holder2, "rtc", r)
        /\ \A v \in SigWorkers : QueueAt(qSig[v], kind2, holder2, "sig", v)
        /\ \A v \in SigWorkers, x \in Conns :
              Stops(v, x) /\ v # w => kind2[x] = "notify" /\ holder2[x] = v
        /\ \A c \in Conns : ListAt(got[c], kind2, holder2, "got", c)
    <3>1. LeftAlone(kind, holder, kind2, holder2, d)
      BY <2>1, <2>2, <2>3, MoveKept
    <3> QED BY <2>1, <2>2, <2>3, <3>1 DEF LeftAlone
  <2>6. \A v \in SigWorkers, x \in Conns : Stops(v, x)' => kind2[x] = "notify" /\ holder2[x] = v
    <3>1. Len(qSrv') # Len(qSrv) + 1
      BY <1>2, QueuesTyped
    <3>2. \A x \in Conns : ~Stops(w, x)'
      BY StopsFrom
    <3> QED BY <2>5, <3>1, <3>2, StopsKept
  <2>7. d \in Askers /\ Askers \subseteq Askers'
    BY <2>1, <2>2, AskedForGood DEF Tracked
  <2>8. \A x \in Conns : x \notin Askers' => kind2[x] = "none"
    BY <2>5, <2>7
  <2>9. SentBackOnly'
    BY <1>2 DEF Once, SentBackOnly
  <2> QED BY <1>2, <1>3, <2>4, <2>5, <2>6, <2>8, <2>9, OnceBy
<1> QED BY <1>4, <1>5

(* RtcServer passes the request on to the worker of its stream.            *)
LEMMA OnceRoute ==
    ASSUME CInv, MInv, Fresh, Once, [Next]_vars, RouteRtcMsg
    PROVE  Once'
<1>1. qSig' = qSig /\ got' = got /\ heap' = heap
  BY RouteEffect, ElsewhereEffect DEF RtcServerNext
<1>2. CASE qSrv' = qSrv /\ qRtc' = qRtc
  BY <1>1, <1>2, OnceStays
<1>3. CASE ~(qSrv' = qSrv /\ qRtc' = qRtc)
  <2>1. PICK m \in RtcMsgType, r \in RtcWorkers :
           /\ m = Head(qSrv) /\ qSrv # <<>> /\ qSrv' = Tail(qSrv)
           /\ qRtc'[r] = Append(qRtc[r], m)
           /\ \A x \in RtcWorkers : x # r => qRtc'[x] = qRtc[x]
    BY <1>3, RouteEffect
  <2>2. PICK d \in Conns : d = m.from
    BY DEF RtcMsgType
  <2>3. PICK kind, holder : Tracked(kind, holder)
    BY DEF Once
  <2>4. /\ qSrv \in Seq(RtcMsgType) /\ qRtc[r] \in Seq(RtcMsgType)
        /\ Len(qSrv') # Len(qSrv) + 1
    <3>1. qSrv \in Seq(RtcMsgType) /\ qRtc[r] \in Seq(RtcMsgType)
      BY QueuesTyped
    <3>2. Len(qSrv) \in Nat /\ Len(qSrv') = Len(qSrv) - 1
      BY <2>1, <3>1, TailOf
    <3> QED BY <3>1, <3>2
  <2>5. /\ QueueAt(qSrv, kind, holder, "srv", null)
        /\ QueueAt(qRtc[r], kind, holder, "rtc", r)
    BY <2>3 DEF Tracked
  <2>6. SentBackOnly'
    BY <1>1 DEF Once, SentBackOnly
  <2>7. Askers \subseteq Askers'
    BY AskedForGood
  <2>8. CASE m.cmd \in AsyncCmds
    <3>1. PICK kind2, holder2 :
             Moved(kind, holder, kind2, holder2, d) /\ kind2[d] = "rtc" /\ holder2[d] = r
      <4>1. /\ Moved(kind, holder, Now(kind, d, "rtc"), Now(holder, d, r), d)
            /\ Now(kind, d, "rtc")[d] = "rtc" /\ Now(holder, d, r)[d] = r
        BY MoveExists
      <4> QED BY <4>1
    <3>2. QueueAt(qSrv', kind2, holder2, "srv", null) /\ kind[d] = "srv"
      <4>1. FirstInQueue(qSrv, d)
        BY <2>1, <2>2, <2>8 DEF FirstInQueue
      <4>2. QueueAt(Tail(qSrv), kind2, holder2, "srv", null) /\ kind[d] = "srv"
        BY <2>4, <2>5, <3>1, <4>1, QueueTaken
      <4> QED BY <2>1, <4>2
    <3>3. QueueAt(qRtc'[r], kind2, holder2, "rtc", r)
      <4>1. kind[d] # "rtc" \/ holder[d] # r
        BY <3>2
      <4>2. QueueAt(Append(qRtc[r], m), kind2, holder2, "rtc", r)
        BY <2>2, <2>4, <2>5, <3>1, <4>1, QueueJoined
      <4> QED BY <2>1, <4>2
    <3>4. /\ \A x \in Conns : x \notin Askers /\ x # d => kind2[x] = "none"
          /\ \A x \in RtcWorkers : QueueAt(qRtc[x], kind2, holder2, "rtc", x)
          /\ \A v \in SigWorkers : QueueAt(qSig[v], kind2, holder2, "sig", v)
          /\ \A v \in SigWorkers, x \in Conns : Stops(v, x) => kind2[x] = "notify" /\ holder2[x] = v
          /\ \A a \in Addrs : heap[a] # null => ListAt(heap[a].replies, kind2, holder2, "heap", a)
          /\ \A c \in Conns : ListAt(got[c], kind2, holder2, "got", c)
      <4>1. LeftAlone(kind, holder, kind2, holder2, d)
        BY <2>3, <3>1, MoveKept
      <4> QED BY <3>2, <4>1 DEF LeftAlone
    <3>5. \A x \in RtcWorkers : QueueAt(qRtc'[x], kind2, holder2, "rtc", x)
      BY <2>1, <3>3, <3>4
    <3>6. \A v \in SigWorkers, x \in Conns : Stops(v, x)' => kind2[x] = "notify" /\ holder2[x] = v
      BY <2>4, <3>4, StopsKept
    <3>7. d \in Askers
      BY <2>3, <3>2 DEF Tracked
    <3>8. \A x \in Conns : x \notin Askers' => kind2[x] = "none"
      BY <2>7, <3>4, <3>7
    <3> QED BY <1>1, <2>6, <3>2, <3>4, <3>5, <3>6, <3>8, OnceBy
  <2>9. CASE m.cmd \notin AsyncCmds
    <3>1. QueueAt(qSrv', kind, holder, "srv", null)
      BY <2>1, <2>4, <2>5, QueueShorter
    <3>2. QueueAt(qRtc'[r], kind, holder, "rtc", r)
      BY <2>1, <2>4, <2>5, <2>9, QueueJoinedByStop
    <3>3. \A x \in RtcWorkers : QueueAt(qRtc'[x], kind, holder, "rtc", x)
      BY <2>1, <2>3, <3>2 DEF Tracked
    <3>4. \A v \in SigWorkers, x \in Conns : Stops(v, x)' => kind[x] = "notify" /\ holder[x] = v
      BY <2>3, <2>4, StopsKept DEF Tracked
    <3>5. /\ \A x \in Conns : x \notin Askers' => kind[x] = "none"
          /\ \A v \in SigWorkers : QueueAt(qSig'[v], kind, holder, "sig", v)
          /\ \A a \in Addrs : heap'[a] # null => ListAt(heap'[a].replies, kind, holder, "heap", a)
          /\ \A c \in Conns : ListAt(got'[c], kind, holder, "got", c)
      BY <1>1, <2>3, <2>7 DEF Tracked
    <3> QED BY <2>6, <3>1, <3>3, <3>4, <3>5, OnceBy
  <2> QED BY <2>8, <2>9
<1> QED BY <1>2, <1>3

(* An RtcWorker sends push and pull back to the worker they came from.     *)
LEMMA OnceServe ==
    ASSUME CInv, MInv, Fresh, Once, [Next]_vars, NEW r \in RtcWorkers, ServeRtcMsg(r)
    PROVE  Once'
<1>1. qSrv' = qSrv /\ got' = got /\ heap' = heap
  BY ServeEffect, ElsewhereEffect DEF RtcWorkerNext
<1>2. CASE qRtc' = qRtc /\ qSig' = qSig
  BY <1>1, <1>2, OnceStays
<1>3. CASE ~(qRtc' = qRtc /\ qSig' = qSig)
  <2>1. PICK m \in RtcMsgType :
           /\ qRtc[r] # <<>> /\ m = Head(qRtc[r]) /\ qRtc'[r] = Tail(qRtc[r])
           /\ \A x \in RtcWorkers : x # r => qRtc'[x] = qRtc[x]
           /\ \/ qSig' = qSig
              \/ /\ m.cmd \in AsyncCmds
                 /\ qSig'[m.worker] = Append(qSig[m.worker], m)
                 /\ \A v \in SigWorkers : v # m.worker => qSig'[v] = qSig[v]
    BY <1>3, ServeEffect
  <2>2. PICK d \in Conns, w \in SigWorkers : d = m.from /\ w = m.worker
    BY DEF RtcMsgType
  <2>3. PICK kind, holder : Tracked(kind, holder)
    BY DEF Once
  <2>4. /\ qRtc[r] \in Seq(RtcMsgType) /\ qSig[w] \in Seq(RtcMsgType)
        /\ Len(qSrv') # Len(qSrv) + 1
    BY <1>1, QueuesTyped
  <2>5. /\ QueueAt(qRtc[r], kind, holder, "rtc", r)
        /\ QueueAt(qSig[w], kind, holder, "sig", w)
    BY <2>3 DEF Tracked
  <2>6. Askers \subseteq Askers'
    BY AskedForGood
  <2>7. CASE /\ m.cmd \in AsyncCmds
             /\ qSig'[w] = Append(qSig[w], m)
             /\ \A v \in SigWorkers : v # w => qSig'[v] = qSig[v]
    <3>1. PICK kind2, holder2 :
             Moved(kind, holder, kind2, holder2, d) /\ kind2[d] = "sig" /\ holder2[d] = w
      <4>1. /\ Moved(kind, holder, Now(kind, d, "sig"), Now(holder, d, w), d)
            /\ Now(kind, d, "sig")[d] = "sig" /\ Now(holder, d, w)[d] = w
        BY MoveExists
      <4> QED BY <4>1
    <3>2. QueueAt(qRtc'[r], kind2, holder2, "rtc", r) /\ kind[d] = "rtc" /\ holder[d] = r
      <4>1. FirstInQueue(qRtc[r], d)
        BY <2>1, <2>2, <2>7 DEF FirstInQueue
      <4>2. QueueAt(Tail(qRtc[r]), kind2, holder2, "rtc", r) /\ kind[d] = "rtc" /\ holder[d] = r
        BY <2>4, <2>5, <3>1, <4>1, QueueTaken
      <4> QED BY <2>1, <4>2
    <3>3. QueueAt(qSig'[w], kind2, holder2, "sig", w)
      BY <2>2, <2>4, <2>5, <2>7, <3>1, <3>2, QueueJoined
    <3>4. /\ \A x \in Conns : x \notin Askers /\ x # d => kind2[x] = "none"
          /\ QueueAt(qSrv, kind2, holder2, "srv", null)
          /\ \A x \in RtcWorkers : x # r => QueueAt(qRtc[x], kind2, holder2, "rtc", x)
          /\ \A v \in SigWorkers : QueueAt(qSig[v], kind2, holder2, "sig", v)
          /\ \A v \in SigWorkers, x \in Conns : Stops(v, x) => kind2[x] = "notify" /\ holder2[x] = v
          /\ \A a \in Addrs : heap[a] # null => ListAt(heap[a].replies, kind2, holder2, "heap", a)
          /\ \A c \in Conns : ListAt(got[c], kind2, holder2, "got", c)
      <4>1. LeftAlone(kind, holder, kind2, holder2, d)
        BY <2>3, <3>1, MoveKept
      <4> QED BY <3>2, <4>1 DEF LeftAlone
    <3>5. \A x \in RtcWorkers : QueueAt(qRtc'[x], kind2, holder2, "rtc", x)
      BY <2>1, <3>2, <3>4
    <3>6. \A v \in SigWorkers : QueueAt(qSig'[v], kind2, holder2, "sig", v)
      BY <2>7, <3>3, <3>4
    <3>7. \A v \in SigWorkers, x \in Conns : Stops(v, x)' => kind2[x] = "notify" /\ holder2[x] = v
      BY <2>4, <3>4, StopsKept
    <3>8. d \in Askers
      BY <2>3, <3>2 DEF Tracked
    <3>9. \A x \in Conns : x \notin Askers' => kind2[x] = "none"
      BY <2>6, <3>4, <3>8
    <3>10. SentBackOnly'
      <4> SUFFICES ASSUME NEW v \in SigWorkers, NEW i \in 1 .. Len(qSig'[v])
                   PROVE  qSig'[v][i].cmd \in AsyncCmds
        BY DEF SentBackOnly
      <4>1. CASE v = w
        <5>1. i \in 1 .. Len(qSig[w]) \/ qSig'[w][i] = m
          BY <2>4, <2>7, <4>1, AppendTo
        <5>2. \A j \in 1 .. Len(qSig[w]) : qSig'[w][j] = qSig[w][j]
          BY <2>4, <2>7, AppendTo
        <5> QED BY <2>7, <4>1, <5>1, <5>2 DEF Once, SentBackOnly
      <4>2. CASE v # w
        BY <2>7, <4>2 DEF Once, SentBackOnly
      <4> QED BY <4>1, <4>2
    <3> QED BY <1>1, <3>4, <3>5, <3>6, <3>7, <3>9, <3>10, OnceBy
  <2>8. CASE qSig' = qSig
    <3>1. QueueAt(qRtc'[r], kind, holder, "rtc", r)
      BY <2>1, <2>4, <2>5, QueueShorter
    <3>2. \A x \in RtcWorkers : QueueAt(qRtc'[x], kind, holder, "rtc", x)
      BY <2>1, <2>3, <3>1 DEF Tracked
    <3>3. \A v \in SigWorkers, x \in Conns : Stops(v, x)' => kind[x] = "notify" /\ holder[x] = v
      BY <2>3, <2>4, StopsKept DEF Tracked
    <3>4. /\ \A x \in Conns : x \notin Askers' => kind[x] = "none"
          /\ QueueAt(qSrv', kind, holder, "srv", null)
          /\ \A v \in SigWorkers : QueueAt(qSig'[v], kind, holder, "sig", v)
          /\ \A a \in Addrs : heap'[a] # null => ListAt(heap'[a].replies, kind, holder, "heap", a)
          /\ \A c \in Conns : ListAt(got'[c], kind, holder, "got", c)
      BY <1>1, <2>3, <2>6, <2>8 DEF Tracked
    <3>5. SentBackOnly'
      BY <2>8 DEF Once, SentBackOnly
    <3> QED BY <3>2, <3>3, <3>4, <3>5, OnceBy
  <2> QED BY <2>1, <2>2, <2>7, <2>8
<1> QED BY <1>2, <1>3

(* The worker hands the answer to a connection, or drops it.               *)
LEMMA OnceProcessRtcMsg ==
    ASSUME CInv, MInv, Fresh, Once, [Next]_vars, NEW w \in SigWorkers, ProcessRtcMsg(w)
    PROVE  Once'
<1>1. qSrv' = qSrv /\ qRtc' = qRtc /\ got' = got
  BY ProcessRtcMsgEffect DEF ProcessRtcMsg, srvVars, rtcVars
<1>2. CASE qSig' = qSig /\ heap' = heap
  BY <1>1, <1>2, OnceStays
<1>3. CASE ~(qSig' = qSig /\ heap' = heap)
  <2>1. /\ qSig[w] # <<>> /\ qSig' = [qSig EXCEPT ![w] = Tail(@)]
        /\ \/ heap' = heap
           \/ \E a \in Addrs : Replied(a, Head(qSig[w]).from)
    BY <1>3, ProcessRtcMsgEffect
  <2>2. qSig'[w] = Tail(qSig[w]) /\ \A v \in SigWorkers : v # w => qSig'[v] = qSig[v]
    BY <2>1 DEF MInv, MsgTypes
  <2>3. qSig[w] \in Seq(RtcMsgType) /\ Len(qSrv') # Len(qSrv) + 1
    BY <1>1, QueuesTyped
  <2>4. /\ Head(qSig[w]) \in RtcMsgType /\ Head(qSig[w]) = qSig[w][1] /\ 1 \in 1 .. Len(qSig[w])
        /\ \A i \in 1 .. Len(qSig'[w]) : i + 1 \in 1 .. Len(qSig[w]) /\ qSig'[w][i] = qSig[w][i + 1]
    <3> DEFINE q == qSig[w]
               t == qSig'[w]
    <3>1. q \in Seq(RtcMsgType) /\ q # <<>> /\ t = Tail(q)
      BY <2>1, <2>2, <2>3
    <3> HIDE DEF q, t
    <3>2. /\ Head(q) \in RtcMsgType /\ Head(q) = q[1] /\ 1 \in 1 .. Len(q)
          /\ \A i \in 1 .. Len(t) : i + 1 \in 1 .. Len(q) /\ t[i] = q[i + 1]
      BY <3>1, TailOf
    <3> QED BY <3>2 DEF q, t
  <2>5. PICK d \in Conns : d = Head(qSig[w]).from
    BY <2>4 DEF RtcMsgType
  <2>6. Head(qSig[w]).cmd \in AsyncCmds
    BY <2>4 DEF Once, SentBackOnly
  <2>7. SentBackOnly'
    <3> SUFFICES ASSUME NEW v \in SigWorkers, NEW i \in 1 .. Len(qSig'[v])
                 PROVE  qSig'[v][i].cmd \in AsyncCmds
      BY DEF SentBackOnly
    <3>1. CASE v = w
      <4>1. i + 1 \in 1 .. Len(qSig[w]) /\ qSig'[v][i] = qSig[w][i + 1]
        BY <2>4, <3>1
      <4> QED BY <4>1 DEF Once, SentBackOnly
    <3>2. CASE v # w
      BY <2>2, <3>2 DEF Once, SentBackOnly
    <3> QED BY <3>1, <3>2
  <2>8. PICK kind, holder : Tracked(kind, holder)
    BY DEF Once
  <2>9. QueueAt(qSig[w], kind, holder, "sig", w)
    BY <2>8 DEF Tracked
  <2>10. Askers \subseteq Askers'
    BY AskedForGood
  <2>11. CASE heap' = heap
    <3>1. QueueAt(qSig'[w], kind, holder, "sig", w)
      BY <2>1, <2>2, <2>3, <2>9, QueueShorter
    <3>2. \A v \in SigWorkers : QueueAt(qSig'[v], kind, holder, "sig", v)
      BY <2>2, <2>8, <3>1 DEF Tracked
    <3>3. \A v \in SigWorkers, x \in Conns : Stops(v, x)' => kind[x] = "notify" /\ holder[x] = v
      BY <2>3, <2>8, StopsKept DEF Tracked
    <3>4. /\ \A x \in Conns : x \notin Askers' => kind[x] = "none"
          /\ QueueAt(qSrv', kind, holder, "srv", null)
          /\ \A x \in RtcWorkers : QueueAt(qRtc'[x], kind, holder, "rtc", x)
          /\ \A a \in Addrs : heap'[a] # null => ListAt(heap'[a].replies, kind, holder, "heap", a)
          /\ \A c \in Conns : ListAt(got'[c], kind, holder, "got", c)
      BY <1>1, <2>8, <2>10, <2>11 DEF Tracked
    <3> QED BY <2>7, <3>2, <3>3, <3>4, OnceBy
  <2>12. ASSUME NEW a \in Addrs, Replied(a, d) PROVE Once'
    <3>1. PICK kind2, holder2 :
             Moved(kind, holder, kind2, holder2, d) /\ kind2[d] = "heap" /\ holder2[d] = a
      <4>1. /\ Moved(kind, holder, Now(kind, d, "heap"), Now(holder, d, a), d)
            /\ Now(kind, d, "heap")[d] = "heap" /\ Now(holder, d, a)[d] = a
        BY MoveExists
      <4> QED BY <4>1
    <3>2. QueueAt(qSig'[w], kind2, holder2, "sig", w) /\ kind[d] = "sig" /\ holder[d] = w
      <4>1. FirstInQueue(qSig[w], d)
        BY <2>1, <2>5, <2>6 DEF FirstInQueue
      <4>2. QueueAt(Tail(qSig[w]), kind2, holder2, "sig", w) /\ kind[d] = "sig" /\ holder[d] = w
        BY <2>3, <2>9, <3>1, <4>1, QueueTaken
      <4> QED BY <2>2, <4>2
    <3>3. \A b \in Addrs : heap'[b] # null => ListAt(heap'[b].replies, kind2, holder2, "heap", b)
      BY <2>8, <2>12, <3>1, <3>2, RepliedAt
    <3>4. /\ \A x \in Conns : x \notin Askers /\ x # d => kind2[x] = "none"
          /\ QueueAt(qSrv, kind2, holder2, "srv", null)
          /\ \A x \in RtcWorkers : QueueAt(qRtc[x], kind2, holder2, "rtc", x)
          /\ \A v \in SigWorkers : v # w => QueueAt(qSig[v], kind2, holder2, "sig", v)
          /\ \A v \in SigWorkers, x \in Conns : Stops(v, x) => kind2[x] = "notify" /\ holder2[x] = v
          /\ \A c \in Conns : ListAt(got[c], kind2, holder2, "got", c)
      <4>1. LeftAlone(kind, holder, kind2, holder2, d)
        BY <2>8, <3>1, MoveKept
      <4> QED BY <3>2, <4>1 DEF LeftAlone
    <3>5. \A v \in SigWorkers : QueueAt(qSig'[v], kind2, holder2, "sig", v)
      BY <2>2, <3>2, <3>4
    <3>6. \A v \in SigWorkers, x \in Conns : Stops(v, x)' => kind2[x] = "notify" /\ holder2[x] = v
      BY <2>3, <3>4, StopsKept
    <3>7. d \in Askers
      BY <2>8, <3>2 DEF Tracked
    <3>8. \A x \in Conns : x \notin Askers' => kind2[x] = "none"
      BY <2>10, <3>4, <3>7
    <3> QED BY <1>1, <2>7, <3>3, <3>4, <3>5, <3>6, <3>8, OnceBy
  <2> QED BY <2>1, <2>5, <2>11, <2>12
<1> QED BY <1>2, <1>3

(* The client gets the first reply of the connection.                      *)
LEMMA OnceWriteReply ==
    ASSUME CInv, MInv, Fresh, Once, [Next]_vars, NEW w \in SigWorkers, WriteReply(w)
    PROVE  Once'
<1>1. qSrv' = qSrv /\ qRtc' = qRtc /\ qSig' = qSig
  BY DEF WriteReply, srvVars, rtcVars, sigVars
<1>2. PICK c \in Conns, a \in Addrs :
         /\ heap[a] # null /\ heap[a].replies \in Seq(Conns) /\ heap[a].replies # <<>>
         /\ heap'[a].replies = Tail(heap[a].replies)
         /\ \A b \in Addrs : b # a => heap'[b] = heap[b]
         /\ got'[c] = Append(got[c], Head(heap[a].replies))
         /\ \A d \in Conns : d # c => got'[d] = got[d]
  BY WriteReplyEffect
<1>3. PICK d \in Conns : d = Head(heap[a].replies)
  BY <1>2, TailOf
<1>4. PICK kind, holder : Tracked(kind, holder)
  BY DEF Once
<1>5. /\ ListAt(heap[a].replies, kind, holder, "heap", a)
      /\ ListAt(got[c], kind, holder, "got", c) /\ got[c] \in Seq(Conns)
  BY <1>2, <1>4 DEF Tracked, CInv, ConnTypes
<1>6. PICK kind2, holder2 :
         Moved(kind, holder, kind2, holder2, d) /\ kind2[d] = "got" /\ holder2[d] = c
  <2>1. /\ Moved(kind, holder, Now(kind, d, "got"), Now(holder, d, c), d)
        /\ Now(kind, d, "got")[d] = "got" /\ Now(holder, d, c)[d] = c
    BY MoveExists
  <2> QED BY <2>1
<1>7. ListAt(heap'[a].replies, kind2, holder2, "heap", a) /\ kind[d] = "heap" /\ holder[d] = a
  <2>1. heap[a].replies \in Seq(Conns) /\ FirstInList(heap[a].replies, d)
    BY <1>2, <1>3 DEF FirstInList
  <2>2. ListAt(Tail(heap[a].replies), kind2, holder2, "heap", a) /\ kind[d] = "heap" /\ holder[d] = a
    BY <1>5, <1>6, <2>1, ListTaken
  <2> QED BY <1>2, <2>2
<1>8. ListAt(got'[c], kind2, holder2, "got", c)
  BY <1>2, <1>3, <1>5, <1>6, <1>7, ListJoined
<1>9. /\ \A x \in Conns : x \notin Askers /\ x # d => kind2[x] = "none"
      /\ QueueAt(qSrv, kind2, holder2, "srv", null)
      /\ \A x \in RtcWorkers : QueueAt(qRtc[x], kind2, holder2, "rtc", x)
      /\ \A v \in SigWorkers : QueueAt(qSig[v], kind2, holder2, "sig", v)
      /\ \A v \in SigWorkers, x \in Conns : Stops(v, x) => kind2[x] = "notify" /\ holder2[x] = v
      /\ \A b \in Addrs : heap[b] # null /\ b # a =>
            ListAt(heap[b].replies, kind2, holder2, "heap", b)
      /\ \A e \in Conns : ListAt(got[e], kind2, holder2, "got", e)
  <2>1. LeftAlone(kind, holder, kind2, holder2, d)
    BY <1>4, <1>6, MoveKept
  <2> QED BY <1>7, <2>1 DEF LeftAlone
<1>10. \A b \in Addrs : heap'[b] # null => ListAt(heap'[b].replies, kind2, holder2, "heap", b)
  BY <1>2, <1>7, <1>9
<1>11. \A e \in Conns : ListAt(got'[e], kind2, holder2, "got", e)
  BY <1>2, <1>8, <1>9
<1>12. \A v \in SigWorkers, x \in Conns : Stops(v, x)' => kind2[x] = "notify" /\ holder2[x] = v
  <2>1. Len(qSrv') # Len(qSrv) + 1
    BY <1>1, QueuesTyped
  <2> QED BY <1>9, <2>1, StopsKept
<1>13. d \in Askers /\ Askers \subseteq Askers'
  BY <1>4, <1>7, AskedForGood DEF Tracked
<1>14. \A x \in Conns : x \notin Askers' => kind2[x] = "none"
  BY <1>9, <1>13
<1>15. SentBackOnly'
  BY <1>1 DEF Once, SentBackOnly
<1> QED BY <1>1, <1>9, <1>10, <1>11, <1>12, <1>14, <1>15, OnceBy

LEMMA OnceStep ==
    ASSUME CInv, MInv, Fresh, Once, [Next]_vars
    PROVE  Once'
<1>1. ASSUME Quiet, got' = got,
             \A a \in Addrs : heap'[a] # null =>
                \/ heap[a] # null /\ heap'[a].replies = heap[a].replies
                \/ heap'[a].replies = <<>>
      PROVE  Once'
  BY <1>1, QuietEffect, OnceStays
<1>2. ASSUME Quiet, heap' = heap, got' = got PROVE Once'
  BY <1>1, <1>2
<1>3. CASE SignalingServerNext
  <2>1. heap' = heap /\ got' = got
    BY <1>3 DEF SignalingServerNext, AcceptNewConn, NotifyNewConn, objVars, placeVars, clientVars
  <2> QED BY <1>2, <1>3, <2>1 DEF Quiet
<1>4. CASE \/ NotifyRtcWorker \/ (\E r \in RtcWorkers : NotifySigWorker(r)) \/ UNCHANGED vars
  <2>1. heap' = heap /\ got' = got
    BY <1>4, ElsewhereEffect DEF RtcServerNext, RtcWorkerNext
  <2> QED BY <1>2, <1>4, <2>1 DEF Quiet
<1>5. CASE DropWithoutCertificate
  <2>1. heap' = heap /\ got' = got
    BY <1>5, ElsewhereEffect DEF RtcServerNext
  <2> QED BY <1>5, <2>1, DropEffect, OnceStays
<1>6. ASSUME NEW w \in SigWorkers, NEW a \in Addrs, HandleNewConn(w, a) PROVE Once'
  <2>1. /\ got' = got
        /\ \A b \in Addrs : heap'[b] # null =>
              heap'[b] = heap[b] \/ heap'[b].replies = <<>>
    BY <1>6, HandleNewConnEffect
  <2> QED BY <1>1, <1>6, <2>1 DEF Quiet
<1>7. ASSUME NEW w \in SigWorkers, RemoveConnection(w) PROVE Once'
  <2>1. got' = got /\ \A b \in Addrs : heap'[b] # null => heap'[b] = heap[b]
    BY <1>7, RemoveConnectionEffect
  <2> QED BY <1>1, <1>7, <2>1 DEF Quiet
<1>8. ASSUME NEW w \in SigWorkers,
             \/ WriteFails(w)
             \/ \E fd \in Fds : ReadFails(w, fd) \/ BeginWrite(w, fd)
             \/ \E a \in Addrs : ProcessTimeout(w, a)
      PROVE  Once'
  <2>1. heap' = heap /\ got' = got
    BY <1>8, CloseFdEffect, BeginWriteEffect
  <2> QED BY <1>2, <1>8, <2>1 DEF Quiet
<1>9. ASSUME NEW w \in SigWorkers, SigWorkerNext(w) PROVE Once'
  BY <1>6, <1>7, <1>8, <1>9, OnceNotifyRtcServer, OnceProcessRtcMsg, OnceWriteReply,
     OnceReadRequest, OnceRejectUnknownCmd DEF SigWorkerNext
<1>10. ASSUME NEW r \in RtcWorkers, RtcWorkerNext(r) PROVE Once'
  BY <1>4, <1>10, OnceServe DEF RtcWorkerNext
<1>11. CASE RtcServerNext
  BY <1>4, <1>5, <1>11, OnceRoute DEF RtcServerNext
<1> QED BY <1>3, <1>4, <1>9, <1>10, <1>11 DEF Next

LEMMA NothingOwed == Init => Once
<1> SUFFICES ASSUME Init PROVE Once
  OBVIOUS
<1> DEFINE none == [c \in Conns |-> "none"]
<1>1. /\ \A w \in SigWorkers : Len(qSig[w]) = 0 /\ pcSig[w].at = "idle"
      /\ \A r \in RtcWorkers : Len(qRtc[r]) = 0
      /\ \A c \in Conns : Len(got[c]) = 0
      /\ \A a \in Addrs : heap[a] = null
      /\ Len(qSrv) = 0
  BY DEF Init, Idle
<1>2. \A d \in Conns : none[d] = "none"
  OBVIOUS
<1> HIDE DEF none
<1>3. Tracked(none, none)
  BY <1>1, <1>2 DEF Tracked, QueueAt, ListAt, Stops
<1>4. SentBackOnly
  BY <1>1 DEF SentBackOnly
<1> QED BY <1>3, <1>4 DEF Once

LEMMA AtMostOne ==
    ASSUME NEW S, \A x, y \in S : x = y
    PROVE  Cardinality(S) <= 1
<1>1. CASE S = {}
  BY <1>1, FS_EmptySet
<1>2. CASE S # {}
  <2>1. PICK x \in S : TRUE
    BY <1>2
  <2>2. S = {x}
    BY <2>1
  <2>3. Cardinality(S) = 1
    BY <2>2, FS_Singleton
  <2> QED BY <2>3
<1> QED BY <1>1, <1>2

LEMMA OnceAnswered == Once => AnsweredAtMostOnce
<1> SUFFICES ASSUME Once, NEW d \in Conns
             PROVE  Cardinality({x \in UNION {{<<c, i>> : i \in 1 .. Len(got[c])} : c \in Conns} :
                                   got[x[1]][x[2]] = d}) <= 1
  BY DEF AnsweredAtMostOnce
<1> DEFINE T == {x \in UNION {{<<c, i>> : i \in 1 .. Len(got[c])} : c \in Conns} :
                   got[x[1]][x[2]] = d}
<1>1. PICK kind, holder : Tracked(kind, holder)
  BY DEF Once
<1>2. \A c \in Conns : \A i \in 1 .. Len(got[c]) : got[c][i] = d =>
         holder[d] = c /\ \A j \in 1 .. Len(got[c]) : got[c][j] = d => j = i
  BY <1>1 DEF Tracked, ListAt
<1>3. ASSUME NEW x \in T
      PROVE  \E c \in Conns : \E i \in 1 .. Len(got[c]) : x = <<c, i>> /\ got[c][i] = d
  OBVIOUS
<1>4. ASSUME NEW x \in T, NEW y \in T PROVE x = y
  <2>1. PICK c \in Conns : \E i \in 1 .. Len(got[c]) : x = <<c, i>> /\ got[c][i] = d
    BY <1>3
  <2>2. PICK i \in 1 .. Len(got[c]) : x = <<c, i>> /\ got[c][i] = d
    BY <2>1
  <2>3. PICK e \in Conns : \E j \in 1 .. Len(got[e]) : y = <<e, j>> /\ got[e][j] = d
    BY <1>3
  <2>4. PICK j \in 1 .. Len(got[e]) : y = <<e, j>> /\ got[e][j] = d
    BY <2>3
  <2>5. c = e
    BY <1>2, <2>2, <2>4
  <2>6. i = j
    BY <1>2, <2>2, <2>4, <2>5
  <2> QED BY <2>2, <2>4, <2>5, <2>6
<1> HIDE DEF T
<1>5. Cardinality(T) <= 1
  BY <1>4, AtMostOne
<1> QED BY <1>5 DEF T

(* No request is answered twice, and an answer that reaches another client *)
(* than the one that asked reaches one whose connection had the same       *)
(* worker, fd and address, for any number of clients, workers, fds and     *)
(* addresses (signaling_worker.cpp, rtc_worker.cpp).                       *)
THEOREM Answered == Spec => []AnswersSound
<1>1. CInv /\ MInv /\ (Fresh /\ Once) /\ [Next]_vars => (Fresh /\ Once)'
  BY FreshStep, OnceStep
<1>2. Init => Fresh /\ Once
  BY NothingAsked, NothingOwed
<1>3. Once /\ MisdirectedOnlyToTwin => AnswersSound
  BY OnceAnswered DEF AnswersSound
<1> QED BY <1>1, <1>2, <1>3, Inductive, Twins, PTL DEF Spec

=============================================================================
