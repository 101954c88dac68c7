------------------------ MODULE SignalingInputProofs ------------------------
(***************************************************************************)
(* What the threads of the signaling path take their work from: the byte   *)
(* stream of a client (TcpConnection) and the queues between two threads   *)
(* (LockFreeQueue).  The two components share nothing.                     *)
(*                                                                         *)
(* TcpConnection: framing and idle timeout, for every head size, set of    *)
(* body lengths, way of cutting the stream and timer.  LockFreeQueue:      *)
(* memory safety, exact accounting, and that it implements a FIFO queue,   *)
(* for every set of values and every number of nodes.                      *)
(***************************************************************************)
EXTENDS LockFreeQueue, TcpConnection, TLAPS

-----------------------------------------------------------------------------
(* TcpConnection.                                                          *)

(* Where the parser of _process_query_buffer can be: before the head, or   *)
(* behind the head with or without a handled body.                         *)
Parser ==
    \/ /\ conn.state = "head"
       /\ conn.processed = 0 /\ conn.expected = HeadSize /\ conn.handled = 0
    \/ /\ conn.state = "body"
       /\ conn.expected = request.bodyLen /\ conn.buf >= HeadSize
       /\ \/ conn.processed = HeadSize /\ conn.handled = 0
          \/ conn.processed = DoneMark /\ conn.handled > 0 /\ conn.buf >= RequestLen

(* It gets behind a head only if that was good, and so for the body.       *)
Good ==
    /\ conn.state = "body" => request.magicOK
    /\ conn.processed = DoneMark => request.bodyOK

(* The loop is left only when what is expected is not there yet.           *)
Drained == Ready => ~Complete

(* The timer is not overdue and has looked at idle when phase was 0.       *)
Watch ==
    /\ idle <= ConnectionTimeout + phase
    /\ open = "timeout" => idle >= ConnectionTimeout

ConnInv == ConnTypeOK /\ Parser /\ Good /\ Drained /\ Watch

(* The sizes, without the types they come from.                            *)
LEMMA Sizes ==
    ASSUME request \in RequestType
    PROVE  /\ HeadSize \in Nat /\ HeadSize > 0 /\ DoneMark \in Nat
           /\ request.bodyLen \in Nat /\ HeadSize + request.bodyLen < DoneMark
<1>1. request.bodyLen \in BodyLens
  BY DEF RequestType
<1>2. HeadSize \in Nat /\ HeadSize > 0 /\ DoneMark \in Nat /\ BodyLens \subseteq Nat
  BY SizesAssumption
<1>3. \A b \in BodyLens : HeadSize + b < DoneMark
  BY SizesAssumption
<1> QED BY <1>1, <1>2, <1>3

LEMMA ConnInitially == ConnInit => ConnInv
<1> USE SizesAssumption, TimesAssumption
<1>1. ASSUME ConnInit PROVE ConnTypeOK
  <2>1. request \in RequestType
    BY <1>1 DEF ConnInit
  <2>2. conn \in ConnType
    BY <1>1 DEF ConnInit, ConnType
  <2>3. looping \in BOOLEAN
    BY <1>1 DEF ConnInit
  <2>4. conn.buf <= sent
    BY <1>1 DEF ConnInit
  <2>5. sent \in 0 .. MaxBytes /\ idle \in Nat /\ phase \in 0 .. Period
    BY <1>1 DEF ConnInit
  <2> QED BY <1>1, <2>1, <2>2, <2>3, <2>4, <2>5 DEF ConnInit, ConnTypeOK
<1>2. ConnInit => Parser /\ Good /\ Drained /\ Watch
  <2>1. ConnInit => Parser /\ Watch
    BY DEF ConnInit, Parser, Watch
  <2>2. ConnInit => Good
    <3>1. ASSUME ConnInit PROVE conn.state = "head" /\ conn.processed # DoneMark
      BY <3>1, <1>1, Sizes DEF ConnInit, ConnTypeOK
    <3> QED BY <3>1 DEF Good
  <2>3. ConnInit => Drained
    BY DEF ConnInit, Drained, Complete
  <2> QED BY <2>1, <2>2, <2>3
<1> QED BY <1>1, <1>2 DEF ConnInv

LEMMA ConnPreserved == ConnInv /\ [ConnNext]_connVars => ConnInv'
<1> SUFFICES ASSUME ConnInv, [ConnNext]_connVars PROVE ConnInv'
  OBVIOUS
<1> USE SizesAssumption, TimesAssumption
<1>1. looping' \in BOOLEAN
  BY Zenon DEF ConnNext, Send, ReadQuery, ReadFails, Close, ProcessHead, ProcessBody, LeaveLoop,
         WriteReply, Pass, ProcessTimeout, connVars, ConnInv, ConnTypeOK
<1>2. Good'
  <2>1. CASE UNCHANGED <<conn, request>>
    BY <2>1 DEF ConnInv, Good
  <2>2. ASSUME NEW n \in 1 .. MaxBytes, ReadQuery(n) PROVE Good'
    BY <2>2 DEF ReadQuery, ConnInv, ConnTypeOK, ConnType, Good
  <2>3. CASE ProcessHead
    <3>1. CASE UNCHANGED <<conn, request>>
      BY <3>1 DEF ConnInv, Good
    <3>2. CASE request.magicOK /\ conn' = [conn EXCEPT !.state = "body", !.processed = HeadSize,
                                  !.expected = request.bodyLen] /\ request' = request
      <4>1. conn'.processed # DoneMark
        BY <3>2, Sizes DEF ConnInv, ConnTypeOK, ConnType
      <4> QED BY <3>2, <4>1 DEF Good
    <3> QED BY <2>3, <3>1, <3>2 DEF ProcessHead, Close
  <2>4. CASE ProcessBody
    BY <2>4 DEF ProcessBody, Close, ConnInv, ConnTypeOK, RequestType, ConnType, Good
  <2> QED
    BY <2>1, <2>2, <2>3, <2>4
       DEF ConnNext, Send, ReadFails, Close, LeaveLoop, WriteReply, Pass, ProcessTimeout, connVars
<1> DEFINE Rest == ConnTypeOK /\ Parser /\ Drained /\ Watch
<1> USE DEF ConnInv, ConnTypeOK, RequestType, ConnType, Parser, Drained, Watch, Ready,
        Complete, RequestLen
<1>3. ASSUME NEW n \in 1 .. MaxBytes, Send(n) PROVE Rest'
  BY <1>3 DEF Send
<1>4. ASSUME NEW n \in 1 .. MaxBytes, ReadQuery(n) PROVE Rest'
  BY <1>4 DEF ReadQuery
<1>5. ASSUME NEW why \in {"timeout", "peer", "error"}, Close(why), idle' \in {0, idle},
             why = "timeout" => idle' >= ConnectionTimeout
      PROVE Rest'
  BY <1>1, <1>5 DEF Close
<1>6. ASSUME looping, Complete, conn.state = "head",
             conn' = [conn EXCEPT !.state = "body", !.processed = HeadSize,
                                  !.expected = request.bodyLen],
             UNCHANGED <<request, sent, looping, open, idle, phase>>
      PROVE Rest'
  <2>1. conn' \in ConnType
    BY <1>6
  <2>2. Parser' /\ Watch'
    BY <1>6, Sizes
  <2>3. Drained'
    BY <1>6 DEF Drained, Ready
  <2>4. conn'.buf <= sent'
    BY <1>6
  <2> QED BY <1>1, <1>6, <2>1, <2>2, <2>3, <2>4
<1>7. ASSUME looping, Complete, conn.state = "body", conn.handled < MaxHandled,
             conn' = [conn EXCEPT !.processed = DoneMark, !.handled = @ + 1],
             UNCHANGED <<request, sent, looping, open, idle, phase>>
      PROVE Rest'
  <2>1. conn' \in ConnType
    <3>1. conn \in ConnType /\ conn.handled + 1 \in 0 .. MaxHandled
      BY <1>7
    <3> HIDE DEF Parser, Drained, Watch
    <3> QED BY <1>7, <3>1 DEF ConnType
  <2>2. Parser' /\ Watch'
    BY <1>7, Sizes
  <2>3. Drained'
    BY <1>7 DEF Drained, Ready
  <2>4. conn'.buf <= sent'
    BY <1>7
  <2> QED BY <1>1, <1>7, <2>1, <2>2, <2>3, <2>4
<1>8. ASSUME LeaveLoop PROVE Rest'
  BY <1>8 DEF LeaveLoop
<1>9. ASSUME WriteReply PROVE Rest'
  BY <1>9 DEF WriteReply
<1>10. ASSUME Pass PROVE Rest'
  BY <1>10 DEF Pass
<1>11. ASSUME phase' = 0, idle < ConnectionTimeout,
              UNCHANGED <<request, sent, conn, looping, open, idle>>
       PROVE Rest'
  BY <1>11
<1>12. ASSUME UNCHANGED connVars PROVE Rest'
  BY <1>12 DEF connVars
<1>13. Rest'
  <2>1. CASE ReadFails
    BY <2>1, <1>5 DEF ReadFails
  <2>2. CASE ProcessHead
    BY <2>2, <1>5, <1>6 DEF ProcessHead
  <2>3. CASE ProcessBody
    BY <2>3, <1>5, <1>7 DEF ProcessBody
  <2>4. CASE ProcessTimeout
    BY <2>4, <1>5, <1>11 DEF ProcessTimeout, TimedOut
  <2> QED
    BY <2>1, <2>2, <2>3, <2>4, <1>3, <1>4, <1>8, <1>9, <1>10, <1>12 DEF ConnNext
<1> QED BY <1>2, <1>13

LEMMA ConnInductive == ConnSpec => []ConnInv
BY ConnInitially, ConnPreserved, PTL DEF ConnSpec

(* The fields of a connection keep their types and the buffer never holds  *)
(* more than was sent (read_query).                                        *)
THEOREM ConnTypeCorrect == ConnSpec => []ConnTypeOK
BY ConnInductive, PTL DEF ConnInv

(* read_query and _process_query_buffer handle a request exactly when its  *)
(* last byte is there, however the stream is cut into reads.               *)
THEOREM Framing == ConnSpec => []FramingExact
<1>1. ASSUME ConnInv PROVE FramingExact
  <2> USE <1>1 DEF ConnInv, ConnTypeOK
  <2> conn \in ConnType /\ conn.buf \in Nat /\ conn.handled \in Nat
    BY SizesAssumption DEF ConnType
  <2> USE Sizes
  <2>1. conn.handled > 0 => conn.buf >= RequestLen
    BY DEF Parser
  <2>2. conn.handled > 0 => request.magicOK /\ request.bodyOK
    BY DEF Parser, Good
  <2>3. Ready /\ conn.buf >= RequestLen => conn.handled > 0
    <3>1. ~Complete /\ conn.buf >= RequestLen => conn.handled > 0
      BY DEF Parser, Complete, RequestLen
    <3> QED BY <3>1 DEF Drained
  <2> QED BY <2>1, <2>2, <2>3 DEF FramingExact
<1> QED BY <1>1, ConnInductive, PTL

(* process_timeout closes a silent connection at most one timer period     *)
(* after its timeout, and none before it.                                  *)
THEOREM TimeoutBound == ConnSpec => []ClosedInTime
<1>1. ConnInv => ClosedInTime
  BY TimesAssumption DEF ConnInv, ConnTypeOK, Watch, ClosedInTime
<1> QED BY <1>1, ConnInductive, PTL

-----------------------------------------------------------------------------
(* LockFreeQueue.                                                          *)

USE MaxNodesAssumption, NilAssumption DEF Nodes

(* The constructor's dummy node establishes the inductive invariant.       *)
LEMMA InitIInv == Init => IInv
  BY DEF Init, IInv, TypeOK, Chain, ConsumerHead, SizeAccount

(* Each step of produce() and consume() preserves the inductive invariant. *)
LEMMA StepIInv == IInv /\ [Next]_vars => IInv'
<1> SUFFICES ASSUME IInv, [Next]_vars PROVE IInv'
  OBVIOUS
<1> USE DEF IInv, TypeOK, Chain, ConsumerHead, SizeAccount
<1>1. ASSUME NEW v \in Values, ProduceLink(v) PROVE IInv'
  <2>1. TypeOK'
    BY <1>1 DEF ProduceLink, consVars
  <2>2. Chain'
    BY <1>1, <2>1 DEF ProduceLink, consVars
  <2>3. ConsumerHead' /\ SizeAccount'
    BY <1>1, <2>1 DEF ProduceLink, consVars
  <2> QED BY <2>1, <2>2, <2>3
<1>2. CASE ProducePublish
  <2>1. next[last_] = last_ + 1 /\ last_ + 1 \in 1 .. fresh - 1 /\ last_ + 1 \in Nodes
    BY <1>2 DEF ProducePublish
  <2>2. TypeOK'
    BY <1>2, <2>1 DEF ProducePublish, consVars
  <2>3. Chain' /\ ConsumerHead' /\ SizeAccount'
    BY <1>2, <2>1, <2>2 DEF ProducePublish, consVars
  <2> QED BY <2>2, <2>3
<1>3. CASE ProduceCount
  BY <1>3 DEF ProduceCount, consVars
<1>4. CASE ProduceTrim
  <2>1. next[first_] = first_ + 1 /\ first_ + 1 \in Nodes /\ first_ < divider_
    BY <1>4 DEF ProduceTrim
  <2>2. TypeOK'
    BY <1>4, <2>1 DEF ProduceTrim, consVars
  <2>3. alive' = first_' .. fresh' - 1
    BY <1>4, <2>1 DEF ProduceTrim, consVars
  <2>4. Chain' /\ ConsumerHead' /\ SizeAccount'
    BY <1>4, <2>1, <2>2, <2>3 DEF ProduceTrim, consVars
  <2> QED BY <2>2, <2>4
<1>5. CASE ProduceDone
  BY <1>5 DEF ProduceDone, consVars
<1>6. CASE ConsumeTest
  BY <1>6 DEF ConsumeTest, prodVars
<1>7. CASE ConsumeCopy
  <2>1. next[divider_] = divider_ + 1 /\ divider_ + 1 \in 1 .. fresh - 1 /\ divider_ + 1 \in Nodes
    BY <1>7 DEF ConsumeCopy
  <2> QED BY <1>7, <2>1 DEF ConsumeCopy, prodVars
<1>8. CASE ConsumeAdvance
  <2>1. next[divider_] = divider_ + 1 /\ divider_ + 1 \in Nodes
    BY <1>8 DEF ConsumeAdvance
  <2>2. TypeOK'
    BY <1>8, <2>1 DEF ConsumeAdvance, prodVars
  <2>3. Chain' /\ ConsumerHead' /\ SizeAccount'
    BY <1>8, <2>1, <2>2 DEF ConsumeAdvance, prodVars
  <2> QED BY <2>2, <2>3
<1>9. CASE ConsumeCount
  BY <1>9 DEF ConsumeCount, prodVars
<1>10. CASE UNCHANGED vars
  BY <1>10 DEF vars, prodVars, consVars
<1> QED BY <1>1, <1>2, <1>3, <1>4, <1>5, <1>6, <1>7, <1>8, <1>9, <1>10 DEF Next

(* The inductive invariant holds in every reachable state.                 *)
THEOREM InductiveInvariant == Spec => []IInv
  BY InitIInv, StepIInv, PTL DEF Spec

(* The state stays well typed.                                             *)
THEOREM TypeCorrect == Spec => []TypeOK
<1>1. IInv => TypeOK BY DEF IInv
<1> QED BY <1>1, InductiveInvariant, PTL

(* consume() never dereferences nullptr or a node produce() has deleted.   *)
THEOREM MemorySafe == Spec => []NoUseAfterFree
<1>1. IInv => NoUseAfterFree
  <2> SUFFICES ASSUME IInv, pcC \in {"copy", "advance"}
               PROVE divider_ \in alive /\ next[divider_] \in alive
    BY DEF NoUseAfterFree
  <2>1. divider_ < fresh - 1 /\ first_ <= divider_ /\ divider_ \in Nodes /\ first_ \in Nodes
    BY DEF IInv, TypeOK, Chain, ConsumerHead
  <2>2. next[divider_] = divider_ + 1
    BY <2>1 DEF IInv, Chain
  <2> QED BY <2>1, <2>2 DEF IInv, TypeOK, Chain
<1> QED BY <1>1, InductiveInvariant, PTL

(* produce() deletes consumed nodes only, and keeps exactly the others.    *)
THEOREM TrimSafe == Spec => [](TrimStopsAtDivider /\ NoLeak)
<1>1. IInv => TrimStopsAtDivider /\ NoLeak
  BY DEF IInv, TypeOK, Chain, TrimStopsAtDivider, NoLeak
<1> QED BY <1>1, InductiveInvariant, PTL

(* size_ is exact whenever neither thread is between its pointer store and *)
(* its counter update.                                                     *)
THEOREM SizeExact == Spec => []SizeExactWhenQuiet
<1>1. IInv => SizeExactWhenQuiet
  BY DEF IInv, TypeOK, Chain, SizeAccount, SizeExactWhenQuiet
<1> QED BY <1>1, InductiveInvariant, PTL

-----------------------------------------------------------------------------
(* Refinement: the stores to last_ and divider_ are the linearization      *)
(* points; every other step leaves the abstract queue alone.               *)
LEMMA QueueUnchanged ==
  ASSUME IInv, last_' = last_, divider_' = divider_,
         \A n \in 1 .. last_ : value'[n] = value[n]
  PROVE  queue' = queue
  BY DEF queue, IInv, TypeOK, Chain

LEMMA PublishIsPut ==
  ASSUME IInv, ProducePublish
  PROVE  \E v \in Values : Fifo!Put(v)
<1> DEFINE n == last_ - divider_
           v == value[last_ + 1]
<1>1. /\ next[last_] = last_ + 1 /\ v \in Values
      /\ last_ \in Nat /\ divider_ \in Nat /\ divider_ <= last_
  BY DEF IInv, TypeOK, Chain, ProducePublish
<1>2. n \in Nat /\ divider_ + (n + 1) = last_ + 1 /\ last_' = last_ + 1
      /\ divider_' = divider_ /\ value' = value /\ out' = out
  BY <1>1 DEF ProducePublish, consVars
<1>3. queue' = [i \in 1 .. n + 1 |-> value[divider_ + i]]
  <2>1. last_' - divider_' = n + 1
    BY <1>1, <1>2
  <2> QED BY <1>2, <2>1 DEF queue
<1>4. Append(queue, v) = [i \in 1 .. n + 1 |-> value[divider_ + i]]
  <2>1. Len(queue) = n
    BY <1>2 DEF queue
  <2>2. Append(queue, v) = [i \in 1 .. n + 1 |-> IF i = n + 1 THEN v ELSE queue[i]]
    BY <1>2, <2>1 DEF queue
  <2>3. \A i \in 1 .. n + 1 : (IF i = n + 1 THEN v ELSE queue[i]) = value[divider_ + i]
    BY <1>1, <1>2 DEF queue
  <2> QED BY <2>2, <2>3
<1>5. Fifo!Put(v)
  BY <1>2, <1>3, <1>4 DEF Fifo!Put
<1> QED BY <1>1, <1>5

LEMMA AdvanceIsTake ==
  ASSUME IInv, ConsumeAdvance
  PROVE  Fifo!Take
<1> DEFINE n == last_ - divider_
<1>1. /\ next[divider_] = divider_ + 1 /\ divider_ < last_
      /\ last_ \in Nat /\ divider_ \in Nat /\ result = value[divider_ + 1]
  BY DEF IInv, TypeOK, Chain, ConsumerHead, ConsumeAdvance
<1>2. /\ n \in Nat /\ n >= 1 /\ divider_' = divider_ + 1 /\ last_' = last_
      /\ value' = value /\ out' = Append(out, result)
  BY <1>1 DEF ConsumeAdvance, prodVars
<1>3. Len(queue) = n /\ queue # <<>> /\ Head(queue) = result
  BY <1>1, <1>2 DEF queue
<1>4. queue' = [i \in 1 .. n - 1 |-> value[divider_ + 1 + i]]
  <2>1. last_' - divider_' = n - 1
    BY <1>1, <1>2
  <2> QED BY <1>2, <2>1 DEF queue
<1>5. Tail(queue) = [i \in 1 .. n - 1 |-> value[divider_ + 1 + i]]
  <2>1. Tail(queue) = [i \in 1 .. n - 1 |-> queue[i + 1]]
    BY <1>2, <1>3 DEF queue
  <2>2. \A i \in 1 .. n - 1 : queue[i + 1] = value[divider_ + 1 + i]
    BY <1>1, <1>2 DEF queue
  <2> QED BY <2>1, <2>2
<1> QED BY <1>2, <1>3, <1>4, <1>5 DEF Fifo!Take

(* LockFreeQueue implements FifoQueue: values leave in the order they were *)
(* produced, none lost and none twice, whatever the interleaving of the    *)
(* two threads.                                                            *)
THEOREM Refinement == Spec => ImplementsFifo
<1>1. Init => Fifo!FifoInit
  BY DEF Init, Fifo!FifoInit, queue
<1>2. IInv /\ [Next]_vars => [Fifo!FifoNext]_(Fifo!fifoVars)
  <2> SUFFICES ASSUME IInv, [Next]_vars
               PROVE  Fifo!FifoNext \/ (queue' = queue /\ out' = out)
    BY DEF Fifo!fifoVars
  <2>1. ASSUME NEW v \in Values, ProduceLink(v) PROVE queue' = queue /\ out' = out
    <3>1. \A n \in 1 .. last_ : value'[n] = value[n]
      BY <2>1 DEF ProduceLink, IInv, TypeOK, Chain
    <3> QED BY <2>1, <3>1, QueueUnchanged DEF ProduceLink, consVars
  <2>2. CASE ProducePublish
    BY <2>2, PublishIsPut DEF Fifo!FifoNext
  <2>3. CASE ConsumeAdvance
    BY <2>3, AdvanceIsTake DEF Fifo!FifoNext
  <2>4. ASSUME \/ ProduceCount \/ ProduceTrim \/ ProduceDone
               \/ ConsumeTest \/ ConsumeCopy \/ ConsumeCount \/ UNCHANGED vars
        PROVE  queue' = queue /\ out' = out
    <3>1. last_' = last_ /\ divider_' = divider_ /\ value' = value /\ out' = out
      BY <2>4 DEF ProduceCount, ProduceTrim, ProduceDone, ConsumeTest, ConsumeCopy,
                  ConsumeCount, vars, prodVars, consVars
    <3> QED BY <3>1, QueueUnchanged
  <2> QED BY <2>1, <2>2, <2>3, <2>4 DEF Next
<1> QED BY <1>1, <1>2, InductiveInvariant, PTL
       DEF Spec, ImplementsFifo, Fifo!FifoSpec
=============================================================================
