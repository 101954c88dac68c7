---------------------------- MODULE LockFreeQueue ----------------------------
(***************************************************************************)
(* base/lock_free_queue.h: the queue between one producer thread and one   *)
(* consumer thread (q_conn_ from SignalingServer to a SignalingWorker,     *)
(* q_msg_ from RtcServer to an RtcWorker).  It is a linked list with three *)
(* pointers: first_ .. divider_ are consumed nodes the producer still has  *)
(* to delete, divider_'s successors up to last_ are the queue.             *)
(*                                                                         *)
(* One step is one access to memory the other thread uses.  The header     *)
(* relies on pointer accesses being atomic; the stores of one thread are   *)
(* seen in program order (they may alias, so the compiler keeps them, and  *)
(* x86-64 does not reorder stores).  Nodes are numbered in allocation      *)
(* order; 0 is the dummy node of the constructor.                          *)
(***************************************************************************)
EXTENDS Integers, Sequences

CONSTANTS
    Values,     \* what is queued
    MaxNodes,   \* how many values are produced (bound on allocations)
    nil         \* nullptr

ASSUME MaxNodesAssumption == MaxNodes \in Nat
ASSUME NilAssumption == nil \notin Nat

Nodes == 0 .. MaxNodes

VARIABLES
    first_, divider_, last_, size_,
    next,       \* Node::next
    value,      \* Node::value
    alive,      \* nodes allocated and not deleted
    fresh,      \* number of the next node `new' returns
    pcP,        \* where the producer is in produce()
    pcC,        \* where the consumer is in consume()
    result,     \* *result of the running consume()
    in, out     \* history: values whose produce() published them / consumed

prodVars == <<first_, last_, next, value, alive, fresh, pcP, in>>
consVars == <<divider_, pcC, result, out>>
vars == <<prodVars, consVars, size_>>

TypeOK ==
    /\ first_ \in Nodes /\ divider_ \in Nodes /\ last_ \in Nodes
    /\ size_ \in Int
    /\ next \in [Nodes -> Nodes \cup {nil}]
    /\ value \in [Nodes -> Values \cup {nil}]
    /\ alive \subseteq Nodes
    /\ fresh \in 1 .. MaxNodes + 1
    /\ pcP \in {"idle", "publish", "count", "trim"}
    /\ pcC \in {"idle", "copy", "advance", "count"}
    /\ result \in Values \cup {nil}
    /\ in \in Seq(Values) /\ out \in Seq(Values \cup {nil})

(* The constructor.                                                        *)
Init ==
    /\ first_ = 0 /\ divider_ = 0 /\ last_ = 0 /\ size_ = 0
    /\ next = [n \in Nodes |-> nil]
    /\ value = [n \in Nodes |-> nil]
    /\ alive = {0} /\ fresh = 1
    /\ pcP = "idle" /\ pcC = "idle" /\ result = nil
    /\ in = <<>> /\ out = <<>>

-----------------------------------------------------------------------------
(* produce(t), line by line.                                               *)
ProduceLink(v) ==
    /\ pcP = "idle" /\ fresh <= MaxNodes
    /\ next' = [next EXCEPT ![last_] = fresh]
    /\ value' = [value EXCEPT ![fresh] = v]
    /\ alive' = alive \cup {fresh}
    /\ fresh' = fresh + 1
    /\ pcP' = "publish"
    /\ UNCHANGED <<first_, last_, in, consVars, size_>>

ProducePublish ==
    /\ pcP = "publish"
    /\ last_' = next[last_]
    /\ in' = Append(in, value[next[last_]])
    /\ pcP' = "count"
    /\ UNCHANGED <<first_, next, value, alive, fresh, consVars, size_>>

ProduceCount ==
    /\ pcP = "count"
    /\ size_' = size_ + 1
    /\ pcP' = "trim"
    /\ UNCHANGED <<first_, last_, next, value, alive, fresh, in, consVars>>

(* while (divider_ != first_): delete one consumed node ...                *)
ProduceTrim ==
    /\ pcP = "trim" /\ divider_ # first_
    /\ first_' = next[first_]
    /\ alive' = alive \ {first_}
    /\ UNCHANGED <<last_, next, value, fresh, pcP, in, consVars, size_>>

(* ... until none is left.                                                 *)
ProduceDone ==
    /\ pcP = "trim" /\ divider_ = first_
    /\ pcP' = "idle"
    /\ UNCHANGED <<first_, last_, next, value, alive, fresh, in, consVars, size_>>

-----------------------------------------------------------------------------
(* consume(result), line by line; a consume() that finds divider_ = last_  *)
(* returns false and changes nothing.                                      *)
ConsumeTestAlways ==
    /\ pcC = "idle"
    /\ pcC' = "copy"
    /\ UNCHANGED <<prodVars, divider_, result, out, size_>>

ConsumeTestKeepOne ==
    /\ pcC = "idle" /\ size_ > 1
    /\ pcC' = "copy"
    /\ UNCHANGED <<prodVars, divider_, result, out, size_>>

ConsumeTest ==
    /\ pcC = "idle" /\ divider_ # last_
    /\ pcC' = "copy"
    /\ UNCHANGED <<prodVars, divider_, result, out, size_>>

ConsumeCopyDivider ==
    /\ pcC = "copy"
    /\ result' = value[divider_]
    /\ pcC' = "advance"
    /\ UNCHANGED <<prodVars, divider_, out, size_>>

ConsumeCopy ==
    /\ pcC = "copy"
    /\ result' = value[next[divider_]]
    /\ pcC' = "advance"
    /\ UNCHANGED <<prodVars, divider_, out, size_>>

ConsumeAdvance ==
    /\ pcC = "advance"
    /\ divider_' = next[divider_]
    /\ out' = Append(out, result)
    /\ pcC' = "count"
    /\ UNCHANGED <<prodVars, result, size_>>

ConsumeCount ==
    /\ pcC = "count"
    /\ size_' = size_ - 1
    /\ pcC' = "idle"
    /\ UNCHANGED <<prodVars, divider_, result, out>>

Next ==
    \/ \E v \in Values : ProduceLink(v)
    \/ ProducePublish \/ ProduceCount \/ ProduceTrim \/ ProduceDone
    \/ ConsumeTest \/ ConsumeCopy \/ ConsumeAdvance \/ ConsumeCount

Spec == Init /\ [][Next]_vars

(* A started produce() or consume() is finished, and the consumer calls    *)
(* consume() again (it is notified once per element, see SignalingPath).   *)
Fairness ==
    /\ WF_vars(ProducePublish) /\ WF_vars(ProduceCount)
    /\ WF_vars(ProduceTrim) /\ WF_vars(ProduceDone)
    /\ WF_vars(ConsumeTest) /\ WF_vars(ConsumeCopy)
    /\ WF_vars(ConsumeAdvance) /\ WF_vars(ConsumeCount)

FairSpec == Spec /\ Fairness

-----------------------------------------------------------------------------
(* The consumer never follows a null link and never touches a node the     *)
(* producer has deleted: between the test of divider_ != last_ and the     *)
(* store to divider_, the divider node and its successor stay allocated.   *)
NoUseAfterFree ==
    pcC \in {"copy", "advance"} =>
       /\ divider_ \in alive
       /\ next[divider_] \in alive

(* The producer's own pointers stay valid, and trimming never passes the   *)
(* divider.                                                                *)
TrimStopsAtDivider ==
    /\ {first_, divider_, last_} \subseteq alive
    /\ first_ <= divider_

(* The inductive invariant behind the properties above and below: the list *)
(* is contiguous, first_ <= divider_ <= last_, and between its test and    *)
(* its store the consumer's head element stays in place.                   *)
Chain ==
    /\ first_ <= divider_ /\ divider_ <= last_
    /\ last_ = IF pcP = "publish" THEN fresh - 2 ELSE fresh - 1
    /\ \A n \in Nodes : next[n] = IF n < fresh - 1 THEN n + 1 ELSE nil
    /\ \A n \in 1 .. fresh - 1 : value[n] \in Values
    /\ alive = first_ .. fresh - 1

ConsumerHead ==
    /\ pcC \in {"copy", "advance"} => divider_ < last_
    /\ pcC = "advance" => result = value[divider_ + 1]

SizeAccount ==
    size_ = last_ - divider_ - (IF pcP = "count" THEN 1 ELSE 0)
                             + (IF pcC = "count" THEN 1 ELSE 0)

IInv == TypeOK /\ Chain /\ ConsumerHead /\ SizeAccount

(* What size() and empty() report may lag while an operation runs (it can  *)
(* even be -1 for a moment), but it is exact as soon as neither thread is  *)
(* inside the queue.                                                       *)
SizeExactWhenQuiet ==
    pcP \in {"idle", "trim"} /\ pcC \notin {"count"} => size_ = last_ - divider_

(* No garbage accumulates: when produce() returns, at most the nodes of    *)
(* the queue, the divider, and those consumed since its last test remain.  *)
(* Every node from first_ to last_ is allocated and no other one is.       *)
NoLeak ==
    alive = first_ .. (IF pcP = "publish" THEN last_ + 1 ELSE last_)

(* Refinement: the list is a FIFO queue whose elements are the values      *)
(* between divider_ and last_; Put happens at the store to last_, Take at  *)
(* the store to divider_.                                                  *)
queue == [i \in 1 .. last_ - divider_ |-> value[divider_ + i]]

Fifo == INSTANCE FifoQueue WITH q <- queue

ImplementsFifo == Fifo!FifoSpec

(* Every value that was produced is eventually consumed.                   *)
EverythingDelivered == \A n \in 1 .. MaxNodes : (Len(in) = n) ~> (Len(out) >= n)
=============================================================================
