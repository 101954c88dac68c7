------------------------------ MODULE FifoQueue ------------------------------
(***************************************************************************)
(* What a queue between two threads promises: values leave in the order in *)
(* which they were put in, none is lost, none is delivered twice, and a    *)
(* consumer that reports "empty" does not change the queue.                *)
(***************************************************************************)
EXTENDS Sequences, Naturals

CONSTANT Values

VARIABLES
    q,     \* the values in the queue
    out    \* the values handed to the consumer so far

fifoVars == <<q, out>>

FifoInit == q = <<>> /\ out = <<>>

Put(v) == q' = Append(q, v) /\ UNCHANGED out

Take ==
    /\ q # <<>>
    /\ q' = Tail(q)
    /\ out' = Append(out, Head(q))

FifoNext == (\E v \in Values : Put(v)) \/ Take

FifoSpec == FifoInit /\ [][FifoNext]_fifoVars
=============================================================================
