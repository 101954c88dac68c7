---------------------------- MODULE SequenceNumbers ----------------------------
(* Arithmetic on RTP sequence numbers: rtc_base/numerics/sequence_number_util.h *)
(* and modules/include/module_common_types_public.h of WebRTC, as nack_requester *)
(* and receive_statistics_impl use them. Both are external to the repository.   *)
EXTENDS Integers

CONSTANT SeqSpace   \* 2^16 in the code: sequence numbers are 0 .. SeqSpace - 1

ASSUME SeqSpaceAssumption == SeqSpace \in Nat /\ SeqSpace >= 2 /\ SeqSpace % 2 = 0

SeqNums == 0 .. SeqSpace - 1

\* The steps that lead from a forward to b.
ForwardDiff(a, b) == (b - a) % SeqSpace

ReverseDiff(a, b) == (a - b) % SeqSpace

\* a is newer than b; half a turn away, the larger number is.
AheadOf(a, b) ==
    LET d == ForwardDiff(b, a) IN
    \/ 0 < d /\ d < SeqSpace \div 2
    \/ d = SeqSpace \div 2 /\ b < a

None == -1   \* an empty optional

(* SequenceNumberUnwrapper::UnwrapWithoutUpdate: the 64-bit number closest to *)
(* the last one that is value modulo 2^16, but never below zero.              *)
Unwrap(last, value) ==
    IF last = None THEN value
    ELSE LET delta == value - (last % SeqSpace) IN
         IF AheadOf(value, last % SeqSpace)
         THEN last + (IF delta < 0 THEN delta + SeqSpace ELSE delta)
         ELSE last + (IF delta > 0 /\ last + delta - SeqSpace >= 0 THEN delta - SeqSpace ELSE delta)
================================================================================
