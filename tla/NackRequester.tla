----------------------------- MODULE NackRequester -----------------------------
(* NackRequester and its Histogram (modules/video_coding): which packets of a  *)
(* video stream are missing and when they are asked for again. An object is a  *)
(* record, a method an operator that returns the object after the call.        *)
EXTENDS SequenceNumbers, FiniteSets, Sequences

CONSTANTS
    MaxNackRetries,       \* kMaxNackRetries, 10
    MaxPacketAge,         \* kMaxPacketAge, 10000
    MaxNackPackets,       \* kMaxNackPackets, 1000
    MaxReordering,        \* kMaxReorderingPackets, 128
    NumBuckets,           \* kNumReorderingBuckets, 10
    Rtt                   \* kDefaultRttMs in periods of the nack timer

ASSUME NackAssumption ==
    /\ {MaxNackRetries, MaxNackPackets, MaxReordering, NumBuckets, Rtt} \subseteq Nat \ {0}
    /\ MaxPacketAge \in 1 .. SeqSpace \div 2 - 1
    /\ MaxNackPackets <= MaxPacketAge /\ MaxNackPackets < SeqSpace \div 2 - MaxPacketAge

--------------------------------------------------------------------------------
(* Histogram: the last MaxReordering samples in a ring and how often each value *)
(* is among them; the counts are the ring's and are not kept apart here.        *)

EmptyHistogram == [values |-> <<>>, index |-> 0]

\* Once the ring is full, a new sample takes the place of the oldest one.
HistogramAdd(h, value) ==
    LET v == IF value < NumBuckets THEN value ELSE NumBuckets - 1 IN
    [values |-> IF h.index < Len(h.values)
                THEN [h.values EXCEPT ![h.index + 1] = v]
                ELSE Append(h.values, v),
     index  |-> (h.index + 1) % MaxReordering]

\* The least number of buckets that hold half of the samples or more.
InverseCdfHalf(h) ==
    LET below(b) == Cardinality({i \in DOMAIN h.values : h.values[i] < b})
        enough == {b \in 0 .. NumBuckets : 2 * below(b) >= Len(h.values)}
    IN CHOOSE b \in enough : \A c \in enough : b <= c

--------------------------------------------------------------------------------
(* A missing packet: after which sequence number it may first be asked for, the *)
(* time since it was asked for (None: never; more than Rtt is all the same),    *)
(* and how often it was. send_nack_delay_ms_ is 0, so created_time is not used. *)
Requester == [initialized_ |-> FALSE, newest_seq_num_ |-> 0, nack_list_ |-> <<>>,
              keyframe_list_ |-> {}, reordering_histogram_ |-> EmptyHistogram]

Keep(f, S) == [s \in DOMAIN f \cap S |-> f[s]]

\* map::lower_bound and erase of what comes before it: the older numbers go.
NotOlder(S, bound) == {s \in S : ~ AheadOf(bound, s)}

WaitNumberOfPackets(n) ==
    IF n.reordering_histogram_.values = <<>> THEN 0 ELSE InverseCdfHalf(n.reordering_histogram_)

(* RemovePacketsUntilKeyFrame, repeated while the list with its new entries is *)
(* too long: the oldest key frame that makes enough room is kept, what is older *)
(* is given up. Without one all key frames are used up.                         *)
MakeRoom(n, new) ==
    LET missing == DOMAIN n.nack_list_
        after(k) == NotOlder(missing, k)
        fits == {k \in n.keyframe_list_ : /\ after(k) # missing
                                          /\ Cardinality(after(k)) + new <= MaxNackPackets}
        oldest == CHOOSE k \in fits : \A j \in fits : ~ AheadOf(k, j)
    IN IF fits = {} THEN [n EXCEPT !.keyframe_list_ = {}]
       ELSE [n EXCEPT !.nack_list_ = Keep(@, after(oldest)),
                      !.keyframe_list_ = NotOlder(@, oldest)]

(* AddPacketsToNack: everything from start up to, not including, end is missing. *)
(* When no room can be made for it, it is given up with all that was on the list. *)
AddPacketsToNack(n, start, end) ==
    LET aged == [n EXCEPT !.nack_list_ = Keep(@, NotOlder(DOMAIN @, (end - MaxPacketAge) % SeqSpace))]
        new == ForwardDiff(start, end)
        tooLong(m) == Cardinality(DOMAIN m.nack_list_) + new > MaxNackPackets
        roomy == IF tooLong(aged) THEN MakeRoom(aged, new) ELSE aged
        gap == {s \in SeqNums : ForwardDiff(start, s) < new}
        info(s) == [send_at_seq_num |-> (s + WaitNumberOfPackets(n)) % SeqSpace,
                    since |-> None, retries |-> 0]
    IN IF tooLong(roomy) THEN [roomy EXCEPT !.nack_list_ = <<>>]
       ELSE [roomy EXCEPT !.nack_list_ =
                 [s \in DOMAIN @ \cup gap |-> IF s \in gap THEN info(s) ELSE @[s]]]

(* What GetNackBatch finds due, for the two ways it is called: the packets that  *)
(* were not asked for and lie far enough behind the newest one, and those that   *)
(* were not asked for within a round trip.                                       *)
DueBySeqNum(n) ==
    {s \in DOMAIN n.nack_list_ : /\ n.nack_list_[s].since = None
                                 /\ AheadOf(n.newest_seq_num_, n.nack_list_[s].send_at_seq_num)}
\* Mutant: after a round trip less one period.
DueByTimeEarly(n) == {s \in DOMAIN n.nack_list_ : n.nack_list_[s].since \notin 0 .. Rtt - 1}
DueByTime(n) == {s \in DOMAIN n.nack_list_ : n.nack_list_[s].since \notin 0 .. Rtt}

Asked(info) == [info EXCEPT !.retries = @ + 1, !.since = 0]

(* GetNackBatch: those that are due are counted and stamped; one that has been *)
(* asked for MaxNackRetries times is dropped.                                  *)
GetNackBatch(n, batch) ==
    LET last == {s \in batch : n.nack_list_[s].retries + 1 >= MaxNackRetries} IN
    [n |-> [n EXCEPT !.nack_list_ =
               [s \in DOMAIN @ \ last |-> IF s \in batch THEN Asked(@[s]) ELSE @[s]]],
     batch |-> batch]

\* Mutant: a late packet is a sample only and stays on the list.
OnOldPacketSampled(n, seq_num, is_retransmitted) ==
    [n EXCEPT !.reordering_histogram_ =
                  IF is_retransmitted THEN @
                  ELSE HistogramAdd(@, ReverseDiff(n.newest_seq_num_, seq_num))]
\* Older than the newest packet: reordered or retransmitted, and no longer missing.
OnOldPacket(n, seq_num, is_retransmitted) ==
    [n EXCEPT !.nack_list_ = Keep(@, SeqNums \ {seq_num}),
              !.reordering_histogram_ =
                  IF is_retransmitted THEN @
                  ELSE HistogramAdd(@, ReverseDiff(n.newest_seq_num_, seq_num))]

\* Newer than all before: what lies between is missing.
OnNewPacket(n, seq_num, is_keyframe) ==
    LET keys == n.keyframe_list_ \cup (IF is_keyframe THEN {seq_num} ELSE {})
        kept == [n EXCEPT !.keyframe_list_ = NotOlder(keys, (seq_num - MaxPacketAge) % SeqSpace)]
    IN [AddPacketsToNack(kept, (n.newest_seq_num_ + 1) % SeqSpace, seq_num)
            EXCEPT !.newest_seq_num_ = seq_num]

FirstPacket(n, seq_num, is_keyframe) ==
    [n EXCEPT !.initialized_ = TRUE, !.newest_seq_num_ = seq_num,
              !.keyframe_list_ = @ \cup (IF is_keyframe THEN {seq_num} ELSE {})]

\* OnReceivedPacket: the object after the call and the packets it asks for.
OnReceivedPacket(n, seq_num, is_keyframe, is_retransmitted) ==
    LET new == OnNewPacket(n, seq_num, is_keyframe) IN
    CASE ~ n.initialized_ -> [n |-> FirstPacket(n, seq_num, is_keyframe), batch |-> {}]
      [] n.initialized_ /\ seq_num = n.newest_seq_num_ -> [n |-> n, batch |-> {}]
      [] n.initialized_ /\ AheadOf(n.newest_seq_num_, seq_num) ->
            [n |-> OnOldPacket(n, seq_num, is_retransmitted), batch |-> {}]
      [] OTHER -> GetNackBatch(new, DueBySeqNum(new))

\* One period of the nack timer passes and its callback runs.
Aged(info) == [info EXCEPT !.since = IF @ \in 0 .. Rtt THEN @ + 1 ELSE @]
Elapse(n) == [n EXCEPT !.nack_list_ = [s \in DOMAIN @ |-> Aged(@[s])]]
ProcessNacks(n) == GetNackBatch(n, DueByTime(n))
================================================================================
