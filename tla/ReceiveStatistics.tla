--------------------------- MODULE ReceiveStatistics ---------------------------
(* ReceiveStatisticsImpl and StreamStatisticianImpl: what was received and lost *)
(* of every source, and the report blocks made from it. The Locked variants     *)
(* guard the same calls, which all come from one worker thread. Byte counts,    *)
(* the bit rate and the jitter are left out.                                    *)
EXTENDS SequenceNumbers, Sequences, SequencesExt

CONSTANTS
    MaxReorderingThreshold,   \* kDefaultMaxReorderingThreshold, 50
    MaxReportBlocks,          \* RTCP_MAX_REPORT_BLOCKS, 31
    PayloadTypeFrequency      \* RtpPacketReceived::payload_type_frequency_, 0: no code sets it

ASSUME StatisticsAssumption ==
    /\ MaxReorderingThreshold \in 1 .. SeqSpace \div 2 - 1
    /\ MaxReportBlocks \in Nat \ {0}
    /\ PayloadTypeFrequency \in Nat

(* The state of a StreamStatisticianImpl. Sequence numbers are unwrapped, except *)
(* received_seq_out_of_order_. active: a packet came in order within the last    *)
(* kStatisticsTimeoutMs. trapped: a division by zero has happened.               *)
Statistician ==
    [received_seq_first_ |-> None, received_seq_max_ |-> None, seq_unwrapper_ |-> None,
     received_seq_out_of_order_ |-> None, cumulative_loss_ |-> 0,
     cumulative_loss_rtcp_offset_ |-> 0, last_report_cumulative_loss_ |-> 0,
     last_report_seq_max_ |-> None, transmitted |-> 0, retransmitted |-> 0,
     enable_retransmit_detection_ |-> FALSE, active |-> FALSE, trapped |-> FALSE]

ReceivedRtpPacket(s) == s.received_seq_first_ >= 0

Distance(a, b) == IF a < b THEN b - a ELSE a - b

\* Mutant: the first packet of the restarted stream is forgotten.
RestartAtSecond(s, u) == [s EXCEPT !.last_report_seq_max_ = u - 1, !.received_seq_max_ = u - 1]
(* The second packet of a restarted stream: the jump is not counted as a loss.  *)
Restart(s, u) == [s EXCEPT !.last_report_seq_max_ = u - 2, !.received_seq_max_ = u - 2]

(* IsRetransmitOfOldPacket compares times, which say late or not; it divides by *)
(* the payload frequency in kHz.                                                *)
MaybeRetransmit(s, late) ==
    IF ~ s.enable_retransmit_detection_ THEN s
    ELSE IF PayloadTypeFrequency \div 1000 = 0 THEN [s EXCEPT !.trapped = TRUE]
    ELSE [s EXCEPT !.retransmitted = IF late THEN @ + 1 ELSE @]

(* UpdateOutOfOrder: the statistician after it, and if the packet is out of order. *)
UpdateOutOfOrder(s, seq_num, u, late) ==
    LET pending == s.received_seq_out_of_order_ # None
        p == IF pending THEN [s EXCEPT !.cumulative_loss_ = @ - 1,
                                       !.received_seq_out_of_order_ = None]
             ELSE s
    IN IF pending /\ seq_num = (s.received_seq_out_of_order_ + 1) % SeqSpace
       THEN [s |-> Restart(p, u), out |-> FALSE]
       ELSE IF Distance(u, p.received_seq_max_) > MaxReorderingThreshold
       THEN [s |-> [p EXCEPT !.received_seq_out_of_order_ = seq_num, !.cumulative_loss_ = @ + 1],
             out |-> TRUE]
       ELSE IF u > p.received_seq_max_ THEN [s |-> p, out |-> FALSE]
       ELSE [s |-> MaybeRetransmit(p, late), out |-> TRUE]

\* UpdateCounters: the first packet opens the stream, one in order moves its end.
UpdateCounters(s, seq_num, late) ==
    LET u == Unwrap(s.seq_unwrapper_, seq_num)
        counted == [s EXCEPT !.transmitted = @ + 1, !.cumulative_loss_ = @ - 1]
        order == IF ReceivedRtpPacket(s) THEN UpdateOutOfOrder(counted, seq_num, u, late)
                 ELSE [s |-> [counted EXCEPT !.received_seq_first_ = u,
                                             !.last_report_seq_max_ = u - 1,
                                             !.received_seq_max_ = u - 1],
                       out |-> FALSE]
    IN IF order.out THEN order.s
       ELSE [order.s EXCEPT !.cumulative_loss_ = @ + (u - order.s.received_seq_max_),
                            !.received_seq_max_ = u, !.seq_unwrapper_ = u, !.active = TRUE]

--------------------------------------------------------------------------------
(* MaybeAppendReportBlockAndReset: an active source gives one block. fraction   *)
(* is the value before it is stored in its 8 bits; the 24-bit limit of the      *)
(* cumulative loss is out of reach of a bounded run.                            *)
ReportsBlock(s) == s.active /\ ReceivedRtpPacket(s)

ExpectedSinceLast(s) == s.received_seq_max_ - s.last_report_seq_max_
LostSinceLast(s) == s.cumulative_loss_ - s.last_report_cumulative_loss_

ReportBlock(ssrc, s) ==
    LET lost == s.cumulative_loss_ + s.cumulative_loss_rtcp_offset_ IN
    [ssrc |-> ssrc,
     fraction |-> IF ExpectedSinceLast(s) > 0 /\ LostSinceLast(s) > 0
                  THEN (255 * LostSinceLast(s)) \div ExpectedSinceLast(s) ELSE 0,
     lost |-> IF lost < 0 THEN 0 ELSE lost,
     ext_highest |-> s.received_seq_max_]

AfterReport(s) ==
    [s EXCEPT !.cumulative_loss_rtcp_offset_ =
                  IF s.cumulative_loss_ + @ < 0 THEN - s.cumulative_loss_ ELSE @,
              !.last_report_cumulative_loss_ = s.cumulative_loss_,
              !.last_report_seq_max_ = s.received_seq_max_]

(* ReceiveStatisticsImpl: the sources in the order they were seen, and the one  *)
(* at which the last report stopped.                                            *)
Statistics == [statisticians_ |-> <<>>, all_ssrcs_ |-> <<>>, last_returned_ssrc_idx_ |-> 0]

GetOrCreateStatistician(r, ssrc) ==
    IF ssrc \in DOMAIN r.statisticians_ THEN r
    ELSE [r EXCEPT !.statisticians_ = [x \in DOMAIN @ \cup {ssrc} |->
                                          IF x = ssrc THEN Statistician ELSE @[x]],
                   !.all_ssrcs_ = Append(@, ssrc)]

EnableRetransmitDetection(r, ssrc) ==
    [GetOrCreateStatistician(r, ssrc) EXCEPT
        !.statisticians_[ssrc].enable_retransmit_detection_ = TRUE]

OnRtpPacket(r, ssrc, seq_num, late) ==
    [GetOrCreateStatistician(r, ssrc) EXCEPT
        !.statisticians_[ssrc] = UpdateCounters(@, seq_num, late)]

\* Of the k sources after the last one, those that report.
Reporting(r, k) ==
    LET n == Len(r.all_ssrcs_)
        at(i) == r.all_ssrcs_[1 + ((r.last_returned_ssrc_idx_ + i) % n)]
    IN SelectSeq([i \in 1 .. k |-> at(i)], LAMBDA x : ReportsBlock(r.statisticians_[x]))

(* RtcpReportBlocks: from the source after the last one, those that report, up  *)
(* to MaxReportBlocks of them. visited is how far the loop came.                *)
RtcpReportBlocks(r) ==
    LET n == Len(r.all_ssrcs_)
        enough == {k \in 0 .. n : k = n \/ Len(Reporting(r, k)) >= MaxReportBlocks}
        visited == CHOOSE k \in enough : \A j \in enough : k <= j
        named == Reporting(r, visited)
    IN [blocks |-> [i \in DOMAIN named |-> ReportBlock(named[i], r.statisticians_[named[i]])],
        r |-> [r EXCEPT !.last_returned_ssrc_idx_ = IF n = 0 THEN 0 ELSE (@ + visited) % n,
                        !.statisticians_ = [x \in DOMAIN @ |->
                            IF x \in ToSet(named) THEN AfterReport(@[x]) ELSE @[x]]]]
================================================================================
