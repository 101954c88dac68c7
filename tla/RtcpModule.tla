------------------------------- MODULE RtcpModule -------------------------------
(* ModuleRtpRtcpImpl with its RTCPSender, RTCPReceiver and RtcpNackStats: when a *)
(* compound RTCP packet is sent, what it is made of, and what a received one     *)
(* changes. Time is counted in periods, and every point of time is kept as what  *)
(* is left until it, or what has passed since it.                                *)
EXTENDS SequenceNumbers, FiniteSets, Sequences, SequencesExt, ReceiveStatistics

CONSTANTS
    ReportInterval,     \* report_interval_ms_, at least two periods
    Durations,          \* the random times to the next report, 0.5 to 1.5 intervals
    KeyFrameLead,       \* RTCP_BEFORE_KEY_FRAME
    MaxAge              \* bound: the time since a sender report is counted up to this

ASSUME RtcpAssumption == /\ {KeyFrameLead, MaxAge} \subseteq Nat
                         /\ ReportInterval \in Nat /\ ReportInterval >= 2
                         /\ Durations # {}
                         /\ Durations \subseteq (ReportInterval \div 2) .. ((3 * ReportInterval) \div 2)

(* report_flags_ are all set volatile. next: time left until                   *)
(* next_time_to_send_rtcp_; tasks: the delayed tasks of                        *)
(* ScheduleMaybeSendRtcpAtOrAfterTimestamp by the time left until each. Two of *)
(* them that are due together do no more than one: the first moves next.       *)
(* sr: the last sender report of the remote source, its stamp (0: none) and age. *)
Module(local, remote, audio, sending) ==
    [audio_ |-> audio, sending_ |-> sending, local_ssrc_ |-> local, remote_ssrc_ |-> remote,
     captured |-> FALSE, report_flags_ |-> {}, next |-> None, tasks |-> {},
     sr |-> [stamp |-> 0, age |-> 0], sent |-> 0, num_skipped_packets_ |-> 0,
     nack_stats_ |-> [max_sequence_number_ |-> 0, requests_ |-> 0, unique_requests_ |-> 0]]

SetNextRtcpSendEvaluationDuration(m, d) == [m EXCEPT !.next = d, !.tasks = @ \cup {d}]

\* SetRTCPStatus(kCompound), called once by the constructor of every stream.
SetRTCPStatus(m) == SetNextRtcpSendEvaluationDuration(m, ReportInterval \div 2)

Minus(a, b) == IF a < b THEN 0 ELSE a - b

TimeToSendRTCPPacket(m, before_keyframe) ==
    m.next <= (IF before_keyframe /\ ~ m.audio_ THEN KeyFrameLead ELSE 0)

--------------------------------------------------------------------------------
\* RtcpNackStats::ReportRequest: a number newer than all before is a unique request.
ReportRequest(st, seq_num) ==
    LET new == st.requests_ = 0 \/ AheadOf(seq_num, st.max_sequence_number_) IN
    [max_sequence_number_ |-> IF new THEN seq_num ELSE st.max_sequence_number_,
     requests_ |-> st.requests_ + 1,
     unique_requests_ |-> IF new THEN st.unique_requests_ + 1 ELSE st.unique_requests_]

ReportRequests(st, ids) == FoldLeft(ReportRequest, st, ids)

(* CreateReportBlocks: the blocks of the statistics, each with the stamp of the *)
(* last sender report and the time since it; both are 0 when there was none.    *)
CreateReportBlocks(m, blocks) ==
    [i \in DOMAIN blocks |->
        [ssrc |-> blocks[i].ssrc, fraction |-> blocks[i].fraction, lost |-> blocks[i].lost,
         last_sr |-> m.sr.stamp, delay |-> m.sr.age]]

IfFlagged(flags, type) == IF type \in flags THEN <<type>> ELSE <<>>

\* Mutant: the report comes last.
BuiltReportLast(flags) ==
    IfFlagged(flags, "sr") \o IfFlagged(flags, "nack") \o IfFlagged(flags, "rr")
(* The packets a compound is built of, in the order of their flags: sr < rr < nack. *)
Built(flags) == IfFlagged(flags, "sr") \o IfFlagged(flags, "rr") \o IfFlagged(flags, "nack")

BuildPacket(type, m, blocks, ids) ==
    CASE type = "sr"   -> [type |-> "sr", ssrc |-> m.local_ssrc_, count |-> m.sent]
      [] type = "rr"   -> [type |-> "rr", ssrc |-> m.local_ssrc_,
                           blocks |-> CreateReportBlocks(m, blocks)]
      [] type = "nack" -> [type |-> "nack", ssrc |-> m.local_ssrc_, media |-> m.remote_ssrc_,
                           ids |-> ids]

(* SendRTCP with ComputeCompoundRTCPPacket and PrepareReport. Before the first  *)
(* frame there is no sender report: a report alone is dropped, and a sender can *)
(* send nothing else either (the flags stay). Otherwise the report is added,    *)
(* the next one is scheduled after d, and everything flagged is built and sent. *)
(* The result: the module, the statistics and the compound packet.              *)
SendRTCP(m, r, type, ids, d) ==
    LET asked == m.report_flags_ \cup {type}
        left == IF m.captured THEN asked ELSE asked \ {"sr", "report"}
        only_report == ~ m.captured /\ left # asked /\ left = {}
        blocked == ~ m.captured /\ ~ only_report /\ m.sending_
        flags == (left \ {"report"}) \cup {IF m.sending_ THEN "sr" ELSE "rr"}
        report == RtcpReportBlocks(r)
        types == Built(flags)
        done == [SetNextRtcpSendEvaluationDuration(m, d) EXCEPT
                    !.report_flags_ = {},
                    !.nack_stats_ = IF "nack" \in flags THEN ReportRequests(@, ids) ELSE @]
    IN IF only_report \/ blocked
       THEN [m |-> [m EXCEPT !.report_flags_ = left], r |-> r, out |-> <<>>]
       ELSE [m |-> done,
             r |-> IF "rr" \in flags THEN report.r ELSE r,
             out |-> [i \in DOMAIN types |-> BuildPacket(types[i], m, report.blocks, ids)]]

Nothing(m, r) == [m |-> m, r |-> r, out |-> <<>>]

SendNack(m, r, ids, d) == SendRTCP(m, r, "nack", ids, d)

\* The periodic timer of ModuleRtpRtcpImpl.
SendRTCPReceiveReport(m, r, d) == SendRTCP(m, r, "rr", <<>>, d)

(* A delayed task comes due. It may find that the report was sent in between,   *)
(* and then does nothing: the later task of that report is pending.             *)
RunTask(m, r, d) ==
    LET t == [m EXCEPT !.tasks = @ \ {0}] IN
    IF TimeToSendRTCPPacket(t, FALSE) THEN SendRTCP(t, r, "report", <<>>, d)
    ELSE Nothing(t, r)

TaskDue(m) == 0 \in m.tasks

\* A period passes; no task is left waiting past its time.
Pass(m) == [m EXCEPT !.next = Minus(@, 1), !.tasks = {Minus(t, 1) : t \in @},
                     !.sr.age = IF m.sr.stamp # 0 /\ @ < MaxAge THEN @ + 1 ELSE @]

--------------------------------------------------------------------------------
(* HandleSenderReport: only the report of the remote source is kept; a module   *)
(* that knows no remote source takes the first it hears.                        *)
HandleSenderReport(m, block) ==
    LET known == IF m.remote_ssrc_ = 0 THEN [m EXCEPT !.remote_ssrc_ = block.ssrc] ELSE m IN
    IF known.remote_ssrc_ = block.ssrc
    THEN [known EXCEPT !.sr = [stamp |-> block.stamp, age |-> 0]] ELSE known

(* One block of a compound packet; the types other than sr and nack are not     *)
(* handled, a receiver report among them.                                       *)
HandleBlock(m, block) ==
    CASE block.type = "sr"  -> HandleSenderReport(m, block)
      [] block.type = "bad" -> [m EXCEPT !.num_skipped_packets_ = @ + 1]
      [] OTHER -> m

(* ParseCompoundPacket: a block that cannot be parsed ends the compound; if it  *)
(* is the first, it is not even counted.                                        *)
IncomingRtcpPacket(m, blocks) ==
    LET bad == {i \in DOMAIN blocks : blocks[i].type = "bad"}
        last == IF bad = {} THEN Len(blocks) ELSE CHOOSE i \in bad : \A j \in bad : i <= j
        handled[i \in 0 .. Len(blocks)] ==
            IF i = 0 THEN m ELSE HandleBlock(handled[i - 1], blocks[i])
    IN IF last = 1 /\ bad # {} THEN m ELSE handled[last]
================================================================================
