------------------------------ MODULE MediaReceive ------------------------------
(* The receiving side of a PeerConnection: the VideoReceiveStream with its       *)
(* statistics, NackRequester and RTCP module, over a network that loses,         *)
(* reorders and duplicates. The publisher at the other end is a browser and      *)
(* external. An AudioReceiveStream is the same without NackRequester.            *)
EXTENDS NackRequester, RtcpModule

CONSTANTS
    HasRtx,            \* the offer names a retransmission source for the video
    FirstSeqNum,       \* of the video; close to SeqSpace so that the numbers wrap
    Offsets,           \* how far from the newest number the next packet to arrive may be
    KeyFrameFlags,     \* {FALSE} in the server: a received packet knows no extension
    MaxArrivals,       \* bound: packets that arrive
    MaxOthers          \* bound: retransmissions on a source of their own and sender reports

\* The network brings nothing from half a turn away: the order of numbers would be lost.
ASSUME ReceiveAssumption ==
    /\ Offsets \subseteq (1 - SeqSpace \div 2) .. (SeqSpace \div 2 - MaxPacketAge - 1)
    /\ FirstSeqNum \in SeqNums /\ KeyFrameFlags \subseteq BOOLEAN /\ HasRtx \in BOOLEAN

VARIABLES
    stats,      \* rtp_receive_statistics_
    rtcp,       \* rtp_rtcp_
    nack,       \* nack_module_
    arrivals, rtx, reports,
    got,        \* the video numbers OnReceivedPacket was called with, of the last half turn
    skip,       \* the gaps of restarts that are not counted as lost
    restarted,  \* the video restarted since its last report
    out,        \* the compound packet the last step handed to OnLocalRtcpPacket
    ticked      \* the last step was the timer of NackRequester

vars == <<stats, rtcp, nack, arrivals, rtx, reports, got, skip, restarted, out, ticked>>

Audio == 1
Video == 2
Rtx == 3
Local == 4

\* _create_video_receive_stream and the constructor of VideoReceiveStream.
Init ==
    /\ stats = IF HasRtx THEN GetOrCreateStatistician(Statistics, Video)
               ELSE EnableRetransmitDetection(Statistics, Video)
    /\ rtcp = SetRTCPStatus(Module(Local, Video, FALSE, FALSE))
    /\ nack = Requester
    /\ arrivals = 0 /\ rtx = 0 /\ reports = 0
    /\ got = {} /\ skip = 0 /\ restarted = FALSE
    /\ out = <<>> /\ ticked = FALSE

VideoStats == stats.statisticians_[Video]

--------------------------------------------------------------------------------
(* What a call of the RTCP module returned. A report of the video leaves nothing *)
(* expected since it.                                                            *)
Apply(result, jumped) ==
    /\ rtcp' = result.m
    /\ stats' = result.r
    /\ out' = result.out
    /\ restarted' = /\ restarted \/ jumped
                    /\ ExpectedSinceLast(stats'.statisticians_[Video]) > 0

\* OnNackSend: the numbers of a batch go out in the order of nack_list_.
NackOrder(batch, end) ==
    CHOOSE ids \in [1 .. Cardinality(batch) -> batch] :
        \A i, j \in DOMAIN ids : i < j => ForwardDiff(ids[i], end) > ForwardDiff(ids[j], end)

(* DeliverRtp of a packet of the video source: the statistics count it, the     *)
(* requester sees it, and what the requester finds due is asked for at once.    *)
(* A packet that is not the next one says that others are lost, late or doubled; *)
(* one that was retransmitted without a source of its own is simply late.       *)
DeliverVideo(seq_num, late, key, d) ==
    LET counted == OnRtpPacket(stats, Video, seq_num, late)
        result == OnReceivedPacket(nack, seq_num, key, FALSE)
        pending == VideoStats.received_seq_out_of_order_
        jumped == pending # None /\ seq_num = (pending + 1) % SeqSpace
    IN /\ arrivals < MaxArrivals
       /\ arrivals' = arrivals + 1
       /\ nack' = result.n
       /\ got' = {s \in got \cup {seq_num} :
                      ForwardDiff(s, nack'.newest_seq_num_) < SeqSpace \div 2}
       /\ skip' = IF jumped
                  THEN skip + counted.statisticians_[Video].received_seq_max_ - 2
                            - VideoStats.received_seq_max_
                  ELSE skip
       /\ Apply(IF result.batch = {} THEN Nothing(rtcp, counted)
                ELSE SendNack(rtcp, counted, NackOrder(result.batch, seq_num), d), jumped)
       /\ ticked' = FALSE
       /\ UNCHANGED <<rtx, reports>>

\* DeliverRtp of a packet of the retransmission source: the requester does not see it.
DeliverRtx ==
    /\ HasRtx /\ rtx + reports < MaxOthers
    /\ rtx' = rtx + 1
    /\ stats' = OnRtpPacket(stats, Rtx, rtx, FALSE)
    /\ out' = <<>> /\ ticked' = FALSE
    /\ UNCHANGED <<rtcp, nack, arrivals, reports, got, skip, restarted>>

(* _on_rtcp_packet_received: the RTCP of the audio source goes to the video     *)
(* stream too. Only a report that was taken in counts towards the bound.        *)
DeliverRtcp(ssrc, first) ==
    /\ rtx + reports < MaxOthers
    /\ rtcp' = IncomingRtcpPacket(rtcp, <<[type |-> first],
                                          [type |-> "sr", ssrc |-> ssrc, stamp |-> reports + 1]>>)
    /\ reports' = IF rtcp' = rtcp THEN reports ELSE reports + 1
    /\ out' = <<>> /\ ticked' = FALSE
    /\ UNCHANGED <<stats, nack, arrivals, rtx, got, skip, restarted>>

\* The timer of NackRequester: a period passes, and what is due is asked for again.
NackTimer(d) ==
    LET due == ProcessNacks(Elapse(nack)) IN
    /\ ~ TaskDue(rtcp)
    /\ nack' = due.n
    /\ Apply(IF due.batch = {} THEN Nothing(Pass(rtcp), stats)
             ELSE SendNack(Pass(rtcp), stats, NackOrder(due.batch, nack.newest_seq_num_), d), FALSE)
    /\ ticked' = TRUE
    /\ UNCHANGED <<arrivals, rtx, reports, got, skip>>

\* send_rr_rtcp_time_cb.
ReportTimer(d) ==
    /\ Apply(SendRTCPReceiveReport(rtcp, stats, d), FALSE)
    /\ ticked' = FALSE
    /\ UNCHANGED <<nack, arrivals, rtx, reports, got, skip>>

\* A delayed task of the RTCP module.
ReportTask(d) ==
    /\ TaskDue(rtcp)
    /\ Apply(RunTask(rtcp, stats, d), FALSE)
    /\ ticked' = FALSE
    /\ UNCHANGED <<nack, arrivals, rtx, reports, got, skip>>

\* Nothing of the source came in order for kStatisticsTimeoutMs.
SourceSilent(ssrc) ==
    /\ stats.statisticians_[ssrc].active
    /\ stats' = [stats EXCEPT !.statisticians_[ssrc].active = FALSE]
    /\ out' = <<>> /\ ticked' = FALSE
    /\ UNCHANGED <<rtcp, nack, arrivals, rtx, reports, got, skip, restarted>>

\* The packets the network may bring next.
Arriving == IF nack.initialized_ THEN {(nack.newest_seq_num_ + o) % SeqSpace : o \in Offsets}
            ELSE {FirstSeqNum}

\* Only without a retransmission source the time of a late packet matters.
Lateness == IF HasRtx THEN {FALSE} ELSE BOOLEAN

Next ==
    \/ \E s \in Arriving, late \in Lateness, key \in KeyFrameFlags, d \in Durations :
          DeliverVideo(s, late, key, d)
    \/ DeliverRtx
    \/ \E ssrc \in {Audio, Video}, first \in {"rr", "bad"} : DeliverRtcp(ssrc, first)
    \/ \E d \in Durations : NackTimer(d) \/ ReportTimer(d) \/ ReportTask(d)
    \/ \E ssrc \in DOMAIN stats.statisticians_ : SourceSilent(ssrc)

Spec == Init /\ [][Next]_vars

--------------------------------------------------------------------------------
(* The list of missing packets (nack_requester.cpp) never outgrows its limit,   *)
(* holds nothing older than MaxPacketAge or newer than the newest packet,       *)
(* nothing that has been received, and nothing asked for MaxNackRetries times.  *)
NackListSound ==
    /\ Cardinality(DOMAIN nack.nack_list_) <= MaxNackPackets
    /\ \A s \in DOMAIN nack.nack_list_ :
          /\ s \notin got
          /\ ForwardDiff(s, nack.newest_seq_num_) \in 1 .. MaxPacketAge
          /\ nack.nack_list_[s].retries < MaxNackRetries

(* The cumulative loss, which UpdateCounters and UpdateOutOfOrder keep up to    *)
(* date packet by packet, is what RFC 3550 defines: the packets expected between *)
(* the first and the highest number less those received. The jump of a restart  *)
(* does not count, and a packet that may be the first of a restart not yet.     *)
LossAccounting ==
    ReceivedRtpPacket(VideoStats) =>
        VideoStats.cumulative_loss_ =
            (VideoStats.received_seq_max_ - VideoStats.received_seq_first_ + 1) - skip
            - (VideoStats.transmitted - (IF VideoStats.received_seq_out_of_order_ = None THEN 0 ELSE 1))

(* The report RtcpReportBlocks would make next is one its fields can hold: the  *)
(* highest number has not gone back behind the last report (RTC_DCHECK_GE in    *)
(* MaybeAppendReportBlockAndReset), and unless the stream restarted since then, *)
(* no more packets are lost than were expected (fraction_lost has 8 bits).      *)
ReportFits ==
    LET s == VideoStats IN
    ReceivedRtpPacket(s) =>
        /\ ExpectedSinceLast(s) >= 0
        /\ restarted \/ LostSinceLast(s) <= ExpectedSinceLast(s)

(* Reception is reported as it was: the totals are exact and the next      *)
(* report can be made from them.                                           *)
ReceptionReported == LossAccounting /\ ReportFits

(* A packet is asked for again after a round trip, not before and not much     *)
(* later: the timer leaves no packet unasked or asked for longer than Rtt ago, *)
(* and no other step repeats a request. With MaxNackRetries that bounds how    *)
(* long a packet whose requests all go unanswered is on the list.              *)
AskedOncePerRtt ==
    [][LET old == nack.nack_list_  new == nack'.nack_list_ IN
       /\ ticked' => \A s \in DOMAIN new : new[s].since \in 0 .. Rtt
       /\ \A s \in DOMAIN old \cap DOMAIN new : new[s].retries > old[s].retries =>
              old[s].since = None \/ (ticked' /\ old[s].since >= Rtt)]_vars

(* Every compound packet begins with a report, has a NACK only if it names      *)
(* something, and a NACK names only packets that have not been received         *)
(* (RTCPSender keeps the flag of a NACK it could not send, not its numbers).    *)
NacksAreMissing ==
    out # <<>> =>
        /\ out[1].type = "rr"
        /\ \A i \in DOMAIN out : out[i].type = "nack" =>
              out[i].ids # <<>> /\ ToSet(out[i].ids) \cap got = {}

================================================================================
