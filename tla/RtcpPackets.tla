------------------------------ MODULE RtcpPackets ------------------------------
(* modules/rtp_rtcp/rtcp_packet and the PacketSender of RTCPSender: how reports  *)
(* and NACKs are put into datagrams of at most max bytes, and how a compound     *)
(* packet is taken apart again.                                                  *)
EXTENDS ByteOrder, FiniteSets

SrType == 200
RrType == 201
RtpFbType == 205
NackFmt == 1

\* A datagram under construction and the ones already handed to the callback.
Compound(buf, sent) == [buf |-> buf, sent |-> sent]

CreateHeader(count, type, words) == <<128 + count, type>> \o WriteBE(words, 2)

(* The while loop of SenderReport and ReceiverReport::Create over OnBufferFull:  *)
(* a full datagram is sent and a new one begun; one that cannot hold the block   *)
(* even empty leaves it out.                                                     *)
AppendBlock(c, block, max) ==
    LET flushed == IF c.buf = <<>> THEN c ELSE Compound(<<>>, Append(c.sent, c.buf)) IN
    IF Len(c.buf) + Len(block) <= max THEN [c EXCEPT !.buf = @ \o block]
    ELSE IF Len(block) <= max THEN [flushed EXCEPT !.buf = block]
    ELSE flushed

\* b: source ssrc, fraction, cumulative lost, highest number, jitter, lsr, dlsr
ReportBlockCreate(b) ==
    WriteBE(b[1], 4) \o <<b[2]>> \o WriteBE(b[3], 3) \o FlattenSeq([i \in 1 .. 4 |-> WriteBE(b[i + 3], 4)])
ReportBlockParse(d, o) ==
    <<ReadBE(d, o, 4), d[o + 5], ReadSignedBE(d, o + 5, 3), ReadBE(d, o + 8, 4),
      ReadBE(d, o + 12, 4), ReadBE(d, o + 16, 4), ReadBE(d, o + 20, 4)>>
MaxReportBlocks == 31
SetReportBlocks(old, blocks) == IF Len(blocks) > MaxReportBlocks THEN old ELSE blocks

ReportBlocks(blocks) == FlattenSeq([i \in DOMAIN blocks |-> ReportBlockCreate(blocks[i])])
ReceiverReportCreate(ssrc, blocks) ==
    CreateHeader(Len(blocks), RrType, 1 + 6 * Len(blocks)) \o WriteBE(ssrc, 4) \o ReportBlocks(blocks)
\* s: ssrc, ntp seconds and fraction, rtp timestamp, packet count (written twice)
SenderReportCreate(s, blocks) ==
    CreateHeader(Len(blocks), SrType, 6 + 6 * Len(blocks))
        \o FlattenSeq([i \in 1 .. 5 |-> WriteBE(s[i], 4)]) \o WriteBE(s[5], 4) \o ReportBlocks(blocks)

\* Pack: an item is a number and which of the sixteen after it are asked for too.
\* Mutant: the seventeenth number after the first is put in the mask too.
PackSeventeen(ids) ==
    FoldLeft(LAMBDA items, id :
                 LET shift == (id - items[Len(items)].first - 1) % 65536 IN
                 IF items # <<>> /\ shift <= 16
                 THEN [items EXCEPT ![Len(items)].bits = @ \cup {shift}]
                 ELSE Append(items, [first |-> id, bits |-> {}]),
             <<>>, ids)
Pack(ids) ==
    FoldLeft(LAMBDA items, id :
                 LET shift == (id - items[Len(items)].first - 1) % 65536 IN
                 IF items # <<>> /\ shift <= 15
                 THEN [items EXCEPT ![Len(items)].bits = @ \cup {shift}]
                 ELSE Append(items, [first |-> id, bits |-> {}]),
             <<>>, ids)
Unpack(items) ==
    FlattenSeq([i \in DOMAIN items |->
        <<items[i].first>> \o SetToSortSeq({(items[i].first + 1 + k) % 65536 : k \in items[i].bits},
                                           LAMBDA x, y : (x - items[i].first) % 65536 < (y - items[i].first) % 65536)])

(* Nack::Create fills what is left of a datagram with items, under a header of   *)
(* its own in each.                                                              *)
NackHeader == 12
RECURSIVE NackCreate(_, _, _, _)
NackCreate(c, ssrcs, items, max) ==
    LET left == max - Len(c.buf)
        n == Min({(left - NackHeader) \div 4, Len(items)})
        block == CreateHeader(NackFmt, RtpFbType, 2 + n) \o WriteBE(ssrcs[1], 4) \o WriteBE(ssrcs[2], 4)
                 \o FlattenSeq([i \in 1 .. n |-> WriteBE(items[i].first, 2) \o WriteBE(Mask(16, items[i].bits), 2)])
    IN IF items = <<>> THEN c
       ELSE IF left >= NackHeader + 4
       THEN NackCreate([c EXCEPT !.buf = @ \o block], ssrcs, SubSeq(items, n + 1, Len(items)), max)
       ELSE IF c.buf = <<>> THEN c
       ELSE NackCreate(Compound(<<>>, Append(c.sent, c.buf)), ssrcs, items, max)

\* PacketSender::Send: what is left in the buffer goes out too.
Send(c) == IF c.buf = <<>> THEN c.sent ELSE Append(c.sent, c.buf)

--------------------------------------------------------------------------------
(* CommonHeader::Parse. Its padding test, (buffer[0] & 0x20) == 1, never holds,  *)
(* so padding counts as payload.                                                 *)
CommonHeaderParse(d) ==
    IF Len(d) < 4 THEN Refused
    ELSE IF d[1] \div 64 # 2 \/ Len(d) < 4 + 4 * ReadBE(d, 2, 2) THEN Refused
    ELSE Parsed([count |-> d[1] % 32, type |-> d[2], payload |-> SubSeq(d, 5, 4 + 4 * ReadBE(d, 2, 2))])

\* The loop of RTCPReceiver::ParseCompoundPacket: the packets before a bad one.
RECURSIVE ParseCompound(_)
ParseCompound(d) ==
    LET h == CommonHeaderParse(d) IN
    IF d = <<>> THEN <<>> ELSE IF h = Refused THEN <<>>
    ELSE <<h[1]>> \o ParseCompound(SubSeq(d, 5 + Len(h[1].payload), Len(d)))

ParseBlocks(h, base) ==
    IF Len(h.payload) < base + 24 * h.count THEN Refused
    ELSE Parsed([i \in 1 .. h.count |-> ReportBlockParse(h.payload, base + 24 * (i - 1))])
ReceiverReportParse(h) ==
    LET blocks == ParseBlocks(h, 4) IN
    IF blocks = Refused THEN Refused ELSE Parsed(<<ReadBE(h.payload, 0, 4), blocks[1]>>)
SenderReportParse(h) ==
    LET blocks == ParseBlocks(h, 24)
        field(i) == ReadBE(h.payload, 4 * i, 4)
    IN IF blocks = Refused THEN Refused
       ELSE Parsed(<< <<field(0), field(1), field(2), field(3), field(5)>>, blocks[1]>>)
NackParse(h) ==
    LET item(i) == [first |-> ReadBE(h.payload, 4 + 4 * i, 2),
                    bits |-> {k \in 0 .. 15 : Bit(ReadBE(h.payload, 6 + 4 * i, 2), k) = 1}]
    IN IF Len(h.payload) < 12 THEN Refused
       ELSE Parsed(<<ReadBE(h.payload, 0, 4), ReadBE(h.payload, 4, 4),
                     Unpack([i \in 1 .. (Len(h.payload) - 8) \div 4 |-> item(i)])>>)
================================================================================
