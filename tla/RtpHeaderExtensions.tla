-------------------------- MODULE RtpHeaderExtensions --------------------------
(* modules/rtp_rtcp/include/rtp_header_extensions: how the value of each header  *)
(* extension is written and parsed. A value is a tuple of its fields; XWrite is  *)
(* X::Write and yields the bytes, as many as X::ValueSize says; XParse is        *)
(* X::Parse and yields the value or Refused.                                     *)
EXTENDS ByteOrder, FiniteSets

\* "Refused" for data of another size than the extension has.
OfSize(data, sizes, value) == IF Len(data) \in sizes THEN Parsed(value) ELSE Refused

AbsoluteSendTimeWrite(v) == WriteBE(v[1], 3)
AbsoluteSendTimeParse(data) == OfSize(data, {3}, <<ReadBE(data, 0, 3)>>)

\* The clock offset is optional and signed.
AbsoluteCaptureTimeWrite(v) ==
    WriteBE(v[1], 8) \o (IF v[2] = <<>> THEN <<>> ELSE WriteBE(v[2][1], 8))
AbsoluteCaptureTimeParse(data) ==
    OfSize(data, {8, 16},
           <<ReadBE(data, 0, 8), IF Len(data) = 8 THEN <<>> ELSE <<ReadSignedBE(data, 8, 8)>> >>)

AudioLevelWrite(v) == <<(IF v[1] THEN 128 ELSE 0) + v[2]>>
AudioLevelParse(data) == OfSize(data, {1}, <<data[1] >= 128, data[1] % 128>>)

\* An optional level. The two disagree on what the top bit says.
InbandComfortNoiseWrite(v) == IF v = <<>> THEN <<0>> ELSE <<128 + v[1]>>
InbandComfortNoiseParse(data) ==
    OfSize(data, {1}, IF data[1] >= 128 THEN <<>> ELSE <<data[1] % 128>>)

CsrcAudioLevelWrite(v) == [i \in DOMAIN v |-> v[i] % 128]
CsrcAudioLevelParse(data) == OfSize(data, 0 .. 15, [i \in DOMAIN data |-> data[i] % 128])

TransmissionOffsetWrite(v) == WriteBE(v[1], 3)
TransmissionOffsetParse(data) == OfSize(data, {3}, <<ReadSignedBE(data, 0, 3)>>)

TransportSequenceNumberWrite(v) == WriteBE(v[1], 2)
TransportSequenceNumberParse(data) == OfSize(data, {2}, <<ReadBE(data, 0, 2)>>)

\* An optional feedback request; one for no packets reads as none.
TransportSequenceNumberV2Write(v) ==
    WriteBE(v[1], 2) \o (IF v[2] = <<>> THEN <<>>
                         ELSE WriteBE(v[2][2] + (IF v[2][1] THEN 32768 ELSE 0), 2))
TransportSequenceNumberV2Parse(data) ==
    LET raw == IF Len(data) = 4 THEN ReadBE(data, 2, 2) ELSE 0 IN
    OfSize(data, {2, 4},
           <<ReadBE(data, 0, 2), IF raw % 32768 = 0 THEN <<>> ELSE <<raw >= 32768, raw % 32768>> >>)

\* ConvertVideoRotationToCVOByte and back (external): quarter turns in the low two bits.
VideoOrientationWrite(v) == <<v[1] \div 90>>
VideoOrientationParse(data) == OfSize(data, {1}, <<90 * (data[1] % 4)>>)

\* Milliseconds in steps of kGranularityMs, 12 bits each.
PlayoutDelayLimitsWrite(v) == WriteBE((v[1] \div 10) * 4096 + (v[2] \div 10), 3)
PlayoutDelayLimitsParse(data) ==
    LET raw == ReadBE(data, 0, 3)  min == raw \div 4096  max == raw % 4096 IN
    IF min > max THEN Refused ELSE OfSize(data, {3}, <<10 * min, 10 * max>>)

\* IsValidContentType (external): an experiment and a simulcast layer in bits 1 .. 6.
VideoContentTypeWrite(v) == <<v[1]>>
VideoContentTypeParse(data) ==
    IF data[1] > 127 THEN Refused ELSE OfSize(data, {1}, <<data[1]>>)

\* A flags byte, left out by the old format, and six times.
VideoTimingWrite(v) ==
    <<v[1]>> \o FlattenSeq([i \in 1 .. 6 |-> WriteBE(v[i + 1], 2)])
VideoTimingParse(data) ==
    LET off == IF Len(data) = 12 THEN 1 ELSE 0
        time(i) == ReadBE(data, 2 * i - 1 - off, 2)
    IN OfSize(data, {12, 13}, <<IF off = 1 THEN 0 ELSE data[1]>> \o [i \in 1 .. 6 |-> time(i)])

(* Primaries, transfer and matrix, one byte each, range and chroma siting in one, *)
(* and optionally twelve scaled HDR numbers. The enumerations (external) hold 0   *)
(* to 3 for range and siting; valid says which of the others they know.           *)
ColorSpaceWrite(v) ==
    <<v[1], v[2], v[3], 16 * v[4] + 4 * v[5] + v[6]>>
        \o FlattenSeq([i \in DOMAIN v[7] |-> WriteBE(v[7][i], 2)])
ColorSpaceParse(data, valid) ==
    LET b == data[4]
        hdr == IF Len(data) = 4 THEN <<>> ELSE [i \in 1 .. 12 |-> ReadBE(data, 2 + 2 * i, 2)]
    IN IF Len(data) >= 3 /\ \E i \in 1 .. 3 : data[i] \notin valid THEN Refused
       ELSE OfSize(data, {4, 28},
                   <<data[1], data[2], data[3], (b \div 16) % 4, (b \div 4) % 4, b % 4, hdr>>)

\* BaseRtpStringExtension: not empty, and ended by a zero byte if there is one.
StringWrite(v) == IF Len(v) > 16 THEN Refused ELSE v
StringParse(data) ==
    LET zeros == {i \in DOMAIN data : data[i] = 0} IN
    IF data = <<>> \/ data[1] = 0 THEN Refused
    ELSE IF zeros = {} THEN Parsed(data)
    ELSE Parsed(SubSeq(data, 1, Min(zeros) - 1))

VideoFrameTrackingIdWrite(v) == WriteBE(v[1], 2)
VideoFrameTrackingIdParse(data) == OfSize(data, {2}, <<ReadBE(data, 0, 2)>>)

--------------------------------------------------------------------------------
(* RtpGenericFrameDescriptorExtension00. Only the first packet of a frame says   *)
(* more than its place. d: first, last, temporal, spatial, frame, diffs, size    *)
(* (width and height, <<0, 0>> for none). The id of the frame is little endian.  *)
Resolved(d) == d.diffs = <<>> /\ d.size[1] > 0 /\ d.size[2] > 0

\* Mutant: the first difference that needs a second byte is taken to fit in one.
DiffBytesOneByte(diff, more) ==
    LET extended == diff > 64 IN
    <<4 * (diff % 64) + (IF extended THEN 2 ELSE 0) + (IF more THEN 1 ELSE 0)>>
        \o (IF extended THEN <<diff \div 64>> ELSE <<>>)
DiffBytes(diff, more) ==
    LET extended == diff >= 64 IN
    <<4 * (diff % 64) + (IF extended THEN 2 ELSE 0) + (IF more THEN 1 ELSE 0)>>
        \o (IF extended THEN <<diff \div 64>> ELSE <<>>)

FrameDescriptorWrite(d) ==
    LET base == (IF d.first THEN 128 ELSE 0) + (IF d.last THEN 64 ELSE 0) + 32 + 16 IN
    IF ~ d.first THEN <<base>>
    ELSE <<base + (IF d.diffs = <<>> THEN 0 ELSE 8) + d.temporal, d.spatial,
           d.frame % 256, d.frame \div 256>>
         \o (IF Resolved(d) THEN WriteBE(d.size[1], 2) \o WriteBE(d.size[2], 2) ELSE <<>>)
         \o FlattenSeq([i \in DOMAIN d.diffs |-> DiffBytes(d.diffs[i], i < Len(d.diffs))])

(* The differences from offset on, each saying if another follows. At most 8     *)
(* of them, none zero (AddFrameDependencyDiff, external).                        *)
RECURSIVE ReadDiffs(_, _, _)
ReadDiffs(data, offset, diffs) ==
    LET b == data[offset + 1]
        extended == Bit(b, 1) = 1
        diff == b \div 4 + (IF extended THEN 64 * data[offset + 2] ELSE 0)
        all == Append(diffs, diff)
    IN IF Len(data) <= offset \/ (extended /\ Len(data) = offset + 1) THEN Refused
       ELSE IF diff = 0 \/ Len(diffs) = 8 THEN Refused
       ELSE IF Bit(b, 0) = 1 THEN ReadDiffs(data, offset + (IF extended THEN 2 ELSE 1), all)
       ELSE Parsed(all)

FrameDescriptorParse(data) ==
    LET first == data[1] >= 128
        place == [first |-> first, last |-> Bit(data[1], 6) = 1]
        depends == Bit(data[1], 3) = 1
        diffs == IF depends THEN ReadDiffs(data, 4, <<>>) ELSE Parsed(<<>>)
        size == IF ~ depends /\ Len(data) >= 8 THEN <<ReadBE(data, 4, 2), ReadBE(data, 6, 2)>>
                ELSE <<0, 0>>
    IN IF data = <<>> THEN Refused
       ELSE IF ~ first THEN OfSize(data, {1}, place)
       ELSE IF Len(data) < 4 \/ diffs = Refused THEN Refused
       ELSE Parsed([first |-> TRUE, last |-> place.last, temporal |-> data[1] % 8,
                    spatial |-> data[2], frame |-> data[3] + 256 * data[4],
                    diffs |-> diffs[1], size |-> size])
================================================================================
