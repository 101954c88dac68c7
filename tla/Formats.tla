-------------------------------- MODULE Formats --------------------------------
(* What the server writes to the wire and what it reads back. One step codes one *)
(* value of one format by the operators that model the code and decodes the      *)
(* result; an RTP packet is built by several steps, its setters in any order.    *)
EXTENDS RtpHeaderExtensions, VideoLayersAllocation, RtpPacket, H264Packetizer,
        RtcpPackets, StunMessage, Negotiation

CONSTANTS
    Bytes,         \* bytes of payloads and of extension blocks
    Memory,        \* what freshly allocated buffers may hold
    MaxNalus,      \* NALUs in a frame
    NaluSizes,     \* and their sizes
    PayloadMax,    \* max_payload_len of the packetizer
    Reductions,    \* the reductions of its limits
    DatagramMax,   \* max_packet_size of the RTCP sender
    NackLists,     \* sequence numbers asked for
    BlockCount,    \* report blocks in a report
    StunBytes,     \* values of USERNAME
    Passwords

ASSUME BoundsAssumption ==
    /\ Bytes \subseteq Byte /\ Memory \subseteq [1 .. FixedHeader -> Byte]
    /\ MaxNalus \in Nat \ {0} /\ NaluSizes \subseteq Nat \ {0}

VARIABLES
    packet,        \* an RtpPacket being built, if any
    fields,        \* the fields that were set, with the values given
    ids            \* the RtpHeaderExtensionMap

vars == <<coded, packet, fields, ids>>

ExtensionTypes == {"level", "offset"}
NoFields == [f \in {} |-> 0]
NoIds == [t \in ExtensionTypes |-> 0]
Edges(n) == {0, 1, 2^(n - 1) - 1, 2^(n - 1), 2^n - 1}       \* of n bits
SignedEdges(n) == {-(2^(n - 1)), -1, 0, 2^(n - 1) - 1}
Tuples1(S) == {<<x>> : x \in S}
UpTo(S, n) == UNION {[1 .. k -> S] : k \in 0 .. n}

Coded(kind, value, wire, parsed) ==
    /\ Made(kind, value, wire, parsed)
    /\ UNCHANGED <<packet, fields, ids>>

--------------------------------------------------------------------------------
\* Header extensions: Write, then Parse.
Timed ==
    \/ \E v \in Tuples1(Edges(24)) :
          LET w == AbsoluteSendTimeWrite(v) IN Coded("extension", v, w, AbsoluteSendTimeParse(w))
    \/ \E t \in Edges(30), o \in {<<>>} \cup Tuples1(SignedEdges(30)) :
          LET v == <<t, o>>  w == AbsoluteCaptureTimeWrite(v) IN
          Coded("extension", v, w, AbsoluteCaptureTimeParse(w))
    \/ \E v \in Tuples1(SignedEdges(24)) :
          LET w == TransmissionOffsetWrite(v) IN Coded("extension", v, w, TransmissionOffsetParse(w))
    \/ \E f \in {0, 1, 3}, i \in 1 .. 6, x \in Edges(16) :
          LET v == <<f>> \o [k \in 1 .. 6 |-> IF k = i THEN x ELSE 7]  w == VideoTimingWrite(v) IN
          Coded("extension", v, w, VideoTimingParse(w))
    \/ \E min, max \in {0, 10, 20, 40950} :
          LET v == <<min, max>>  w == PlayoutDelayLimitsWrite(v) IN
          min <= max /\ Coded("extension", v, w, PlayoutDelayLimitsParse(w))

Numbered ==
    \/ \E v \in Tuples1(Edges(16)) :
          LET w == TransportSequenceNumberWrite(v) IN
          Coded("extension", v, w, TransportSequenceNumberParse(w))
    \/ \E n \in Edges(16), r \in {<<>>} \cup {<<b, k>> : b \in BOOLEAN, k \in Edges(15) \ {0}} :
          LET v == <<n, r>>  w == TransportSequenceNumberV2Write(v) IN
          Coded("extension", v, w, TransportSequenceNumberV2Parse(w))
    \/ \E v \in Tuples1(Edges(16)) :
          LET w == VideoFrameTrackingIdWrite(v) IN Coded("extension", v, w, VideoFrameTrackingIdParse(w))
    \/ \E s \in UpTo(Bytes \ {0}, 2) :
          LET w == StringWrite(s) IN s # <<>> /\ Coded("extension", s, w, StringParse(w))

Described ==
    \/ \E b \in BOOLEAN, n \in Edges(7) :
          LET v == <<b, n>>  w == AudioLevelWrite(v) IN Coded("extension", v, w, AudioLevelParse(w))
    \/ \E v \in {<<>>} \cup Tuples1(Edges(7)) :
          LET w == InbandComfortNoiseWrite(v) IN Coded("comfort", v, w, InbandComfortNoiseParse(w))
    \/ \E v \in UpTo(Edges(7), 2) :
          LET w == CsrcAudioLevelWrite(v) IN Coded("extension", v, w, CsrcAudioLevelParse(w))
    \/ \E v \in Tuples1({0, 90, 180, 270}) :
          LET w == VideoOrientationWrite(v) IN Coded("extension", v, w, VideoOrientationParse(w))
    \/ \E v \in Tuples1(Edges(7)) :
          LET w == VideoContentTypeWrite(v) IN Coded("extension", v, w, VideoContentTypeParse(w))
    \/ \E p, m \in {1, 9}, r, x, y \in 0 .. 3, hdr \in {<<>>, [i \in 1 .. 12 |-> 256 * i + 1]} :
          LET v == <<p, 1, m, r, x, y, hdr>>  w == ColorSpaceWrite(v) IN
          Coded("extension", v, w, ColorSpaceParse(w, {1, 9}))
    \/ \E f, l \in BOOLEAN, t \in {0, 7}, s \in {1, 255}, n \in Edges(16),
          diffs \in UpTo({1, 63, 64, 16383}, 2), size \in {<<0, 0>>, <<640, 65535>>} :
          LET d == IF ~ f THEN [first |-> f, last |-> l]
                   ELSE [first |-> f, last |-> l, temporal |-> t, spatial |-> s, frame |-> n,
                         diffs |-> diffs, size |-> IF diffs = <<>> THEN size ELSE <<0, 0>>]
              w == FrameDescriptorWrite(d)
          IN Coded("extension", d, w, FrameDescriptorParse(w))

\* Up to three layers, each at a place of its own.
Allocations ==
    LET places == {<<0, 0>>, <<0, 1>>, <<1, 0>>, <<3, 3>>}
        order == SetToSortSeq(places, LAMBDA p, q : 4 * p[1] + p[2] < 4 * q[1] + q[2])
        layers(P, rates, size) ==
            LET chosen == SelectSeq(order, LAMBDA p : p \in P) IN
            [i \in DOMAIN chosen |-> Layer(chosen[i][1], chosen[i][2],
                                           IF i = 1 THEN rates ELSE <<100, 300>>, size)]
    IN {[rtp_stream_index |-> s, resolved |-> r,
         layers |-> layers(P, rates, IF r THEN <<320, 65536, 30>> ELSE NoSize)] :
            s \in 0 .. 3, r \in BOOLEAN, P \in SUBSET places \ {{}},
            rates \in {<<0>>, <<127, 128>>, <<1, 2, 16384, 1000000>>}}
Allocated ==
    \E a \in Allocations :
        LET w == AllocationWrite(a) IN
        AllocationIsValid(a) /\ Coded("layers", a, w, AllocationParse(w))

--------------------------------------------------------------------------------
\* An RtpPacket for sending: any setter at any time, the payload again and again.
Capacity == FixedHeader + 2
Changed(p, f, v) ==
    /\ packet' = Parsed(p)
    /\ fields' = [g \in DOMAIN fields \cup {f} |-> IF g = f THEN v ELSE fields[g]]
    /\ UNCHANGED <<coded, ids>>
NewPacket ==
    /\ \E m \in Memory : packet' = Parsed(NewRtpPacket(m))
    /\ UNCHANGED <<coded, fields, ids>>
BuildPacket ==
    /\ packet # Refused
    /\ LET p == packet[1] IN
       \/ \E v \in BOOLEAN : Changed(SetMarker(p, v), "marker", v)
       \/ \E v \in {0, 127} : Changed(SetPayloadType(p, v), "payload_type", v)
       \/ \E v \in {256, 65535} : Changed(SetSequenceNumber(p, v), "sequence_number", v)
       \/ \E v \in {1, 65536} : Changed(SetTimestamp(p, v), "timestamp", v)
       \/ \E v \in {7, 16777216} : Changed(SetSsrc(p, v), "ssrc", v)
       \/ \E payload \in UpTo({7}, 3) :
             Changed(AllocatePayload(p, payload, Capacity), "payload",
                     IF Len(payload) <= Capacity - FixedHeader THEN payload ELSE <<>>)

\* The extension map is filled and emptied as sessions register extensions.
Map ==
    /\ \E t \in ExtensionTypes :
          \/ \E id \in {0, 1, 2, 300} : ids' = Register(ids, id, t)
          \/ ids' = Deregister(ids, t)
    /\ UNCHANGED <<coded, packet, fields>>

\* A packet with a block of extensions: laid out by a sender, or any bytes at all.
OneByteElement(e) == <<16 * e.id + Len(e.data) - 1>> \o e.data
TwoByteElement(e) == <<e.id, Len(e.data)>> \o e.data
Elements == {[id |-> i, data |-> d, pad |-> n] : i \in 1 .. 2, d \in {<<>>, <<9>>, <<9, 8>>}, n \in 0 .. 1}
Padded(s) == s \o [i \in 1 .. (4 - (Len(s) % 4)) % 4 |-> 0]
WithBlock(profile, block, payload, padding) ==
    <<128 + 16 + (IF padding > 0 THEN 32 ELSE 0), 96>> \o [i \in 1 .. 10 |-> i]
        \o WriteBE(profile, 2) \o WriteBE(Len(block) \div 4, 2) \o block \o payload
        \o [i \in 1 .. padding |-> padding]
LaidOut ==
    \E one \in BOOLEAN, es \in UpTo(Elements, 2), padding \in {0, 3} :
          LET element(e) == (IF one THEN OneByteElement(e) ELSE TwoByteElement(e)) \o [i \in 1 .. e.pad |-> 0]
              laid == FlattenSeq([i \in DOMAIN es |-> element(es[i])])
              block == Padded(laid)
              w == WithBlock(IF one THEN OneByteProfile ELSE 4096, block, <<1, 2>>, padding)
          IN /\ Len(es) = 2 => es[1].id # es[2].id
             /\ one => \A i \in DOMAIN es : es[i].data # <<>>   \* that form has no empty ones
             /\ Coded("packet", [elements |-> es, full |-> laid = block], w, ParseBuffer(w))
AnyBlock ==
    \E profile \in {OneByteProfile, 4097, 77}, block \in [1 .. 4 -> Bytes], last \in Bytes :
          LET w == WithBlock(profile, block, <<last>>, 0)
              padded == [w EXCEPT ![1] = @ + 32]
          IN Coded("any", last, padded, ParseBuffer(padded))

--------------------------------------------------------------------------------
(* A frame through the H.264 packetizer and, for reference, a receiver that      *)
(* follows RFC 6184.                                                             *)
\* The last byte of a NALU is never zero (H.264, 7.4.1).
FrameNalu(i, n) == [k \in 1 .. n |-> IF k = 1 THEN 32 * i + 5 ELSE IF k % 3 = 2 /\ k < n THEN 0 ELSE 10 * i + k]
Frame(sizes) ==
    FlattenSeq([i \in DOMAIN sizes |->
                   (IF i = 1 THEN <<0, 0, 0, 1>> ELSE <<0, 0, 1>>) \o FrameNalu(i, sizes[i])])

RECURSIVE Deaggregate(_)
Deaggregate(d) ==
    IF d = <<>> THEN <<>>
    ELSE LET n == ReadBE(d, 0, 2) IN
         <<SubSeq(d, 3, 2 + n)>> \o Deaggregate(SubSeq(d, 3 + n, Len(d)))
Depacketize(payloads) ==
    FoldLeft(LAMBDA nalus, p :
                 CASE p[1] % 32 = StapA -> nalus \o Deaggregate(Tail(p))
                   [] p[1] % 32 = FuAType /\ p[2] >= 128 ->
                          Append(nalus, <<TopBits(p[1]) + (p[2] % 32)>> \o SubSeq(p, 3, Len(p)))
                   [] p[1] % 32 = FuAType /\ p[2] < 128 ->
                          [nalus EXCEPT ![Len(nalus)] = @ \o SubSeq(p, 3, Len(p))]
                   [] OTHER -> Append(nalus, p),
             <<>>, payloads)

(* A frame in one packet is its own first and last packet: what it has less is   *)
(* at most what those two have less.                                             *)
Sent ==
    \E sizes \in UpTo(NaluSizes, MaxNalus), max \in PayloadMax, s, f, l \in Reductions :
          LET units == Packetize(Frame(sizes), Limits(max, s, f, l)) IN
          /\ sizes # <<>> /\ s <= f + l
          /\ Coded("frame", [sizes |-> sizes, lim |-> Limits(max, s, f, l), count |-> NumPackets(units)],
                   NextPackets(units, <<>>), Depacketize(NextPackets(units, <<>>)))

\* A sender or receiver report and a NACK, through datagrams of at most max bytes.
Block(i) == <<i, 255, (-1)^i * i, 65536, 0, 7, i>>
ReadReports(datagrams, type, Parse(_)) ==
    LET heads == FlattenSeq([i \in DOMAIN datagrams |-> ParseCompound(datagrams[i])]) IN
    LET found == SelectSeq(heads, LAMBDA h : h.type = type) IN
    [i \in DOMAIN found |-> Parse(found[i])]
Reported ==
    \E sr \in BOOLEAN, n \in BlockCount, nacks \in NackLists, max \in DatagramMax :
          LET blocks == SetReportBlocks(<<>>, [i \in 1 .. n |-> Block(i)])
              head == <<1, 2, 3, 4, 5>>
              report == IF sr THEN SenderReportCreate(head, blocks) ELSE ReceiverReportCreate(1, blocks)
              c == NackCreate(AppendBlock(Compound(<<>>, <<>>), report, max), <<1, 9>>, Pack(nacks), max)
              d == Send(c)
          IN Coded("rtcp", [sr |-> sr, n |-> n, blocks |-> blocks, nacks |-> nacks, max |-> max, size |-> Len(report)],
                   d,
                   [report |-> IF sr THEN ReadReports(d, SrType, SenderReportParse)
                               ELSE ReadReports(d, RrType, ReceiverReportParse),
                    nack |-> ReadReports(d, RtpFbType, NackParse)])

\* A binding request or its answers, signed and sealed.
Tid == [i \in 1 .. 12 |-> i]
Authenticated ==
    \E t \in {BindingRequest, BindingResponse, BindingErrorResponse}, u \in UpTo(StunBytes, 4),
          mine, theirs \in Passwords :
          LET bare == AddAttribute(AddAttribute(NewStunMessage(t, Tid), Attr(Username, u)),
                          IF t = BindingRequest THEN Attr(Priority, <<0, 0, 1, 2>>)
                          ELSE IF t = BindingResponse
                          THEN Attr(XorMappedAddress, XorAddressBytes(4660, <<10, 0, 0, 1>>))
                          ELSE Attr(ErrorCode, ErrorCodeBytes(487, u)))
              w == StunWrite(AddFingerprint(AddMessageIntegrity(bare, mine)))
          IN Coded("stun", [type |-> t, user |-> u, same |-> mine = theirs, key |-> theirs], w, StunRead(w))

Again ==
    /\ coded # Nothing \/ packet # Refused
    /\ coded' = Nothing /\ packet' = Refused /\ fields' = NoFields
    /\ UNCHANGED ids

Init == coded = Nothing /\ packet = Refused /\ fields = NoFields /\ ids = NoIds

Ready == coded = Nothing /\ packet = Refused
Next ==
    \/ /\ Ready /\ ids = NoIds
       /\ \/ Timed \/ Numbered \/ Described \/ Allocated \/ NewPacket \/ AnyBlock
          \/ Sent \/ Reported \/ Authenticated
          \/ Negotiated /\ UNCHANGED <<packet, fields, ids>>
    \/ Ready /\ Map
    \/ Ready /\ LaidOut
    \/ BuildPacket
    \/ Again

Spec == Init /\ [][Next]_vars

--------------------------------------------------------------------------------
(* Whatever header extension Write puts on the wire, Parse gives back the value, *)
(* at the ends of every field's range and for both forms of the optional ones.   *)
(* The level of inband comfort noise is the one that does not come back: Write   *)
(* sets the top bit if there is a level, Parse takes it to say that there is none. *)
ExtensionsRoundTrip ==
    /\ Is("extension") => coded.parsed = Parsed(coded.value)
    /\ Is("comfort") => coded.parsed = Parsed(IF coded.value = <<>> THEN <<0>> ELSE <<>>)

(* A video layers allocation takes exactly the bytes ValueSize reserves for it,  *)
(* is read back as it was written, and no shorter piece of it is taken for it.   *)
LayersRoundTrip ==
    Is("layers") =>
        /\ coded.parsed = Parsed(coded.value)
        /\ Len(coded.wire) = AllocationValueSize(coded.value)
        /\ \A n \in 0 .. Len(coded.wire) - 1 :
              AllocationParse(SubSeq(coded.wire, 1, n)) # coded.parsed

(* Every header extension but that one survives the way over the wire.           *)
ExtensionsExact == ExtensionsRoundTrip /\ LayersRoundTrip

(* The setters of an RtpPacket, in any order, over whatever the new buffer held  *)
(* and with the payload allocated several times: the bytes say what was set.     *)
HeaderExact ==
    packet # Refused =>
        LET r == ParseBuffer(packet[1].buffer) IN
        /\ r # Refused
        /\ \A f \in DOMAIN fields :
              IF f = "payload" THEN PayloadOf(r[1]) = fields[f] ELSE r[1][f] = fields[f]

(* RtpPacket::Parse finds every registered extension of a block, whatever the    *)
(* form and padding of its elements, but for one without data whose header is    *)
(* the end of the block; and no id is ever given to two types.                   *)
EndsBlock(v, i) == i = Len(v.elements) /\ v.elements[i].data = <<>> /\ v.elements[i].pad = 0 /\ v.full
ExtensionsFound ==
    /\ \A t, u \in ExtensionTypes : ids[t] = ids[u] /\ t # u => ids[t] = 0
    /\ Is("packet") =>
          /\ coded.parsed # Refused
          /\ PayloadOf(coded.parsed[1]) = <<1, 2>>
          /\ \A t \in ExtensionTypes, i \in DOMAIN coded.value.elements :
                ids[t] = coded.value.elements[i].id =>
                    FindExtension(coded.parsed[1], ids, t) =
                        IF EndsBlock(coded.value, i) THEN Refused
                        ELSE Parsed(coded.value.elements[i].data)

(* From any bytes Parse takes extents that lie in the packet: each extension in  *)
(* the block, the header, payload and padding making up the whole.               *)
ParsedInside ==
    Is("any") /\ coded.parsed # Refused =>
        LET p == coded.parsed[1] IN
        /\ PacketSize(p) = Len(coded.wire) /\ p.payload_size >= 0
        /\ \A id \in DOMAIN p.entries :
              /\ p.entries[id][1] >= FixedHeader + 4
              /\ p.entries[id][1] + p.entries[id][2] <= p.payload_offset

(* An RTP packet is read as it was built, and any other bytes safely.            *)
PacketsExact == HeaderExact /\ ExtensionsFound /\ ParsedInside

(* A frame comes out of the packetizer in payloads that a receiver puts together *)
(* to the same NALUs, none longer than the limit for its place in the frame, and *)
(* as many as NumPackets announced, unless the limits leave no room at all.      *)
Room(p, lim, i, n) ==
    Len(p) <= lim.max - (IF n = 1 THEN lim.single ELSE IF i = 1 THEN lim.first ELSE IF i = n THEN lim.last ELSE 0)
FrameExact ==
    Is("frame") =>
        \/ coded.wire = <<>> /\ coded.value.lim.max - 2 - Max({coded.value.lim.first, coded.value.lim.last}) < 1
        \/ /\ coded.parsed = [i \in DOMAIN coded.value.sizes |-> FrameNalu(i, coded.value.sizes[i])]
           /\ Len(coded.wire) = coded.value.count
           /\ \A i \in DOMAIN coded.wire : Room(coded.wire[i], coded.value.lim, i, Len(coded.wire))

(* However small the datagrams, none is longer than the limit, each is taken for *)
(* RTCP by the demultiplexer, and a receiver reads the report and every number   *)
(* of the NACK, once each and in order.                                          *)
CompoundExact ==
    Is("rtcp") =>
        LET v == coded.value  blocks == Parsed(v.blocks)
            asked == FlattenSeq([i \in DOMAIN coded.parsed.nack |-> coded.parsed.nack[i][1][3]])
            head == IF v.sr THEN <<1, 2, 3, 4, 5>> ELSE <<>>
        IN /\ \A d \in ToSet(coded.wire) : Len(d) <= v.max /\ InferRtpPacketType(d) = "rtcp"
           /\ v.max >= NackHeader + 4 => asked = v.nacks
           /\ v.max >= v.size =>
                 coded.parsed.report = << Parsed(<<IF v.sr THEN head ELSE 1, v.blocks>>) >>

(* A STUN message that was signed and sealed is read back, passes the checks of  *)
(* the one who has the password and of no one else, and no prefix of it passes.  *)
StunAuthentic ==
    Is("stun") =>
        LET v == coded.value  m == coded.parsed IN
        /\ m # Refused
        /\ m[1].type = v.type /\ m[1].tid = Tid /\ GetAttribute(m[1], Username) = Parsed(v.user)
        /\ ValidateFingerprint(coded.wire)
        /\ ValidateIntegrity(m[1], coded.wire, v.key) = (IF v.same THEN "ok" ELSE "bad")
        /\ \A n \in 0 .. Len(coded.wire) - 1 :
              LET cut == SubSeq(coded.wire, 1, n) IN
              ~ (ValidateFingerprint(cut) /\ StunRead(cut) # Refused)
================================================================================
