------------------------------- MODULE RtpPacket -------------------------------
(* modules/rtp_rtcp/rtp_packet and include/rtp_header_extension_map. A packet    *)
(* keeps its fields next to the buffer they are written to or read from; offsets *)
(* count from 0, as in the code.                                                 *)
EXTENDS ByteOrder, FiniteSets

FixedHeader == 12
NoExtensions == [id \in {} |-> <<0, 0>>]   \* extension_entries_: id -> offset and length

(* Clear resets the fields and the size but of the buffer only the first byte;   *)
(* extension_entries_ stays.                                                     *)
Clear(p) ==
    [p EXCEPT !.marker = FALSE, !.payload_type = 0, !.sequence_number = 0, !.timestamp = 0,
              !.ssrc = 0, !.payload_offset = FixedHeader, !.payload_size = 0, !.padding_size = 0,
              !.buffer = [i \in 1 .. FixedHeader |-> IF i = 1 THEN 128 ELSE p.buffer[i]]]

\* A new packet: memory is what the allocator returned, not zeroed.
NewRtpPacket(memory) ==
    Clear([marker |-> FALSE, payload_type |-> 0, sequence_number |-> 0, timestamp |-> 0, ssrc |-> 0,
           payload_offset |-> 0, payload_size |-> 0, padding_size |-> 0, buffer |-> memory,
           extensions_size |-> 0, entries |-> NoExtensions])

WriteAt(p, offset, bytes) ==
    [p EXCEPT !.buffer = [i \in DOMAIN @ |-> IF i - offset \in DOMAIN bytes THEN bytes[i - offset] ELSE @[i]]]

SetMarker(p, m) ==
    WriteAt([p EXCEPT !.marker = m], 1, <<(p.buffer[2] % 128) + (IF m THEN 128 ELSE 0)>>)
\* Mutant: the marker shares the byte and is lost.
SetPayloadTypeOnly(p, t) == WriteAt([p EXCEPT !.payload_type = t], 1, <<t>>)
SetPayloadType(p, t) ==
    WriteAt([p EXCEPT !.payload_type = t], 1, <<128 * (p.buffer[2] \div 128) + t>>)
SetSequenceNumber(p, v) == WriteAt([p EXCEPT !.sequence_number = v], 2, WriteBE(v, 2))
SetTimestamp(p, v) == WriteAt([p EXCEPT !.timestamp = v], 4, WriteBE(v, 4))
SetSsrc(p, v) == WriteAt([p EXCEPT !.ssrc = v], 8, WriteBE(v, 4))

\* The payload is left as it is if the buffer cannot hold the new one, which the
\* caller fills in.
SetPayloadSize(p, payload, capacity) ==
    IF p.payload_offset + Len(payload) > capacity THEN p
    ELSE [p EXCEPT !.payload_size = Len(payload),
                   !.buffer = SubSeq(@, 1, p.payload_offset) \o payload]
\* Down to nothing first: a payload that does not fit leaves the packet without one.
AllocatePayload(p, payload, capacity) ==
    SetPayloadSize(SetPayloadSize(p, <<>>, capacity), payload, capacity)

--------------------------------------------------------------------------------
OneByteProfile == 48862        \* 0xBEDE
IsTwoByteProfile(profile) == profile \div 16 = 256   \* 0x1000 with any application bits

Fits(at, length, capacity) == at + length <= capacity

(* The loop over the extension elements, at bytes into a block of capacity bytes *)
(* that begins at base. A zero byte is padding; an element that is reserved or   *)
(* does not fit ends the loop.                                                   *)
RECURSIVE ReadExtensions(_, _, _, _, _)
ReadExtensions(b, base, capacity, one, r) ==
    LET x == b[base + r.at + 1]
        header == IF one THEN 1 ELSE 2
        id == IF one THEN x \div 16 ELSE x
        length == IF one THEN 1 + (x % 16) ELSE b[base + r.at + 2]
    IN IF r.at + header >= capacity THEN r
       ELSE IF x = 0 THEN ReadExtensions(b, base, capacity, one, [r EXCEPT !.at = @ + 1])
       ELSE IF one /\ (id = 15 \/ (id = 0 /\ length # 1)) THEN r
       ELSE IF ~ Fits(r.at + header, length, capacity) THEN r
       ELSE ReadExtensions(b, base, capacity, one,
                [at |-> r.at + header + length,
                 entries |-> [i \in DOMAIN r.entries \cup {id} |->
                                 IF i = id THEN <<base + r.at + header, length>> ELSE r.entries[i]]])

ParseBuffer(b) ==
    LET size == Len(b)
        csrcs == FixedHeader + 4 * (b[1] % 16)
        extended == Bit(b[1], 4) = 1
        profile == ReadBE(b, csrcs, 2)
        capacity == IF extended THEN 4 * ReadBE(b, csrcs + 2, 2) ELSE 0
        none == [at |-> 0, entries |-> NoExtensions]
        ext == IF extended /\ (profile = OneByteProfile \/ IsTwoByteProfile(profile))
               THEN ReadExtensions(b, csrcs + 4, capacity, profile = OneByteProfile, none)
               ELSE none
        payload == IF extended THEN csrcs + 4 + capacity ELSE csrcs
        padded == Bit(b[1], 5) = 1 /\ payload < size
        padding == IF padded THEN b[size] ELSE 0
    IN IF size < FixedHeader THEN Refused
       ELSE IF b[1] \div 64 # 2 \/ size < csrcs THEN Refused
       ELSE IF extended /\ size < csrcs + 4 THEN Refused
       ELSE IF payload > size \/ (padded /\ padding = 0) \/ payload + padding > size THEN Refused
       ELSE Parsed([marker |-> b[2] >= 128, payload_type |-> b[2] % 128,
                    sequence_number |-> ReadBE(b, 2, 2), timestamp |-> ReadBE(b, 4, 4),
                    ssrc |-> ReadBE(b, 8, 4), payload_offset |-> payload,
                    payload_size |-> size - payload - padding, padding_size |-> padding,
                    buffer |-> b, extensions_size |-> ext.at, entries |-> ext.entries])

PacketSize(p) == p.payload_offset + p.payload_size + p.padding_size
PayloadOf(p) == SubSeq(p.buffer, p.payload_offset + 1, p.payload_offset + p.payload_size)

\* infer_rtp_packet_type
ReservedForRtcp(t) == t \in 64 .. 95
InferRtpPacketType(b) ==
    IF Len(b) >= 12 /\ b[1] \div 64 = 2 /\ ~ ReservedForRtcp(b[2] % 128) THEN "rtp"
    ELSE IF Len(b) >= 4 /\ b[1] \div 64 = 2 /\ ReservedForRtcp(b[2] % 128) THEN "rtcp"
    ELSE "unknown"

--------------------------------------------------------------------------------
(* RtpHeaderExtensionMap: ids_, the id of each type, 0 if it has none.           *)
GetType(ids, id) == {t \in DOMAIN ids : ids[t] = id}
Register(ids, id, t) ==
    IF id \notin 1 .. 255 \/ GetType(ids, id) # {} THEN ids ELSE [ids EXCEPT ![t] = id]
Deregister(ids, t) == [ids EXCEPT ![t] = 0]
FindExtension(p, ids, t) ==
    IF ids[t] = 0 \/ ids[t] \notin DOMAIN p.entries THEN Refused
    ELSE LET e == p.entries[ids[t]] IN Parsed(SubSeq(p.buffer, e[1] + 1, e[1] + e[2]))
================================================================================
