---------------------------- MODULE H264Packetizer -----------------------------
(* RtpPacketizerH264 and RtpPacketizer::SplitAboutEqual: how a frame of the       *)
(* encoder, NALUs behind start codes, becomes RTP payloads no longer than the    *)
(* limits say: one NALU, several in a STAP-A, or a part of one in an FU-A.        *)
EXTENDS ByteOrder, FiniteSets

\* PayloadLimits: what the only, the first and the last packet of a frame have less.
Limits(max, single, first, last) == [max |-> max, single |-> single, first |-> first, last |-> last]
StapA == 24
FuAType == 28

(* FindNaluIndices: from offset i on, every third byte is looked at unless it    *)
(* could be part of a start code.                                                *)
RECURSIVE FindStartCodes(_, _, _)
FindStartCodes(b, i, found) ==
    IF i >= Len(b) - 3 THEN found
    ELSE IF b[i + 3] = 0 THEN FindStartCodes(b, i + 1, found)
    ELSE FindStartCodes(b, i + 3,
            IF b[i + 3] = 1 /\ b[i + 1] = 0 /\ b[i + 2] = 0
            THEN Append(found, [start |-> IF i > 0 /\ b[Max({i, 1})] = 0 THEN i - 1 ELSE i, payload |-> i + 3])
            ELSE found)

FindNalus(b) ==
    LET idx == FindStartCodes(b, 0, <<>>) IN
    [k \in DOMAIN idx |-> SubSeq(b, idx[k].payload + 1, IF k < Len(idx) THEN idx[k + 1].start ELSE Len(b))]

(* The loop of SplitAboutEqual: left packets to fill, per bytes each, one more   *)
(* from the packet on where left = larger.                                       *)
RECURSIVE SplitLoop(_, _, _, _, _, _)
SplitLoop(remain, left, per, larger, first, result) ==
    LET each == IF left = larger THEN per + 1 ELSE per
        wanted == IF result = <<>> THEN Max({each - first, 1}) ELSE each
        fitting == Min({wanted, remain})
        size == IF left = 2 /\ fitting = remain THEN fitting - 1 ELSE fitting
    IN IF remain <= 0 THEN result
       ELSE SplitLoop(remain - size, left - 1, each, larger, first, Append(result, size))

SplitAboutEqual(size, lim) ==
    LET total == size + lim.first + lim.last
        n == Max({(total + lim.max - 1) \div lim.max, 2})
    IN IF lim.max >= size + lim.single THEN <<size>>
       ELSE IF lim.max - lim.first < 1 \/ lim.max - lim.last < 1 THEN <<>>
       ELSE SplitLoop(size, n, total \div n, total % n, lim.first, <<>>)

Unit(data, first, last, aggregated, header) ==
    [data |-> data, first |-> first, last |-> last, aggregated |-> aggregated, header |-> header]

\* The limits of the packets of fragment i out of n.
\* Mutant: the last packet of a frame is filled like any other.
FuALimitsNoLast(lim, i, n) ==
    [max |-> lim.max - 2, single |-> IF n = 1 THEN lim.single ELSE 0,
     first |-> IF i = 1 THEN lim.first ELSE 0, last |-> 0]
FuALimits(lim, i, n) ==
    [max |-> lim.max - 2,
     single |-> IF n = 1 THEN lim.single ELSE IF i = n THEN lim.last ELSE IF i = 1 THEN lim.first ELSE 0,
     first |-> IF i = 1 THEN lim.first ELSE 0, last |-> IF i = n THEN lim.last ELSE 0]

PacketizeFuA(frags, i, lim) ==
    LET nalu == frags[i]
        sizes == SplitAboutEqual(Len(nalu) - 1, FuALimits(lim, i, Len(frags)))
        from(k) == 1 + FoldLeft(LAMBDA a, s : a + s, 0, SubSeq(sizes, 1, k - 1))
    IN [k \in DOMAIN sizes |->
           Unit(SubSeq(nalu, from(k) + 1, from(k) + sizes[k]), k = 1, k = Len(sizes), FALSE, nalu[1])]

(* PacketizeStapA: fragments are taken in while they fit in the bytes left; from *)
(* the second on with their length, and the second with the header too.          *)
RECURSIVE Aggregate(_, _, _, _, _, _)
Aggregate(frags, i, lim, left, header, units) ==
    LET done == [units |-> units, next |-> i]
        need == Len(frags[i]) + header + (IF i = Len(frags) /\ Len(frags) > 1 THEN lim.last ELSE 0)
    IN IF i > Len(frags) THEN done
       ELSE IF left < need THEN done
       ELSE Aggregate(frags, i + 1, lim, left - Len(frags[i]) - header,
                      IF units = <<>> THEN 5 ELSE 2,
                      Append(units, Unit(frags[i], units = <<>>, FALSE, TRUE, frags[i][1])))

PacketizeStapA(frags, i, lim) ==
    LET left == lim.max - (IF Len(frags) = 1 THEN lim.single ELSE IF i = 1 THEN lim.first ELSE 0)
        r == Aggregate(frags, i, lim, left, 0, <<>>)
    IN [r EXCEPT !.units = [@ EXCEPT ![Len(@)].last = TRUE]]

SinglePacketCapacity(frags, i, lim) ==
    lim.max - (IF Len(frags) = 1 THEN lim.single ELSE IF i = 1 THEN lim.first
               ELSE IF i = Len(frags) THEN lim.last ELSE 0)

\* Every packet of a frame, or none if one fragment cannot be split.
RECURSIVE GeneratePackets(_, _, _, _)
GeneratePackets(frags, i, lim, units) ==
    IF i > Len(frags) THEN units
    ELSE IF Len(frags[i]) > SinglePacketCapacity(frags, i, lim)
    THEN LET fu == PacketizeFuA(frags, i, lim) IN
         IF fu = <<>> THEN <<>> ELSE GeneratePackets(frags, i + 1, lim, units \o fu)
    ELSE LET stap == PacketizeStapA(frags, i, lim) IN
         GeneratePackets(frags, stap.next, lim, units \o stap.units)

TopBits(header) == 32 * (header \div 32)      \* forbidden bit and NRI

(* NextPacket, until packets_ is empty: the payloads in order. The marker is set *)
(* on the one that empties the queue.                                            *)
RECURSIVE NextPackets(_, _)
NextPackets(units, payloads) ==
    LET u == Head(units)
        group == SubSeq(units, 1, Min({k \in DOMAIN units : units[k].last}))
        stap == <<TopBits(u.header) + StapA>>
                \o FlattenSeq([k \in DOMAIN group |-> WriteBE(Len(group[k].data), 2) \o group[k].data])
        fua == <<TopBits(u.header) + FuAType,
                 (IF u.first THEN 128 ELSE 0) + (IF u.last THEN 64 ELSE 0) + (u.header % 32)>> \o u.data
    IN IF units = <<>> THEN payloads
       ELSE IF u.first /\ u.last THEN NextPackets(Tail(units), Append(payloads, u.data))
       ELSE IF u.aggregated
       THEN NextPackets(SubSeq(units, Len(group) + 1, Len(units)), Append(payloads, stap))
       ELSE NextPackets(Tail(units), Append(payloads, fua))

\* num_packets_left_ after GeneratePackets: one per aggregate, one per part.
NumPackets(units) == Cardinality({k \in DOMAIN units : ~ units[k].aggregated \/ units[k].last})
Packetize(frame, lim) == GeneratePackets(FindNalus(frame), 1, lim, <<>>)
================================================================================
