------------------------- MODULE VideoLayersAllocation -------------------------
(* modules/rtp_rtcp/include/rtp_video_layers_allocation_extension. An allocation *)
(* has the index of its RTP stream, the active spatial layers and, if resolved,  *)
(* their width, height and frame rate.                                           *)
EXTENDS ByteOrder

Layer(stream, sid, rates, size) ==
    [rtp_stream_index |-> stream, spatial_id |-> sid, rates |-> rates, size |-> size]
NoSize == <<0, 0, 0>>          \* width, height, frame_rate_fps

AllocationIsValid(a) ==
    LET L == a.layers IN
    /\ \A i \in 1 .. Len(L) - 1 :
          4 * L[i].rtp_stream_index + L[i].spatial_id < 4 * L[i + 1].rtp_stream_index + L[i + 1].spatial_id
    /\ \A i \in DOMAIN L :
          /\ L[i].rtp_stream_index \in 0 .. 3 /\ L[i].spatial_id \in 0 .. 3
          /\ Len(L[i].rates) \in 1 .. 4
          /\ a.resolved => L[i].size[1] > 0 /\ L[i].size[2] > 0 /\ L[i].size[3] <= 255
    /\ L # <<>> => \E i \in DOMAIN L : a.rtp_stream_index <= L[i].rtp_stream_index

SpatialLayersBitmask(a, s) ==
    Mask(4, {a.layers[i].spatial_id : i \in {j \in DOMAIN a.layers : a.layers[j].rtp_stream_index = s}})
MaxRtpStreamId(a) == Max({a.layers[i].rtp_stream_index : i \in DOMAIN a.layers} \cup {0})
BitmasksAreTheSame(a) ==
    \A s \in 1 .. MaxRtpStreamId(a) : SpatialLayersBitmask(a, s) = SpatialLayersBitmask(a, 0)

RECURSIVE WriteLeb128(_)
WriteLeb128(v) == IF v < 128 THEN <<v>> ELSE <<128 + (v % 128)>> \o WriteLeb128(v \div 128)

\* The numbers of temporal layers, less one, four to a byte from its top.
PackTwoBits(v) ==
    [b \in 1 .. (Len(v) + 3) \div 4 |->
        FoldLeft(LAMBDA acc, k : 4 * acc + (IF k <= Len(v) THEN v[k] ELSE 0), 0,
                 [j \in 1 .. 4 |-> 4 * (b - 1) + j])]

AllocationWrite(a) ==
    LET L == a.layers
        m(s) == SpatialLayersBitmask(a, s)
        top == 64 * a.rtp_stream_index + 16 * MaxRtpStreamId(a)
        masks == IF BitmasksAreTheSame(a) THEN <<top + m(0)>>
                 ELSE <<top, 16 * m(0) + m(1)>>
                      \o (IF MaxRtpStreamId(a) >= 2 THEN <<16 * m(2) + m(3)>> ELSE <<>>)
        rates(l) == FlattenSeq([i \in DOMAIN l.rates |-> WriteLeb128(l.rates[i])])
        size(l) == WriteBE(l.size[1] - 1, 2) \o WriteBE(l.size[2] - 1, 2) \o <<l.size[3]>>
    IN IF L = <<>> THEN <<0>>
       ELSE masks \o PackTwoBits([i \in DOMAIN L |-> Len(L[i].rates) - 1])
                  \o FlattenSeq([i \in DOMAIN L |-> rates(L[i])])
                  \o (IF a.resolved THEN FlattenSeq([i \in DOMAIN L |-> size(L[i])]) ELSE <<>>)

Leb128Size(v) == IF v < 128 THEN 1 ELSE IF v < 128^2 THEN 2 ELSE IF v < 128^3 THEN 3 ELSE 4
AllocationValueSize(a) ==
    LET L == a.layers
        rates(l) == FoldLeft(LAMBDA n, r : n + Leb128Size(r), 0, l.rates)
    IN IF L = <<>> THEN 1
       ELSE (IF BitmasksAreTheSame(a) THEN 1 ELSE IF MaxRtpStreamId(a) >= 2 THEN 3 ELSE 2)
            + ((Len(L) + 3) \div 4)
            + FoldLeft(LAMBDA n, l : n + rates(l), 0, L)
            + (IF a.resolved THEN 5 * Len(L) ELSE 0)

--------------------------------------------------------------------------------
(* Parsing. A reader is the rest of the data and what was read of it; a read     *)
(* past the end, or of more than nine bytes, leaves at = 0.                      *)
ReadLeb128(data, at) ==
    LET ends == {i \in at .. Len(data) : data[i] < 128 /\ i < at + 9} IN
    IF at = 0 \/ ends = {} THEN [at |-> 0, value |-> 0]
    ELSE [at |-> Min(ends) + 1,
          value |-> FoldLeft(LAMBDA acc, b : 128 * acc + (b % 128), 0,
                             Reverse(SubSeq(data, at, Min(ends))))]

MaxRate == 1000000             \* kbps
ReadRates(data, at, n) ==
    FoldLeft(LAMBDA r, i : LET x == ReadLeb128(data, r.at) IN
                           [at |-> IF x.value > MaxRate THEN 0 ELSE x.at, rates |-> Append(r.rates, x.value)],
             [at |-> at, rates |-> <<>>], [i \in 1 .. n |-> i])

ParseBitmasks(data, n) ==
    IF data[1] % 16 # 0 THEN [s \in 1 .. n |-> data[1] % 16]
    ELSE SubSeq(<<data[2] \div 16, data[2] % 16>>
                \o (IF n > 2 THEN <<data[3] \div 16, data[3] % 16>> ELSE <<>>), 1, n)

ParseLayers(data, at, places, count) ==
    LET Read(r, i) ==
            LET x == ReadRates(data, r.at, count[i]) IN
            [at |-> x.at, layers |-> Append(r.layers, Layer(places[i][1], places[i][2], x.rates, NoSize))]
    IN FoldLeft(Read, [at |-> at, layers |-> <<>>], [i \in 1 .. Len(places) |-> i])

AllocationParse(data) ==
    LET n == 1 + ((data[1] \div 16) % 4)
        head == IF data[1] % 16 # 0 THEN 1 ELSE IF n > 2 THEN 3 ELSE 2
        masks == ParseBitmasks(data, n)
        slots == [k \in 1 .. 4 * n |-> <<(k - 1) \div 4, (k - 1) % 4>>]
        places == SelectSeq(slots, LAMBDA p : Bit(masks[p[1] + 1], p[2]) = 1)
        counts == head + Max({1, (Len(places) + 3) \div 4})
        count == [i \in DOMAIN places |->
                     1 + ((data[head + 1 + ((i - 1) \div 4)] \div 4^(3 - ((i - 1) % 4))) % 4)]
        read == ParseLayers(data, counts + 1, places, count)
        size(i) == LET o == read.at - 1 + 5 * (i - 1) IN
                   <<1 + ReadBE(data, o, 2), 1 + ReadBE(data, o + 2, 2), data[o + 5]>>
        resolved == read.at # Len(data) + 1
        a == [rtp_stream_index |-> data[1] \div 64, resolved |-> resolved,
              layers |-> [i \in DOMAIN places |->
                             IF resolved THEN [read.layers[i] EXCEPT !.size = size(i)]
                             ELSE read.layers[i]]]
    IN IF data = <<>> THEN Refused
       ELSE IF data = <<0>> THEN Parsed([rtp_stream_index |-> 0, resolved |-> TRUE, layers |-> <<>>])
       ELSE IF Len(data) <= head \/ Len(data) <= counts \/ read.at = 0 THEN Refused
       ELSE IF resolved /\ Len(data) # read.at - 1 + 5 * Len(places) THEN Refused
       ELSE IF AllocationIsValid(a) THEN Parsed(a) ELSE Refused
================================================================================
