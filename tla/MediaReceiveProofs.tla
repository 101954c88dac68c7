--------------------------- MODULE MediaReceiveProofs ---------------------------
(***************************************************************************)
(* Reception, for every size of the sequence number space and every limit: *)
(* the nack list is sound, a packet is asked for once per round trip, and  *)
(* the reception reports are exact.                                        *)
(*                                                                         *)
(* The argument has three layers. Differences of sequence numbers become   *)
(* case distinctions on < (Diff, Step), after which everything is linear.  *)
(* The invariant of the requester (NackInv) relates its list to the        *)
(* numbers received in the half turn before the newest one: without that   *)
(* window a number of the turn before would count as received. The         *)
(* invariant of the statistician (StatInv) adds to the accounts what a     *)
(* statistician is before its first packet, and that a restart leaves      *)
(* something to report. Each method keeps them (Received, Timer, Counters, *)
(* Reported), whatever sources a report names and in whatever order the    *)
(* numbers of a NACK are sent.                                             *)
(***************************************************************************)
EXTENDS MediaReceive, FiniteSetTheorems, SequenceTheorems, TLAPS

--------------------------------------------------------------------------------
(* Sequence numbers. *)

Half == SeqSpace \div 2

LEMMA HalfTurn == Half \in Nat /\ 2 * Half = SeqSpace
  BY SeqSpaceAssumption DEF Half

(* A number of the space is its own residue, also a turn ahead or behind. *)
LEMMA Residue ==
    /\ \A x \in Int : x % SeqSpace \in SeqNums
    /\ \A x \in SeqNums : /\ x % SeqSpace = x
                          /\ (x + SeqSpace) % SeqSpace = x
                          /\ (x - SeqSpace) % SeqSpace = x
  BY SeqSpaceAssumption DEF SeqNums

(* The difference of two numbers without the modulus. *)
LEMMA Diff ==
  ASSUME NEW a \in SeqNums, NEW b \in SeqNums
  PROVE  /\ ForwardDiff(a, b) = IF a <= b THEN b - a ELSE b - a + SeqSpace
         /\ ForwardDiff(a, b) \in SeqNums
  BY SeqSpaceAssumption DEF SeqNums, ForwardDiff

(* No number is ahead of itself. *)
LEMMA NoDiff ==
  ASSUME NEW a \in SeqNums
  PROVE  ForwardDiff(a, a) = 0 /\ ~ AheadOf(a, a)
  <1>1. ForwardDiff(a, a) = 0
    BY Diff, SeqSpaceAssumption DEF SeqNums
  <1> QED
    BY <1>1, SeqSpaceAssumption DEF AheadOf, SeqNums

(* A set of naturals has a least element: what CHOOSE picks exists. *)
LEMMA Least ==
  ASSUME NEW S \in SUBSET Nat, S # {}
  PROVE  \E x \in S : \A y \in S : x <= y
  <1> DEFINE R == {ss \in Nat \X Nat : ss[1] < ss[2]}
  <1>1. R = OpToRel(<, Nat)
    BY DEF OpToRel
  <1>2. IsWellFoundedOn(R, Nat)
    BY <1>1, NatLessThanWellFounded
  <1> HIDE DEF R
  <1>3. PICK x \in S : \A y \in S : ~ (<<y, x>> \in R)
    BY <1>2, WFMin
  <1>4. \A y \in S : x <= y
    <2> TAKE y \in S
    <2>1. ~ (<<y, x>> \in R) /\ x \in Nat /\ y \in Nat
      BY <1>3
    <2>2. ~ (y < x)
      BY <2>1 DEF R
    <2> QED
      BY <2>1, <2>2
  <1> QED
    BY <1>4

(* Going o steps from a number leads o steps ahead of it or -o steps behind. *)
LEMMA Step ==
  ASSUME NEW a \in SeqNums, NEW o \in (1 - Half) .. (Half - 1)
  PROVE  LET b == (a + o) % SeqSpace IN
         /\ b \in SeqNums
         /\ o >= 0 => ForwardDiff(a, b) = o
         /\ o <= 0 => ForwardDiff(b, a) = -o
  <1> DEFINE b == (a + o) % SeqSpace
  <1>1. b = IF a + o < 0 THEN a + o + SeqSpace
            ELSE IF a + o < SeqSpace THEN a + o ELSE a + o - SeqSpace
    <2>1. CASE a + o < 0
      <3>1. a + o + SeqSpace \in SeqNums
        BY <2>1, HalfTurn, SeqSpaceAssumption DEF SeqNums
      <3>2. ((a + o + SeqSpace) - SeqSpace) % SeqSpace = a + o + SeqSpace
        BY <3>1, Residue
      <3>3. (a + o + SeqSpace) - SeqSpace = a + o
        BY HalfTurn, SeqSpaceAssumption DEF SeqNums
      <3> QED
        BY <2>1, <3>2, <3>3
    <2>2. CASE a + o >= 0 /\ a + o < SeqSpace
      <3>1. a + o \in SeqNums
        BY <2>2, HalfTurn, SeqSpaceAssumption DEF SeqNums
      <3> QED
        BY <2>2, <3>1, Residue, HalfTurn, SeqSpaceAssumption DEF SeqNums
    <2>3. CASE a + o >= SeqSpace
      <3>1. a + o - SeqSpace \in SeqNums
        BY <2>3, HalfTurn, SeqSpaceAssumption DEF SeqNums
      <3>2. ((a + o - SeqSpace) + SeqSpace) % SeqSpace = a + o - SeqSpace
        BY <3>1, Residue
      <3>3. (a + o - SeqSpace) + SeqSpace = a + o
        BY HalfTurn, SeqSpaceAssumption DEF SeqNums
      <3>4. ~ (a + o < 0) /\ ~ (a + o < SeqSpace)
        BY <2>3, HalfTurn, SeqSpaceAssumption DEF SeqNums
      <3> QED
        BY <3>2, <3>3, <3>4
    <2> QED
      BY <2>1, <2>2, <2>3, HalfTurn, SeqSpaceAssumption DEF SeqNums
  <1>2. b \in SeqNums
    BY Residue, HalfTurn DEF SeqNums
  <1> HIDE DEF b
  <1>3. /\ ForwardDiff(a, b) = IF a <= b THEN b - a ELSE b - a + SeqSpace
        /\ ForwardDiff(b, a) = IF b <= a THEN a - b ELSE a - b + SeqSpace
    BY <1>2, Diff
  <1>4. /\ o >= 0 => ForwardDiff(a, b) = o
        /\ o <= 0 => ForwardDiff(b, a) = -o
    BY <1>1, <1>3, HalfTurn, SeqSpaceAssumption DEF SeqNums
  <1> QED
    BY <1>2, <1>4 DEF b

--------------------------------------------------------------------------------
(* NackRequester. *)

Info == [send_at_seq_num : SeqNums, since : {None} \cup 0 .. (Rtt + 1),
         retries : 0 .. (MaxNackRetries - 1)]

\* A nack_list_: packets with what is known of their requests.
NackList(f) ==
    /\ DOMAIN f \subseteq SeqNums
    /\ f = [s \in DOMAIN f |-> f[s]]
    /\ \A s \in DOMAIN f : f[s] \in Info

HistogramType(h) ==
    /\ h \in [values : Seq(0 .. (NumBuckets - 1)), index : Nat]
    /\ h.index <= Len(h.values)

NackLists == UNION {[S -> Info] : S \in SUBSET SeqNums}

Histograms == {h \in [values : Seq(0 .. (NumBuckets - 1)), index : Nat] : HistogramType(h)}

Requesters ==
    [initialized_ : BOOLEAN, newest_seq_num_ : SeqNums, nack_list_ : NackLists,
     keyframe_list_ : SUBSET SeqNums, reordering_histogram_ : Histograms]

LEMMA NackListIff ==
  ASSUME NEW f
  PROVE  f \in NackLists <=> NackList(f)
  <1>1. ASSUME f \in NackLists PROVE NackList(f)
    <2>1. PICK S \in SUBSET SeqNums : f \in [S -> Info]
      BY <1>1 DEF NackLists
    <2> QED
      BY <2>1 DEF NackList
  <1>2. ASSUME NackList(f) PROVE f \in NackLists
    <2>1. DOMAIN f \in SUBSET SeqNums /\ f \in [DOMAIN f -> Info]
      BY <1>2 DEF NackList
    <2> QED
      BY <2>1 DEF NackLists
  <1> QED
    BY <1>1, <1>2

\* The numbers of g are among those of f, and the same is known of them.
Part(g, f) ==
    /\ NackList(g)
    /\ DOMAIN g \subseteq DOMAIN f
    /\ \A s \in DOMAIN g : g[s] = f[s]

LEMMA KeepPart ==
  ASSUME NEW f, NackList(f), NEW S
  PROVE  Part(Keep(f, S), f) /\ DOMAIN Keep(f, S) = DOMAIN f \cap S
  BY DEF NackList, Part, Keep

LEMMA PartTransitive ==
  ASSUME NEW f, NEW g, NEW h, Part(h, g), Part(g, f)
  PROVE  Part(h, f)
  BY DEF Part

LEMMA EmptyPart ==
  ASSUME NEW f
  PROVE  Part(<<>>, f) /\ DOMAIN <<>> = {}
  BY DEF Part, NackList

(* A nack list is finite, and one that is part of another is no longer. *)
LEMMA ListFinite ==
  ASSUME NEW f, NackList(f)
  PROVE  IsFiniteSet(DOMAIN f) /\ Cardinality(DOMAIN f) \in Nat
  <1>1. IsFiniteSet(SeqNums)
    BY FS_Interval, SeqSpaceAssumption DEF SeqNums
  <1>2. DOMAIN f \in SUBSET SeqNums
    BY DEF NackList
  <1>3. IsFiniteSet(DOMAIN f)
    BY <1>1, <1>2, FS_Subset
  <1> QED
    BY <1>3, FS_CardinalityType

LEMMA PartShorter ==
  ASSUME NEW f, NackList(f), NEW g, Part(g, f)
  PROVE  Cardinality(DOMAIN g) \in Nat /\ Cardinality(DOMAIN g) <= Cardinality(DOMAIN f)
  <1>1. DOMAIN g \in SUBSET DOMAIN f
    BY DEF Part
  <1>2. NackList(g)
    BY DEF Part
  <1> QED
    BY <1>1, <1>2, ListFinite, FS_Subset

(* The histogram: a sample goes to one of its buckets, and the median is one   *)
(* of them or their number.                                                    *)
LEMMA HistogramAddType ==
  ASSUME NEW h, HistogramType(h), NEW value \in Nat
  PROVE  HistogramType(HistogramAdd(h, value))
  <1> DEFINE v == IF value < NumBuckets THEN value ELSE NumBuckets - 1
             w == IF h.index < Len(h.values) THEN [h.values EXCEPT ![h.index + 1] = v]
                  ELSE Append(h.values, v)
  <1>1. v \in 0 .. (NumBuckets - 1)
    BY NackAssumption
  <1>2. h.values \in Seq(0 .. (NumBuckets - 1)) /\ h.index \in Nat /\ h.index <= Len(h.values)
    BY DEF HistogramType
  <1> HIDE DEF v
  <1>3. w \in Seq(0 .. (NumBuckets - 1)) /\ Len(w) >= h.index + 1
    <2>1. CASE h.index < Len(h.values)
      <3>1. w = [h.values EXCEPT ![h.index + 1] = v]
        BY <2>1
      <3>2. h.index + 1 \in 1 .. Len(h.values)
        BY <1>2, <2>1
      <3>3. Len([h.values EXCEPT ![h.index + 1] = v]) = Len(h.values)
        BY <1>2
      <3>4. [h.values EXCEPT ![h.index + 1] = v] \in Seq(0 .. (NumBuckets - 1))
        BY <1>1, <1>2, <3>2
      <3> QED
        BY <1>2, <2>1, <3>1, <3>3, <3>4
    <2>2. CASE ~ (h.index < Len(h.values))
      <3>1. w = Append(h.values, v)
        BY <2>2
      <3> QED
        BY <1>1, <1>2, <2>2, <3>1
    <2> QED
      BY <2>1, <2>2
  <1>4. (h.index + 1) % MaxReordering \in Nat /\ (h.index + 1) % MaxReordering <= h.index + 1
    <2>1. MaxReordering \in Nat /\ MaxReordering > 0
      BY NackAssumption
    <2> QED
      BY <1>2, <2>1
  <1>5. HistogramAdd(h, value) = [values |-> w, index |-> (h.index + 1) % MaxReordering]
    BY DEF HistogramAdd, v
  <1> HIDE DEF w
  <1>6. (h.index + 1) % MaxReordering <= Len(w) /\ Len(w) \in Nat
    BY <1>2, <1>3, <1>4
  <1> QED
    BY <1>3, <1>4, <1>5, <1>6 DEF HistogramType

LEMMA MedianType ==
  ASSUME NEW h, HistogramType(h)
  PROVE  InverseCdfHalf(h) \in 0 .. NumBuckets
  <1> DEFINE below(b) == Cardinality({i \in DOMAIN h.values : h.values[i] < b})
             enough == {b \in 0 .. NumBuckets : 2 * below(b) >= Len(h.values)}
  <1>1. h.values \in Seq(0 .. (NumBuckets - 1)) /\ NumBuckets \in Nat /\ NumBuckets > 0
    BY NackAssumption DEF HistogramType
  <1>2. {i \in DOMAIN h.values : h.values[i] < NumBuckets} = 1 .. Len(h.values)
    BY <1>1
  <1>3. below(NumBuckets) = Len(h.values)
    <2>1. Len(h.values) \in Nat
      BY <1>1
    <2>2. Cardinality(1 .. Len(h.values)) = Len(h.values)
      BY <2>1, FS_Interval
    <2> QED
      BY <1>2, <2>2
  <1>4. NumBuckets \in enough
    BY <1>1, <1>3
  <1>5. enough \subseteq 0 .. NumBuckets
    OBVIOUS
  <1>6. InverseCdfHalf(h) = CHOOSE b \in enough : \A c \in enough : b <= c
    BY DEF InverseCdfHalf
  <1> HIDE DEF enough
  <1>7. \E b \in enough : \A c \in enough : b <= c
    <2>1. enough \in SUBSET Nat /\ enough # {}
      BY <1>1, <1>4, <1>5
    <2> QED
      BY <2>1, Least
  <1> QED
    BY <1>5, <1>6, <1>7

LEMMA WaitType ==
  ASSUME NEW n \in Requesters
  PROVE  WaitNumberOfPackets(n) \in Nat
  BY MedianType, NackAssumption DEF WaitNumberOfPackets, Requesters, Histograms

\* n is m but for its two lists, of which some may have been given up.
Trimmed(n, m) ==
    /\ n \in Requesters
    /\ n.initialized_ = m.initialized_
    /\ n.newest_seq_num_ = m.newest_seq_num_
    /\ n.reordering_histogram_ = m.reordering_histogram_
    /\ Part(n.nack_list_, m.nack_list_)

\* n is m with the nack list f.
Relisted(n, m, f) ==
    /\ n \in Requesters
    /\ n.initialized_ = m.initialized_
    /\ n.newest_seq_num_ = m.newest_seq_num_
    /\ n.reordering_histogram_ = m.reordering_histogram_
    /\ n.nack_list_ = f

LEMMA SetLists ==
  ASSUME NEW n \in Requesters, NEW f, NackList(f), NEW K \in SUBSET SeqNums
  PROVE  Relisted([n EXCEPT !.nack_list_ = f, !.keyframe_list_ = K], n, f)
  BY NackListIff DEF Requesters, Relisted

LEMMA SetNackList ==
  ASSUME NEW n \in Requesters, NEW f, NackList(f)
  PROVE  Relisted([n EXCEPT !.nack_list_ = f], n, f)
  BY NackListIff DEF Requesters, Relisted

(* RemovePacketsUntilKeyFrame only gives up packets. *)
LEMMA MakeRoomTrims ==
  ASSUME NEW n \in Requesters, NEW new
  PROVE  Trimmed(MakeRoom(n, new), n)
  <1> DEFINE missing == DOMAIN n.nack_list_
             after(k) == NotOlder(missing, k)
             fits == {k \in n.keyframe_list_ : /\ after(k) # missing
                                               /\ Cardinality(after(k)) + new <= MaxNackPackets}
             oldest == CHOOSE k \in fits : \A j \in fits : ~ AheadOf(k, j)
             rest == NotOlder(n.keyframe_list_, oldest)
  <1>1. NackList(n.nack_list_) /\ n.keyframe_list_ \in SUBSET SeqNums
    BY NackListIff DEF Requesters
  <1>2. CASE fits = {}
    <2>1. MakeRoom(n, new) = [n EXCEPT !.keyframe_list_ = {}]
      BY <1>2 DEF MakeRoom
    <2>2. {} \in SUBSET SeqNums
      OBVIOUS
    <2> HIDE DEF fits
    <2>3. /\ MakeRoom(n, new) \in Requesters
          /\ MakeRoom(n, new).initialized_ = n.initialized_
          /\ MakeRoom(n, new).newest_seq_num_ = n.newest_seq_num_
          /\ MakeRoom(n, new).reordering_histogram_ = n.reordering_histogram_
          /\ MakeRoom(n, new).nack_list_ = n.nack_list_
      BY <2>1, <2>2 DEF Requesters
    <2> QED
      BY <1>1, <2>3 DEF Trimmed, Part
  <1>3. CASE fits # {}
    <2>1. MakeRoom(n, new) = [n EXCEPT !.nack_list_ = Keep(n.nack_list_, after(oldest)),
                                       !.keyframe_list_ = rest]
      BY <1>3 DEF MakeRoom
    <2> HIDE DEF oldest, fits
    <2>2. Part(Keep(n.nack_list_, after(oldest)), n.nack_list_)
      BY <1>1, KeepPart
    <2>3. NackList(Keep(n.nack_list_, after(oldest)))
      BY <2>2 DEF Part
    <2>4. rest \in SUBSET SeqNums
      BY <1>1 DEF NotOlder
    <2> HIDE DEF rest, after
    <2>5. Relisted(MakeRoom(n, new), n, Keep(n.nack_list_, after(oldest)))
      BY <2>1, <2>3, <2>4, SetLists
    <2> QED
      BY <2>2, <2>5 DEF Trimmed, Relisted
  <1> QED
    BY <1>2, <1>3

(* The numbers from start up to end are as many as their difference says. *)
LEMMA GapSize ==
  ASSUME NEW start \in SeqNums, NEW new \in SeqNums
  PROVE  LET gap == {s \in SeqNums : ForwardDiff(start, s) < new} IN
         IsFiniteSet(gap) /\ Cardinality(gap) <= new /\ Cardinality(gap) \in Nat
  <1> DEFINE gap == {s \in SeqNums : ForwardDiff(start, s) < new}
             at(i) == IF start + i < SeqSpace THEN start + i ELSE start + i - SeqSpace
             f == [i \in 0 .. (new - 1) |-> at(i)]
  <1>1. ASSUME NEW i \in 0 .. (new - 1)
        PROVE  at(i) \in gap
    <2>1. at(i) \in SeqNums
      BY SeqSpaceAssumption DEF SeqNums
    <2>2. ForwardDiff(start, at(i)) = IF start <= at(i) THEN at(i) - start ELSE at(i) - start + SeqSpace
      BY <2>1, Diff
    <2>3. ForwardDiff(start, at(i)) = i
      BY <2>2, SeqSpaceAssumption DEF SeqNums
    <2> QED
      BY <2>1, <2>3, SeqSpaceAssumption DEF SeqNums
  <1>2. ASSUME NEW s \in gap
        PROVE  \E i \in 0 .. (new - 1) : at(i) = s
    <2> DEFINE i == ForwardDiff(start, s)
    <2>1. /\ i = IF start <= s THEN s - start ELSE s - start + SeqSpace
          /\ i \in SeqNums /\ i < new /\ s \in SeqNums
      BY Diff
    <2> HIDE DEF i
    <2>2. i \in 0 .. (new - 1) /\ at(i) = s
      BY <2>1, SeqSpaceAssumption DEF SeqNums
    <2> QED
      BY <2>2
  <1> HIDE DEF at, gap
  <1>3. f \in Surjection(0 .. (new - 1), gap)
    BY <1>1, <1>2 DEF Surjection
  <1>4. new \in Int /\ new >= 0 /\ new - 1 \in Int
    BY SeqSpaceAssumption DEF SeqNums
  <1>5. IsFiniteSet(0 .. (new - 1)) /\ Cardinality(0 .. (new - 1)) = new
    <2>1. /\ IsFiniteSet(0 .. (new - 1))
          /\ Cardinality(0 .. (new - 1)) = IF 0 > new - 1 THEN 0 ELSE (new - 1) - 0 + 1
      BY <1>4, FS_Interval
    <2>2. (IF 0 > new - 1 THEN 0 ELSE (new - 1) - 0 + 1) = new
      BY <1>4
    <2> QED
      BY <2>1, <2>2
  <1> HIDE DEF f
  <1>6. IsFiniteSet(gap) /\ Cardinality(gap) <= Cardinality(0 .. (new - 1))
    BY <1>3, <1>5, FS_Surjection
  <1> QED
    BY <1>5, <1>6, FS_CardinalityType DEF gap

(* What AddPacketsToNack leaves on the list: packets that were on it and are   *)
(* not too old, and those from start up to end; nothing when there is no room. *)
Added(m, n, start, end) ==
    /\ m \in Requesters
    /\ m.initialized_ = n.initialized_
    /\ m.newest_seq_num_ = n.newest_seq_num_
    /\ Cardinality(DOMAIN m.nack_list_) <= MaxNackPackets
    /\ \A s \in DOMAIN m.nack_list_ :
          \/ /\ s \in DOMAIN n.nack_list_ /\ m.nack_list_[s] = n.nack_list_[s]
             /\ ~ AheadOf((end - MaxPacketAge) % SeqSpace, s)
          \/ /\ ForwardDiff(start, s) < ForwardDiff(start, end)
             /\ ForwardDiff(start, end) <= MaxNackPackets

LEMMA AddPackets ==
  ASSUME NEW n \in Requesters, Cardinality(DOMAIN n.nack_list_) <= MaxNackPackets,
         NEW start \in SeqNums, NEW end \in SeqNums
  PROVE  Added(AddPacketsToNack(n, start, end), n, start, end)
  <1> DEFINE bound == (end - MaxPacketAge) % SeqSpace
             young == NotOlder(DOMAIN n.nack_list_, bound)
             kept == Keep(n.nack_list_, young)
             aged == [n EXCEPT !.nack_list_ = kept]
             new == ForwardDiff(start, end)
             full == Cardinality(DOMAIN aged.nack_list_) + new > MaxNackPackets
             roomy == IF full THEN MakeRoom(aged, new) ELSE aged
             gap == {s \in SeqNums : ForwardDiff(start, s) < new}
             wait == WaitNumberOfPackets(n)
             info(s) == [send_at_seq_num |-> (s + wait) % SeqSpace, since |-> None, retries |-> 0]
             list == [s \in DOMAIN roomy.nack_list_ \cup gap |->
                         IF s \in gap THEN info(s) ELSE roomy.nack_list_[s]]
             tooLong == Cardinality(DOMAIN roomy.nack_list_) + new > MaxNackPackets
             m == AddPacketsToNack(n, start, end)
  <1>1. m = IF tooLong THEN [roomy EXCEPT !.nack_list_ = <<>>] ELSE [roomy EXCEPT !.nack_list_ = list]
    BY DEF AddPacketsToNack
  <1>2. new \in SeqNums /\ new \in Nat /\ wait \in Nat
    BY Diff, WaitType, SeqSpaceAssumption DEF SeqNums
  <1>3. NackList(n.nack_list_) /\ MaxNackPackets \in Nat
    BY NackListIff, NackAssumption DEF Requesters
  <1>4. /\ Part(kept, n.nack_list_) /\ NackList(kept)
        /\ \A s \in DOMAIN kept : ~ AheadOf(bound, s)
    <2>1. Part(kept, n.nack_list_) /\ DOMAIN kept = DOMAIN n.nack_list_ \cap young
      BY <1>3, KeepPart
    <2> QED
      BY <2>1 DEF Part, NotOlder
  <1>5. Relisted(aged, n, kept)
    BY <1>4, SetNackList
  <1> HIDE DEF kept, aged, young
  <1>6. Trimmed(roomy, aged)
    <2>1. aged \in Requesters
      BY <1>5 DEF Relisted
    <2>2. CASE full
      BY <2>1, <2>2, MakeRoomTrims
    <2>3. CASE ~ full
      <3>1. NackList(aged.nack_list_)
        BY <2>1, NackListIff DEF Requesters
      <3> QED
        BY <2>1, <2>3, <3>1 DEF Trimmed, Part
    <2> QED
      BY <2>2, <2>3
  <1> HIDE DEF roomy, full
  <1>7. /\ roomy \in Requesters
        /\ roomy.initialized_ = n.initialized_
        /\ roomy.newest_seq_num_ = n.newest_seq_num_
        /\ Part(roomy.nack_list_, kept) /\ NackList(roomy.nack_list_)
    BY <1>5, <1>6 DEF Relisted, Trimmed, Part
  <1>8. Part(roomy.nack_list_, n.nack_list_)
    BY <1>4, <1>7, PartTransitive
  <1>9. \A s \in DOMAIN roomy.nack_list_ :
           /\ s \in DOMAIN n.nack_list_ /\ roomy.nack_list_[s] = n.nack_list_[s]
           /\ ~ AheadOf(bound, s)
    BY <1>4, <1>7, <1>8 DEF Part
  <1>10. CASE tooLong
    <2>1. m = [roomy EXCEPT !.nack_list_ = <<>>]
      BY <1>1, <1>10
    <2>2. NackList(<<>>) /\ DOMAIN <<>> = {}
      BY EmptyPart DEF Part
    <2>3. Relisted(m, roomy, <<>>)
      BY <1>7, <2>1, <2>2, SetNackList
    <2>4. Cardinality({}) = 0
      BY FS_EmptySet
    <2> HIDE DEF m
    <2>5. DOMAIN m.nack_list_ = {} /\ Cardinality(DOMAIN m.nack_list_) <= MaxNackPackets
      BY <1>3, <2>2, <2>3, <2>4 DEF Relisted
    <2>6. m \in Requesters /\ m.initialized_ = n.initialized_ /\ m.newest_seq_num_ = n.newest_seq_num_
      BY <1>7, <2>3 DEF Relisted
    <2> QED
      BY <2>5, <2>6 DEF Added, m
  <1>11. CASE ~ tooLong
    <2>1. m = [roomy EXCEPT !.nack_list_ = list]
      BY <1>1, <1>11
    <2>2. IsFiniteSet(gap) /\ Cardinality(gap) <= new /\ Cardinality(gap) \in Nat
      BY <1>2, GapSize
    <2>3. \A s \in SeqNums : info(s) \in Info
      <3> TAKE s \in SeqNums
      <3>1. (s + wait) % SeqSpace \in SeqNums
        BY <1>2, Residue DEF SeqNums
      <3>2. None \in {None} \cup 0 .. (Rtt + 1) /\ 0 \in 0 .. (MaxNackRetries - 1)
        BY NackAssumption
      <3> QED
        BY <3>1, <3>2 DEF Info
    <2> HIDE DEF info, wait
    <2>4. gap \subseteq SeqNums /\ DOMAIN list = DOMAIN roomy.nack_list_ \cup gap
      OBVIOUS
    <2>5. NackList(list)
      BY <1>7, <2>3, <2>4 DEF NackList
    <2>6. Relisted(m, roomy, list)
      BY <1>7, <2>1, <2>5, SetNackList
    <2>7. Cardinality(DOMAIN list) <= MaxNackPackets
      <3>1. IsFiniteSet(DOMAIN roomy.nack_list_) /\ Cardinality(DOMAIN roomy.nack_list_) \in Nat
        BY <1>7, ListFinite
      <3> HIDE DEF gap, list
      <3>2. Cardinality(DOMAIN roomy.nack_list_ \cup gap) =
               Cardinality(DOMAIN roomy.nack_list_) + Cardinality(gap)
               - Cardinality(DOMAIN roomy.nack_list_ \cap gap)
        BY <2>2, <3>1, FS_Union
      <3>3. Cardinality(DOMAIN roomy.nack_list_ \cap gap) \in Nat
        <4>1. DOMAIN roomy.nack_list_ \cap gap \in SUBSET gap
          OBVIOUS
        <4> QED
          BY <2>2, <4>1, FS_Subset, FS_CardinalityType
      <3> QED
        BY <1>2, <1>3, <1>11, <2>2, <2>4, <3>1, <3>2, <3>3
    <2>8. new <= MaxNackPackets
      <3>1. Cardinality(DOMAIN roomy.nack_list_) \in Nat
        BY <1>7, ListFinite
      <3> QED
        BY <1>2, <1>3, <1>11, <3>1
    <2>9. ASSUME NEW s \in DOMAIN list
          PROVE  \/ /\ s \in DOMAIN n.nack_list_ /\ list[s] = n.nack_list_[s]
                    /\ ~ AheadOf(bound, s)
                 \/ /\ ForwardDiff(start, s) < new
                    /\ new <= MaxNackPackets
      <3>1. CASE s \in gap
        BY <2>8, <3>1
      <3>2. CASE s \notin gap
        BY <1>9, <3>2
      <3> QED
        BY <3>1, <3>2
    <2> HIDE DEF list, m
    <2>10. /\ m \in Requesters
           /\ m.initialized_ = n.initialized_
           /\ m.newest_seq_num_ = n.newest_seq_num_
           /\ m.nack_list_ = list
      BY <1>7, <2>6 DEF Relisted
    <2> QED
      BY <2>7, <2>9, <2>10 DEF Added, m
  <1> QED
    BY <1>10, <1>11

(* GetNackBatch: what is due is counted and stamped, the rest left as it is. *)
Stamped(m, n, batch) ==
    /\ m \in Requesters
    /\ m.initialized_ = n.initialized_
    /\ m.newest_seq_num_ = n.newest_seq_num_
    /\ DOMAIN m.nack_list_ \subseteq DOMAIN n.nack_list_
    /\ \A s \in DOMAIN m.nack_list_ :
          IF s \in batch THEN /\ m.nack_list_[s].since = 0
                              /\ m.nack_list_[s].retries = n.nack_list_[s].retries + 1
          ELSE m.nack_list_[s] = n.nack_list_[s]

LEMMA StampOne ==
  ASSUME NEW i \in Info, ~ (i.retries + 1 >= MaxNackRetries)
  PROVE  /\ Asked(i) \in Info
         /\ Asked(i).since = 0 /\ Asked(i).retries = i.retries + 1
  <1>1. i.retries \in 0 .. (MaxNackRetries - 1) /\ MaxNackRetries \in Nat /\ Rtt \in Nat
    BY NackAssumption DEF Info
  <1>2. i.retries + 1 \in 0 .. (MaxNackRetries - 1) /\ 0 \in {None} \cup 0 .. (Rtt + 1)
    BY <1>1
  <1> QED
    BY <1>2 DEF Info, Asked

LEMMA Batch ==
  ASSUME NEW n \in Requesters, NEW batch \in SUBSET DOMAIN n.nack_list_
  PROVE  Stamped(GetNackBatch(n, batch).n, n, batch) /\ GetNackBatch(n, batch).batch = batch
  <1> DEFINE old == n.nack_list_
             last == {s \in batch : old[s].retries + 1 >= MaxNackRetries}
             list == [s \in DOMAIN old \ last |-> IF s \in batch THEN Asked(old[s]) ELSE old[s]]
             m == GetNackBatch(n, batch).n
  <1>1. m = [n EXCEPT !.nack_list_ = list] /\ GetNackBatch(n, batch).batch = batch
    BY DEF GetNackBatch
  <1>2. NackList(old)
    BY NackListIff DEF Requesters
  <1>3. ASSUME NEW s \in DOMAIN old \ last
        PROVE  /\ list[s] \in Info
               /\ IF s \in batch THEN list[s].since = 0 /\ list[s].retries = old[s].retries + 1
                  ELSE list[s] = old[s]
    <2>1. old[s] \in Info
      BY <1>2 DEF NackList
    <2>2. CASE s \in batch
      <3>1. list[s] = Asked(old[s]) /\ ~ (old[s].retries + 1 >= MaxNackRetries)
        BY <2>2
      <3>2. /\ Asked(old[s]) \in Info /\ Asked(old[s]).since = 0
            /\ Asked(old[s]).retries = old[s].retries + 1
        BY <2>1, <3>1, StampOne
      <3> HIDE DEF list
      <3> QED
        BY <2>2, <3>1, <3>2
    <2>3. CASE s \notin batch
      BY <2>1, <2>3
    <2> QED
      BY <2>2, <2>3
  <1>4. DOMAIN list \subseteq DOMAIN old /\ DOMAIN list = DOMAIN old \ last
    OBVIOUS
  <1>5. list = [s \in DOMAIN list |-> list[s]]
    OBVIOUS
  <1> HIDE DEF list
  <1>6. NackList(list)
    BY <1>2, <1>3, <1>4, <1>5 DEF NackList
  <1>7. Relisted(m, n, list)
    BY <1>1, <1>6, SetNackList
  <1>8. /\ m \in Requesters
        /\ m.initialized_ = n.initialized_
        /\ m.newest_seq_num_ = n.newest_seq_num_
        /\ m.nack_list_ = list
    BY <1>7 DEF Relisted
  <1> HIDE DEF m
  <1>9. Stamped(m, n, batch)
    BY <1>3, <1>4, <1>8 DEF Stamped
  <1> QED
    BY <1>1, <1>9 DEF m

(* A period passes: what was asked for was asked for a period longer ago. *)
LEMMA ElapseType ==
  ASSUME NEW n \in Requesters
  PROVE  LET m == Elapse(n) IN
         /\ m \in Requesters
         /\ m.initialized_ = n.initialized_
         /\ m.newest_seq_num_ = n.newest_seq_num_
         /\ DOMAIN m.nack_list_ = DOMAIN n.nack_list_
         /\ \A s \in DOMAIN n.nack_list_ :
               /\ m.nack_list_[s].retries = n.nack_list_[s].retries
               /\ m.nack_list_[s].since = IF n.nack_list_[s].since \in 0 .. Rtt
                                          THEN n.nack_list_[s].since + 1
                                          ELSE n.nack_list_[s].since
  <1> DEFINE old == n.nack_list_
             up(s) == Aged(old[s])
             list == [s \in DOMAIN old |-> up(s)]
             m == Elapse(n)
  <1>1. m = [n EXCEPT !.nack_list_ = list]
    BY DEF Elapse
  <1>2. NackList(old)
    BY NackListIff DEF Requesters
  <1>3. ASSUME NEW s \in DOMAIN old
        PROVE  /\ up(s) \in Info
               /\ up(s).retries = old[s].retries
               /\ up(s).since = IF old[s].since \in 0 .. Rtt THEN old[s].since + 1 ELSE old[s].since
    <2>1. old[s] \in Info
      BY <1>2 DEF NackList
    <2> DEFINE t == IF old[s].since \in 0 .. Rtt THEN old[s].since + 1 ELSE old[s].since
    <2>2. old[s].since \in {None} \cup 0 .. (Rtt + 1) /\ Rtt \in Nat
      BY <2>1, NackAssumption DEF Info
    <2>3. t \in {None} \cup 0 .. (Rtt + 1)
      BY <2>2
    <2>4. up(s) = [old[s] EXCEPT !.since = t]
      BY DEF Aged
    <2> HIDE DEF t
    <2>5. up(s) \in Info /\ up(s).retries = old[s].retries /\ up(s).since = t
      BY <2>1, <2>3, <2>4 DEF Info
    <2> QED
      BY <2>5 DEF t
  <1>4. DOMAIN list = DOMAIN old /\ \A s \in DOMAIN old : list[s] = up(s)
    OBVIOUS
  <1>5. list = [s \in DOMAIN list |-> list[s]]
    OBVIOUS
  <1> HIDE DEF list, up
  <1>6. NackList(list)
    BY <1>2, <1>3, <1>4, <1>5 DEF NackList
  <1>7. Relisted(m, n, list)
    BY <1>1, <1>6, SetNackList
  <1>8. /\ m \in Requesters
        /\ m.initialized_ = n.initialized_
        /\ m.newest_seq_num_ = n.newest_seq_num_
        /\ m.nack_list_ = list
    BY <1>7 DEF Relisted
  <1> HIDE DEF m
  <1> QED
    BY <1>3, <1>4, <1>8 DEF m

(* The inductive invariant of the requester: its list is sound with respect to *)
(* the packets g received in the half turn before the newest one.              *)
ListSound(n, g) ==
    /\ Cardinality(DOMAIN n.nack_list_) <= MaxNackPackets
    /\ \A s \in DOMAIN n.nack_list_ :
          s \notin g /\ ForwardDiff(s, n.newest_seq_num_) \in 1 .. MaxPacketAge

NackInv(n, g) ==
    /\ n \in Requesters
    /\ g \subseteq SeqNums
    /\ \A s \in g : ForwardDiff(s, n.newest_seq_num_) < Half
    /\ ListSound(n, g)
    /\ ~ n.initialized_ => DOMAIN n.nack_list_ = {} /\ g = {}

\* The history after seq_num was received and the newest number is newest.
Heard(g, seq_num, newest) == {s \in g \cup {seq_num} : ForwardDiff(s, newest) < Half}

\* No request is repeated by going from n to m.
NotRepeated(n, m) ==
    \A s \in DOMAIN n.nack_list_ \cap DOMAIN m.nack_list_ :
        m.nack_list_[s].retries > n.nack_list_[s].retries => n.nack_list_[s].since = None

\* What is asked for was not received.
Unheard(batch, g) == batch \in SUBSET SeqNums /\ batch \cap g = {}

(* Numbers on the list stay where they belong when a newer packet, less than    *)
(* half a turn away, moves the end and those older than MaxPacketAge go.        *)
LEMMA StillYoung ==
  ASSUME NEW w \in SeqNums, NEW e \in SeqNums, NEW s \in SeqNums,
         ForwardDiff(w, e) \in 1 .. (Half - MaxPacketAge - 1),
         ForwardDiff(s, w) \in 1 .. MaxPacketAge,
         ~ AheadOf((e - MaxPacketAge) % SeqSpace, s)
  PROVE  ForwardDiff(s, e) \in 1 .. MaxPacketAge
  <1> DEFINE b == (e - MaxPacketAge) % SeqSpace
  <1>1. MaxPacketAge \in 1 .. (Half - 1)
    BY NackAssumption DEF Half
  <1>2. b \in SeqNums /\ ForwardDiff(b, e) = MaxPacketAge
    <2> DEFINE o == -MaxPacketAge
    <2>1. o \in (1 - Half) .. (Half - 1) /\ o <= 0 /\ -o = MaxPacketAge /\ e + o = e - MaxPacketAge
      BY <1>1, HalfTurn DEF SeqNums
    <2> HIDE DEF o
    <2>2. (e + o) % SeqSpace \in SeqNums /\ ForwardDiff((e + o) % SeqSpace, e) = -o
      BY <2>1, Step
    <2> QED
      BY <2>1, <2>2
  <1>3. ~ (0 < ForwardDiff(s, b) /\ ForwardDiff(s, b) < Half)
    BY DEF AheadOf, Half
  <1> HIDE DEF b
  <1>4. /\ ForwardDiff(w, e) = IF w <= e THEN e - w ELSE e - w + SeqSpace
        /\ ForwardDiff(s, w) = IF s <= w THEN w - s ELSE w - s + SeqSpace
        /\ ForwardDiff(s, b) = IF s <= b THEN b - s ELSE b - s + SeqSpace
        /\ ForwardDiff(b, e) = IF b <= e THEN e - b ELSE e - b + SeqSpace
        /\ ForwardDiff(s, e) = IF s <= e THEN e - s ELSE e - s + SeqSpace
    BY <1>2, Diff
  <1>5. ForwardDiff(s, e) = ForwardDiff(s, w) + ForwardDiff(w, e)
    BY <1>1, <1>4, HalfTurn, SeqSpaceAssumption DEF SeqNums
  <1>6. ForwardDiff(s, e) <= MaxPacketAge
    <2> SUFFICES ASSUME ~ (ForwardDiff(s, e) <= MaxPacketAge) PROVE FALSE
      OBVIOUS
    <2>1. ForwardDiff(s, b) = ForwardDiff(s, e) - MaxPacketAge
      BY <1>1, <1>2, <1>4, HalfTurn, SeqSpaceAssumption DEF SeqNums
    <2> QED
      BY <1>1, <1>3, <1>5, <2>1, HalfTurn
  <1> QED
    BY <1>1, <1>5, <1>6, HalfTurn

(* The numbers between the newest and a newer packet lie behind the new one and *)
(* more than half a turn behind the old one.                                    *)
LEMMA InTheGap ==
  ASSUME NEW w \in SeqNums, NEW e \in SeqNums, NEW s \in SeqNums,
         ForwardDiff(w, e) \in 1 .. (Half - MaxPacketAge - 1),
         ForwardDiff((w + 1) % SeqSpace, s) < ForwardDiff((w + 1) % SeqSpace, e)
  PROVE  /\ ForwardDiff(s, e) \in 1 .. ForwardDiff((w + 1) % SeqSpace, e)
         /\ ForwardDiff(s, w) > Half
         /\ s # e
  <1> DEFINE b == (w + 1) % SeqSpace
  <1>1. MaxPacketAge \in 1 .. (Half - 1)
    BY NackAssumption DEF Half
  <1>2. b \in SeqNums /\ ForwardDiff(w, b) = 1
    <2>1. 1 \in (1 - Half) .. (Half - 1) /\ 1 >= 0
      BY <1>1, HalfTurn
    <2> QED
      BY <2>1, Step
  <1> HIDE DEF b
  <1>3. /\ ForwardDiff(w, e) = IF w <= e THEN e - w ELSE e - w + SeqSpace
        /\ ForwardDiff(s, w) = IF s <= w THEN w - s ELSE w - s + SeqSpace
        /\ ForwardDiff(b, s) = IF b <= s THEN s - b ELSE s - b + SeqSpace
        /\ ForwardDiff(b, e) = IF b <= e THEN e - b ELSE e - b + SeqSpace
        /\ ForwardDiff(w, b) = IF w <= b THEN b - w ELSE b - w + SeqSpace
        /\ ForwardDiff(s, e) = IF s <= e THEN e - s ELSE e - s + SeqSpace
    BY <1>2, Diff
  <1>4. ForwardDiff(b, s) < ForwardDiff(b, e)
    BY DEF b
  <1>5. ForwardDiff(b, e) = ForwardDiff(w, e) - 1
    BY <1>1, <1>2, <1>3, HalfTurn, SeqSpaceAssumption DEF SeqNums
  <1>6. ForwardDiff(s, e) = ForwardDiff(b, e) - ForwardDiff(b, s)
    BY <1>2, <1>3, <1>4, SeqSpaceAssumption DEF SeqNums
  <1>7. ForwardDiff(b, s) \in 0 .. (SeqSpace - 1) /\ ForwardDiff(b, e) \in 0 .. (SeqSpace - 1)
    BY <1>2, Diff DEF SeqNums
  <1>8. ForwardDiff(s, e) \in 1 .. ForwardDiff(b, e)
    BY <1>4, <1>6, <1>7, SeqSpaceAssumption
  <1>9. ForwardDiff(s, w) = SeqSpace - 1 - ForwardDiff(b, s)
    BY <1>2, <1>3, <1>4, SeqSpaceAssumption DEF SeqNums
  <1>10. ForwardDiff(s, w) > Half
    BY <1>1, <1>4, <1>5, <1>7, <1>9, HalfTurn
  <1>11. s # e
    BY <1>3, <1>8, SeqSpaceAssumption DEF SeqNums
  <1> QED
    BY <1>8, <1>10, <1>11 DEF b

(* A newer packet: what was on the list and is not too old stays as it is, what *)
(* lies between is added, and nothing of it has been received.                  *)
LEMMA NewPacket ==
  ASSUME NEW n, NEW g, NackInv(n, g), NEW seq_num \in SeqNums, NEW key \in BOOLEAN,
         ForwardDiff(n.newest_seq_num_, seq_num) \in 1 .. (Half - MaxPacketAge - 1)
  PROVE  LET m == OnNewPacket(n, seq_num, key) IN
         /\ m \in Requesters
         /\ m.initialized_ = n.initialized_ /\ m.newest_seq_num_ = seq_num
         /\ ListSound(m, Heard(g, seq_num, seq_num))
         /\ \A s \in DOMAIN n.nack_list_ \cap DOMAIN m.nack_list_ :
               m.nack_list_[s] = n.nack_list_[s]
  <1> DEFINE w == n.newest_seq_num_
             keys == n.keyframe_list_ \cup (IF key THEN {seq_num} ELSE {})
             K == NotOlder(keys, (seq_num - MaxPacketAge) % SeqSpace)
             kept == [n EXCEPT !.keyframe_list_ = K]
             start == (w + 1) % SeqSpace
             a == AddPacketsToNack(kept, start, seq_num)
             m == OnNewPacket(n, seq_num, key)
  <1>1. m = [a EXCEPT !.newest_seq_num_ = seq_num]
    BY DEF OnNewPacket
  <1>2. n \in Requesters /\ w \in SeqNums
    BY DEF NackInv, Requesters
  <1>3. K \in SUBSET SeqNums
    BY <1>2 DEF NotOlder, Requesters
  <1> HIDE DEF K
  <1>4. /\ kept \in Requesters /\ kept.nack_list_ = n.nack_list_
        /\ kept.initialized_ = n.initialized_ /\ kept.newest_seq_num_ = w
    BY <1>2, <1>3 DEF Requesters
  <1> HIDE DEF kept
  <1>5. start \in SeqNums
    BY <1>2, Residue DEF SeqNums
  <1>6. Cardinality(DOMAIN kept.nack_list_) <= MaxNackPackets
    BY <1>4 DEF NackInv, ListSound
  <1>7. Added(a, kept, start, seq_num)
    BY <1>4, <1>5, <1>6, AddPackets
  <1> HIDE DEF a
  <1>8. a \in Requesters /\ a.initialized_ = n.initialized_
    BY <1>4, <1>7 DEF Added
  <1>9. /\ m \in Requesters /\ m.newest_seq_num_ = seq_num
        /\ m.initialized_ = n.initialized_ /\ m.nack_list_ = a.nack_list_
    BY <1>1, <1>8 DEF Requesters
  <1> HIDE DEF m
  <1>10. DOMAIN m.nack_list_ \subseteq SeqNums /\ DOMAIN n.nack_list_ \subseteq SeqNums
    <2>1. NackList(m.nack_list_) /\ NackList(n.nack_list_)
      BY <1>2, <1>9, NackListIff DEF Requesters
    <2> QED
      BY <2>1 DEF NackList
  <1>11. ASSUME NEW s \in DOMAIN m.nack_list_
         PROVE  \/ /\ s \in DOMAIN n.nack_list_ /\ m.nack_list_[s] = n.nack_list_[s]
                   /\ ~ AheadOf((seq_num - MaxPacketAge) % SeqSpace, s)
                \/ /\ ForwardDiff(start, s) < ForwardDiff(start, seq_num)
                   /\ ForwardDiff(start, seq_num) <= MaxNackPackets
    BY <1>4, <1>7, <1>9 DEF Added
  <1>12. MaxPacketAge \in 1 .. (Half - 1) /\ MaxNackPackets \in Nat /\ MaxNackPackets <= MaxPacketAge
    BY NackAssumption DEF Half
  <1>13. ASSUME NEW s \in DOMAIN m.nack_list_
         PROVE  /\ ForwardDiff(s, seq_num) \in 1 .. MaxPacketAge
                /\ s \notin g
                /\ s \in DOMAIN n.nack_list_ => m.nack_list_[s] = n.nack_list_[s]
    <2>1. s \in SeqNums
      BY <1>10
    <2>2. CASE /\ s \in DOMAIN n.nack_list_ /\ m.nack_list_[s] = n.nack_list_[s]
               /\ ~ AheadOf((seq_num - MaxPacketAge) % SeqSpace, s)
      <3>1. s \notin g /\ ForwardDiff(s, w) \in 1 .. MaxPacketAge
        BY <2>2 DEF NackInv, ListSound
      <3>2. ForwardDiff(s, seq_num) \in 1 .. MaxPacketAge
        BY <1>2, <2>1, <2>2, <3>1, StillYoung
      <3> QED
        BY <2>2, <3>1, <3>2
    <2>3. CASE /\ ForwardDiff(start, s) < ForwardDiff(start, seq_num)
               /\ ForwardDiff(start, seq_num) <= MaxNackPackets
      <3>1. /\ ForwardDiff(s, seq_num) \in 1 .. ForwardDiff(start, seq_num)
            /\ ForwardDiff(s, w) > Half
        BY <1>2, <2>1, <2>3, InTheGap
      <3>2. ForwardDiff(start, seq_num) \in Nat /\ ForwardDiff(s, w) \in Nat
        <4>1. ForwardDiff(start, seq_num) \in SeqNums /\ ForwardDiff(s, w) \in SeqNums
          BY <1>2, <1>5, <2>1, Diff
        <4> QED
          BY <4>1, SeqSpaceAssumption DEF SeqNums
      <3>3. ForwardDiff(s, seq_num) \in 1 .. MaxPacketAge
        BY <1>12, <2>3, <3>1, <3>2
      <3>4. s \notin g
        <4> SUFFICES ASSUME s \in g PROVE FALSE
          OBVIOUS
        <4>1. ForwardDiff(s, w) < Half
          BY DEF NackInv
        <4> QED
          BY <3>1, <3>2, <4>1, HalfTurn
      <3>5. s \notin DOMAIN n.nack_list_
        <4> SUFFICES ASSUME s \in DOMAIN n.nack_list_ PROVE FALSE
          OBVIOUS
        <4>1. ForwardDiff(s, w) \in 1 .. MaxPacketAge
          BY DEF NackInv, ListSound
        <4> QED
          BY <1>12, <3>1, <3>2, <4>1, HalfTurn
      <3> QED
        BY <3>3, <3>4, <3>5
    <2> QED
      BY <1>11, <2>2, <2>3
  <1>14. ForwardDiff(seq_num, seq_num) = 0
    BY NoDiff
  <1>15. \A s \in DOMAIN m.nack_list_ : s # seq_num
    BY <1>12, <1>13, <1>14
  <1>16. Cardinality(DOMAIN m.nack_list_) <= MaxNackPackets
    BY <1>7, <1>9 DEF Added
  <1>17. ListSound(m, Heard(g, seq_num, seq_num))
    BY <1>9, <1>13, <1>15, <1>16 DEF ListSound, Heard
  <1> QED
    BY <1>9, <1>13, <1>17 DEF m

(* A list that is part of a sound one is sound. *)
LEMMA PartSound ==
  ASSUME NEW n, NEW m, NEW g, ListSound(n, g), n \in Requesters, m \in Requesters,
         DOMAIN m.nack_list_ \subseteq DOMAIN n.nack_list_,
         m.newest_seq_num_ = n.newest_seq_num_
  PROVE  ListSound(m, g)
  <1>1. NackList(n.nack_list_)
    BY NackListIff DEF Requesters
  <1>2. IsFiniteSet(DOMAIN n.nack_list_) /\ DOMAIN m.nack_list_ \in SUBSET DOMAIN n.nack_list_
    BY <1>1, ListFinite
  <1>3. /\ Cardinality(DOMAIN m.nack_list_) <= Cardinality(DOMAIN n.nack_list_)
        /\ Cardinality(DOMAIN m.nack_list_) \in Nat /\ Cardinality(DOMAIN n.nack_list_) \in Nat
    BY <1>2, FS_Subset, FS_CardinalityType
  <1>4. MaxNackPackets \in Nat /\ Cardinality(DOMAIN n.nack_list_) <= MaxNackPackets
    BY NackAssumption DEF ListSound
  <1>5. Cardinality(DOMAIN m.nack_list_) <= MaxNackPackets
    BY <1>3, <1>4
  <1> QED
    BY <1>5 DEF ListSound

LEMMA HeardWindow ==
  ASSUME NEW g \in SUBSET SeqNums, NEW seq_num \in SeqNums, NEW newest
  PROVE  /\ Heard(g, seq_num, newest) \subseteq SeqNums
         /\ \A s \in Heard(g, seq_num, newest) : ForwardDiff(s, newest) < Half
  BY DEF Heard

(* The video packet seq_num is received; the network brings none from half a   *)
(* turn away.                                                                  *)
Near(n, seq_num) ==
    /\ seq_num \in SeqNums
    /\ n.initialized_ => \E o \in Offsets : seq_num = (n.newest_seq_num_ + o) % SeqSpace

(* OnReceivedPacket keeps the invariant, repeats no request, and asks only for *)
(* packets it did not get.                                                     *)
LEMMA Received ==
  ASSUME NEW n, NEW g, NackInv(n, g), NEW seq_num, Near(n, seq_num), NEW key \in BOOLEAN
  PROVE  LET r == OnReceivedPacket(n, seq_num, key, FALSE) IN
         /\ NackInv(r.n, Heard(g, seq_num, r.n.newest_seq_num_))
         /\ NotRepeated(n, r.n)
         /\ Unheard(r.batch, Heard(g, seq_num, r.n.newest_seq_num_))
  <1> DEFINE r == OnReceivedPacket(n, seq_num, key, FALSE)
             w == n.newest_seq_num_
  <1>1. n \in Requesters /\ w \in SeqNums /\ seq_num \in SeqNums /\ g \in SUBSET SeqNums
    BY DEF NackInv, Requesters, Near
  <1>2. NackList(n.nack_list_)
    BY <1>1, NackListIff DEF Requesters
  <1>3. \A s \in DOMAIN n.nack_list_ : n.nack_list_[s].retries \in Nat
    BY <1>2, NackAssumption DEF NackList, Info
  <1>4. CASE ~ n.initialized_
    <2> DEFINE K == n.keyframe_list_ \cup (IF key THEN {seq_num} ELSE {})
               m == [n EXCEPT !.initialized_ = TRUE, !.newest_seq_num_ = seq_num, !.keyframe_list_ = K]
    <2>1. r.batch = {} /\ r.n = m
      BY <1>4 DEF OnReceivedPacket, FirstPacket
    <2>2. K \in SUBSET SeqNums
      BY <1>1 DEF Requesters
    <2> HIDE DEF K
    <2>3. /\ m \in Requesters /\ m.initialized_ = TRUE /\ m.newest_seq_num_ = seq_num
          /\ m.nack_list_ = n.nack_list_
      BY <1>1, <2>2 DEF Requesters
    <2> HIDE DEF m
    <2>4. DOMAIN n.nack_list_ = {}
      BY <1>4 DEF NackInv
    <2>5. ListSound(m, Heard(g, seq_num, seq_num))
      BY <2>3, <2>4 DEF NackInv, ListSound
    <2>6. NackInv(m, Heard(g, seq_num, seq_num))
      BY <1>1, <2>3, <2>5, HeardWindow DEF NackInv
    <2>7. NotRepeated(n, m)
      BY <2>4 DEF NotRepeated
    <2> HIDE DEF r
    <2> QED
      BY <2>1, <2>3, <2>6, <2>7 DEF r, Unheard
  <1>5. CASE n.initialized_ /\ seq_num = w
    <2>1. r.batch = {} /\ r.n = n
      <3>1. ~ AheadOf(w, seq_num)
        BY <1>1, <1>5, NoDiff
      <3> QED
        BY <1>5, <3>1 DEF OnReceivedPacket
    <2>2. ForwardDiff(w, w) = 0
      BY <1>1, NoDiff
    <2>3. \A s \in DOMAIN n.nack_list_ : s # w
      BY <2>2 DEF NackInv, ListSound
    <2>4. ListSound(n, Heard(g, seq_num, w))
      BY <1>5, <2>3 DEF NackInv, ListSound, Heard
    <2>5. NackInv(n, Heard(g, seq_num, w))
      BY <1>1, <1>5, <2>4, HeardWindow DEF NackInv
    <2>6. NotRepeated(n, n)
      BY <1>3 DEF NotRepeated
    <2> HIDE DEF r
    <2> QED
      BY <2>1, <2>5, <2>6 DEF r, Unheard
  <1>6. CASE n.initialized_ /\ seq_num # w /\ AheadOf(w, seq_num)
    <2> DEFINE h == HistogramAdd(n.reordering_histogram_, ReverseDiff(w, seq_num))
               f == Keep(n.nack_list_, SeqNums \ {seq_num})
               m == [n EXCEPT !.nack_list_ = f, !.reordering_histogram_ = h]
    <2>1. r.batch = {} /\ r.n = m
      BY <1>6 DEF OnReceivedPacket, OnOldPacket
    <2>2. h \in Histograms
      <3>1. ReverseDiff(w, seq_num) \in Nat
        BY <1>1, Residue, SeqSpaceAssumption DEF ReverseDiff, SeqNums
      <3>2. HistogramType(n.reordering_histogram_)
        BY <1>1 DEF Requesters, Histograms
      <3>3. HistogramType(h)
        BY <3>1, <3>2, HistogramAddType
      <3> HIDE DEF h
      <3> QED
        BY <3>3 DEF HistogramType, Histograms
    <2>3. Part(f, n.nack_list_) /\ DOMAIN f = DOMAIN n.nack_list_ \cap (SeqNums \ {seq_num})
      BY <1>2, KeepPart
    <2>4. f \in NackLists
      BY <2>3, NackListIff DEF Part
    <2> HIDE DEF f, h
    <2>5. /\ m \in Requesters /\ m.initialized_ = n.initialized_ /\ m.newest_seq_num_ = w
          /\ m.nack_list_ = f
      BY <1>1, <2>2, <2>4 DEF Requesters
    <2> HIDE DEF m
    <2>6. ListSound(m, g)
      BY <1>1, <2>3, <2>5, PartSound DEF NackInv
    <2>7. ListSound(m, Heard(g, seq_num, w))
      BY <2>3, <2>5, <2>6 DEF ListSound, Heard
    <2>8. NackInv(m, Heard(g, seq_num, w))
      BY <1>1, <1>6, <2>5, <2>7, HeardWindow DEF NackInv
    <2>9. NotRepeated(n, m)
      <3>1. \A s \in DOMAIN m.nack_list_ : m.nack_list_[s] = n.nack_list_[s]
        BY <2>3, <2>5 DEF Part
      <3> QED
        BY <1>3, <3>1 DEF NotRepeated
    <2> HIDE DEF r
    <2> QED
      BY <2>1, <2>5, <2>8, <2>9 DEF r, Unheard
  <1>7. CASE n.initialized_ /\ seq_num # w /\ ~ AheadOf(w, seq_num)
    <2> DEFINE new == OnNewPacket(n, seq_num, key)
               due == DueBySeqNum(new)
    <2>1. r = GetNackBatch(new, due)
      BY <1>7 DEF OnReceivedPacket
    <2>2. ForwardDiff(w, seq_num) \in 1 .. (Half - MaxPacketAge - 1)
      <3>1. PICK o \in Offsets : seq_num = (w + o) % SeqSpace
        BY <1>7 DEF Near
      <3>2. MaxPacketAge \in 1 .. (Half - 1)
        BY NackAssumption DEF Half
      <3>3. o \in (1 - Half) .. (Half - MaxPacketAge - 1)
        BY ReceiveAssumption DEF Half
      <3>4. o \in (1 - Half) .. (Half - 1)
        BY <3>2, <3>3, HalfTurn
      <3>5. /\ o >= 0 => ForwardDiff(w, seq_num) = o
            /\ o <= 0 => ForwardDiff(seq_num, w) = -o
        BY <1>1, <3>1, <3>4, Step
      <3>6. ~ (0 < ForwardDiff(seq_num, w) /\ ForwardDiff(seq_num, w) < Half)
        BY <1>7 DEF AheadOf, Half
      <3>7. /\ ForwardDiff(w, seq_num) = IF w <= seq_num THEN seq_num - w ELSE seq_num - w + SeqSpace
        BY <1>1, Diff
      <3>8. o > 0
        BY <1>1, <1>7, <3>4, <3>5, <3>6, <3>7, HalfTurn, SeqSpaceAssumption DEF SeqNums
      <3> QED
        BY <3>2, <3>3, <3>5, <3>8, HalfTurn
    <2>3. /\ new \in Requesters
          /\ new.initialized_ = n.initialized_ /\ new.newest_seq_num_ = seq_num
          /\ ListSound(new, Heard(g, seq_num, seq_num))
          /\ \A s \in DOMAIN n.nack_list_ \cap DOMAIN new.nack_list_ :
                new.nack_list_[s] = n.nack_list_[s]
      BY <1>1, <2>2, NewPacket
    <2> HIDE DEF new
    <2>4. /\ due \in SUBSET DOMAIN new.nack_list_
          /\ \A s \in due : new.nack_list_[s].since = None
      BY DEF DueBySeqNum
    <2> HIDE DEF due
    <2>5. Stamped(r.n, new, due) /\ r.batch = due
      BY <2>1, <2>3, <2>4, Batch
    <2>10. Unheard(due, Heard(g, seq_num, seq_num))
      <3>1. DOMAIN new.nack_list_ \subseteq SeqNums
        BY <2>3, NackListIff DEF Requesters, NackList
      <3> QED
        BY <2>3, <2>4, <3>1 DEF ListSound, Unheard
    <2> DEFINE m == r.n
    <2> HIDE DEF r
    <2>6. /\ m \in Requesters /\ m.initialized_ = n.initialized_ /\ m.newest_seq_num_ = seq_num
          /\ DOMAIN m.nack_list_ \subseteq DOMAIN new.nack_list_
      BY <2>3, <2>5 DEF Stamped
    <2>7. ListSound(m, Heard(g, seq_num, seq_num))
      BY <2>3, <2>6, PartSound
    <2>8. NackInv(m, Heard(g, seq_num, seq_num))
      BY <1>1, <1>7, <2>6, <2>7, HeardWindow DEF NackInv
    <2>9. NotRepeated(n, m)
      <3> SUFFICES ASSUME NEW s \in DOMAIN n.nack_list_ \cap DOMAIN m.nack_list_,
                          m.nack_list_[s].retries > n.nack_list_[s].retries
                   PROVE  n.nack_list_[s].since = None
        BY DEF NotRepeated
      <3>1. new.nack_list_[s] = n.nack_list_[s]
        BY <2>3, <2>6
      <3>2. s \in due
        BY <1>3, <2>5, <3>1 DEF Stamped
      <3> QED
        BY <2>4, <3>1, <3>2
    <2> QED
      BY <2>5, <2>6, <2>8, <2>9, <2>10 DEF r
  <1> QED
    BY <1>4, <1>5, <1>6, <1>7

(* The timer: what was not asked for within a round trip is asked for, and      *)
(* nothing else is.                                                             *)
LEMMA Timer ==
  ASSUME NEW n, NEW g, NackInv(n, g)
  PROVE  LET m == ProcessNacks(Elapse(n)).n IN
         /\ NackInv(m, g)
         /\ Unheard(ProcessNacks(Elapse(n)).batch, g)
         /\ \A s \in DOMAIN m.nack_list_ : m.nack_list_[s].since \in 0 .. Rtt
         /\ \A s \in DOMAIN n.nack_list_ \cap DOMAIN m.nack_list_ :
               m.nack_list_[s].retries > n.nack_list_[s].retries =>
                   n.nack_list_[s].since = None \/ n.nack_list_[s].since >= Rtt
  <1> DEFINE e == Elapse(n)
             due == DueByTime(e)
             m == ProcessNacks(e).n
  <1>1. n \in Requesters
    BY DEF NackInv
  <1>2. /\ e \in Requesters
        /\ e.initialized_ = n.initialized_
        /\ e.newest_seq_num_ = n.newest_seq_num_
        /\ DOMAIN e.nack_list_ = DOMAIN n.nack_list_
        /\ \A s \in DOMAIN n.nack_list_ :
              /\ e.nack_list_[s].retries = n.nack_list_[s].retries
              /\ e.nack_list_[s].since = IF n.nack_list_[s].since \in 0 .. Rtt
                                         THEN n.nack_list_[s].since + 1
                                         ELSE n.nack_list_[s].since
    BY <1>1, ElapseType
  <1>3. \A s \in DOMAIN n.nack_list_ :
           /\ n.nack_list_[s].retries \in Nat
           /\ n.nack_list_[s].since \in {None} \cup 0 .. (Rtt + 1)
    <2>1. NackList(n.nack_list_)
      BY <1>1, NackListIff DEF Requesters
    <2> QED
      BY <2>1, NackAssumption DEF NackList, Info
  <1> HIDE DEF e
  <1>4. /\ due \in SUBSET DOMAIN e.nack_list_
        /\ \A s \in DOMAIN e.nack_list_ : s \in due <=> e.nack_list_[s].since \notin 0 .. Rtt
    BY DEF DueByTime
  <1> HIDE DEF due
  <1>5. Stamped(m, e, due) /\ ProcessNacks(e).batch = due
    BY <1>2, <1>4, Batch DEF ProcessNacks, due
  <1>12. Unheard(due, g)
    <2>1. DOMAIN n.nack_list_ \subseteq SeqNums
      BY <1>1, NackListIff DEF Requesters, NackList
    <2> QED
      BY <1>2, <1>4, <2>1 DEF NackInv, ListSound, Unheard
  <1> HIDE DEF m
  <1>6. /\ m \in Requesters /\ m.initialized_ = n.initialized_
        /\ m.newest_seq_num_ = n.newest_seq_num_
        /\ DOMAIN m.nack_list_ \subseteq DOMAIN n.nack_list_
    BY <1>2, <1>5 DEF Stamped
  <1>7. ListSound(m, g)
    BY <1>1, <1>6, PartSound DEF NackInv
  <1>8. NackInv(m, g)
    BY <1>6, <1>7 DEF NackInv
  <1>9. Rtt \in Nat
    BY NackAssumption
  <1>10. ASSUME NEW s \in DOMAIN m.nack_list_
         PROVE  m.nack_list_[s].since \in 0 .. Rtt
    <2>1. CASE s \in due
      BY <1>5, <1>9, <2>1 DEF Stamped
    <2>2. CASE s \notin due
      BY <1>2, <1>4, <1>5, <1>6, <2>2 DEF Stamped
    <2> QED
      BY <2>1, <2>2
  <1>11. ASSUME NEW s \in DOMAIN n.nack_list_ \cap DOMAIN m.nack_list_,
                m.nack_list_[s].retries > n.nack_list_[s].retries
         PROVE  n.nack_list_[s].since = None \/ n.nack_list_[s].since >= Rtt
    <2>1. s \in due
      BY <1>2, <1>3, <1>5, <1>11 DEF Stamped
    <2>2. e.nack_list_[s].since \notin 0 .. Rtt
      BY <1>2, <1>4, <2>1
    <2> QED
      BY <1>2, <1>3, <1>9, <2>2
  <1> QED
    BY <1>5, <1>8, <1>10, <1>11, <1>12 DEF m, e

--------------------------------------------------------------------------------
(* ReceiveStatistics. *)

Stat ==
    [received_seq_first_ : Int, received_seq_max_ : Int, seq_unwrapper_ : Int,
     received_seq_out_of_order_ : Int, cumulative_loss_ : Int,
     cumulative_loss_rtcp_offset_ : Int, last_report_cumulative_loss_ : Int,
     last_report_seq_max_ : Int, transmitted : Int, retransmitted : Int,
     enable_retransmit_detection_ : BOOLEAN, active : BOOLEAN, trapped : BOOLEAN]

\* What UpdateOutOfOrder and what is done before it never touch.
SameBase(t, s) ==
    /\ t.received_seq_first_ = s.received_seq_first_
    /\ t.seq_unwrapper_ = s.seq_unwrapper_
    /\ t.transmitted = s.transmitted
    /\ t.last_report_cumulative_loss_ = s.last_report_cumulative_loss_

SameMax(t, s) ==
    /\ t.received_seq_max_ = s.received_seq_max_
    /\ t.last_report_seq_max_ = s.last_report_seq_max_

PendingOne(s) == IF s.received_seq_out_of_order_ = None THEN 0 ELSE 1

LEMMA Unwrapped ==
  ASSUME NEW last \in Int, NEW value \in Int
  PROVE  Unwrap(last, value) \in Int /\ (last = None => Unwrap(last, value) = value)
  <1>1. last % SeqSpace \in Int
    BY Residue DEF SeqNums
  <1> QED
    BY <1>1, SeqSpaceAssumption DEF Unwrap

LEMMA Retransmit ==
  ASSUME NEW s \in Stat, NEW late \in BOOLEAN
  PROVE  LET t == MaybeRetransmit(s, late) IN
         /\ t \in Stat /\ SameBase(t, s) /\ SameMax(t, s)
         /\ t.cumulative_loss_ = s.cumulative_loss_
         /\ t.received_seq_out_of_order_ = s.received_seq_out_of_order_
  <1>1. CASE ~ s.enable_retransmit_detection_
    BY <1>1 DEF MaybeRetransmit, SameBase, SameMax
  <1>2. CASE s.enable_retransmit_detection_ /\ PayloadTypeFrequency \div 1000 = 0
    BY <1>2 DEF MaybeRetransmit, SameBase, SameMax, Stat
  <1>3. CASE s.enable_retransmit_detection_ /\ PayloadTypeFrequency \div 1000 # 0
    <2> DEFINE c == IF late THEN s.retransmitted + 1 ELSE s.retransmitted
    <2>1. c \in Int
      BY DEF Stat
    <2>2. MaybeRetransmit(s, late) = [s EXCEPT !.retransmitted = c]
      BY <1>3 DEF MaybeRetransmit
    <2> HIDE DEF c
    <2> QED
      BY <2>1, <2>2 DEF SameBase, SameMax, Stat
  <1> QED
    BY <1>1, <1>2, <1>3

\* The second packet of a restarted stream has come.
Jumped(s, seq_num) ==
    /\ s.received_seq_out_of_order_ # None
    /\ seq_num = (s.received_seq_out_of_order_ + 1) % SeqSpace

(* What UpdateOutOfOrder makes of a statistician: the stream restarted, or a    *)
(* packet far from it is remembered, or none is and the packet is in order or   *)
(* late.                                                                        *)
OrderOf(o, s, seq_num, u) ==
    /\ o.s \in Stat /\ SameBase(o.s, s)
    /\ \/ /\ Jumped(s, seq_num) /\ ~ o.out
          /\ o.s.received_seq_max_ = u - 2 /\ o.s.last_report_seq_max_ = u - 2
          /\ o.s.cumulative_loss_ = s.cumulative_loss_ - 1
          /\ o.s.received_seq_out_of_order_ = None
       \/ /\ ~ Jumped(s, seq_num) /\ o.out /\ SameMax(o.s, s)
          /\ o.s.cumulative_loss_ = s.cumulative_loss_ - PendingOne(s) + 1
          /\ o.s.received_seq_out_of_order_ = seq_num
       \/ /\ ~ Jumped(s, seq_num) /\ SameMax(o.s, s)
          /\ ~ o.out => u > s.received_seq_max_
          /\ o.s.cumulative_loss_ = s.cumulative_loss_ - PendingOne(s)
          /\ o.s.received_seq_out_of_order_ = None

LEMMA Order ==
  ASSUME NEW s \in Stat, NEW seq_num \in Int, NEW u \in Int, NEW late \in BOOLEAN
  PROVE  OrderOf(UpdateOutOfOrder(s, seq_num, u, late), s, seq_num, u)
  <1> DEFINE pending == s.received_seq_out_of_order_ # None
             p == IF pending THEN [s EXCEPT !.cumulative_loss_ = @ - 1,
                                            !.received_seq_out_of_order_ = None]
                  ELSE s
             far == Distance(u, p.received_seq_max_) > MaxReorderingThreshold
             o == UpdateOutOfOrder(s, seq_num, u, late)
  <1>1. /\ p \in Stat /\ SameBase(p, s) /\ SameMax(p, s)
        /\ p.cumulative_loss_ = s.cumulative_loss_ - PendingOne(s)
        /\ p.received_seq_out_of_order_ = None
    <2>1. None \in Int /\ s.cumulative_loss_ \in Int /\ s.cumulative_loss_ - 1 \in Int
      BY DEF None, Stat
    <2>2. CASE pending
      <3>1. p = [s EXCEPT !.cumulative_loss_ = s.cumulative_loss_ - 1,
                          !.received_seq_out_of_order_ = None]
        BY <2>2
      <3>2. PendingOne(s) = 1
        BY <2>2 DEF PendingOne
      <3> HIDE DEF p
      <3> QED
        BY <2>1, <3>1, <3>2 DEF Stat, SameBase, SameMax
    <2>3. CASE ~ pending
      <3>1. p = s /\ PendingOne(s) = 0
        BY <2>3 DEF PendingOne
      <3> HIDE DEF p
      <3> QED
        BY <2>1, <2>3, <3>1 DEF SameBase, SameMax
    <2> QED
      BY <2>2, <2>3
  <1>2. o = IF Jumped(s, seq_num) THEN [s |-> Restart(p, u), out |-> FALSE]
            ELSE IF far
            THEN [s |-> [p EXCEPT !.received_seq_out_of_order_ = seq_num, !.cumulative_loss_ = @ + 1],
                  out |-> TRUE]
            ELSE IF u > p.received_seq_max_ THEN [s |-> p, out |-> FALSE]
            ELSE [s |-> MaybeRetransmit(p, late), out |-> TRUE]
    BY DEF UpdateOutOfOrder, Jumped
  <1> HIDE DEF p, far, o
  <1>3. CASE Jumped(s, seq_num)
    <2>1. o.s = [p EXCEPT !.last_report_seq_max_ = u - 2, !.received_seq_max_ = u - 2] /\ ~ o.out
      BY <1>2, <1>3 DEF Restart
    <2>2. u - 2 \in Int /\ PendingOne(s) = 1
      BY <1>3 DEF PendingOne, Jumped
    <2>3. /\ o.s \in Stat /\ SameBase(o.s, p)
          /\ o.s.received_seq_max_ = u - 2 /\ o.s.last_report_seq_max_ = u - 2
          /\ o.s.cumulative_loss_ = p.cumulative_loss_
          /\ o.s.received_seq_out_of_order_ = p.received_seq_out_of_order_
      BY <1>1, <2>1, <2>2 DEF Stat, SameBase
    <2> QED
      BY <1>1, <1>3, <2>1, <2>2, <2>3 DEF OrderOf, SameBase, o
  <1>4. CASE ~ Jumped(s, seq_num) /\ far
    <2>1. /\ o.s = [p EXCEPT !.received_seq_out_of_order_ = seq_num,
                             !.cumulative_loss_ = p.cumulative_loss_ + 1]
          /\ o.out = TRUE
      BY <1>2, <1>4
    <2>2. p.cumulative_loss_ + 1 \in Int
      BY <1>1 DEF Stat
    <2>3. /\ o.s \in Stat /\ SameBase(o.s, p) /\ SameMax(o.s, p)
          /\ o.s.cumulative_loss_ = p.cumulative_loss_ + 1
          /\ o.s.received_seq_out_of_order_ = seq_num
      BY <1>1, <2>1, <2>2 DEF Stat, SameBase, SameMax
    <2> QED
      BY <1>1, <1>4, <2>1, <2>3 DEF OrderOf, SameBase, SameMax, o
  <1>5. CASE ~ Jumped(s, seq_num) /\ ~ far /\ u > p.received_seq_max_
    <2>1. o.s = p /\ o.out = FALSE
      BY <1>2, <1>5
    <2> QED
      BY <1>1, <1>5, <2>1 DEF OrderOf, SameMax, o
  <1>6. CASE ~ Jumped(s, seq_num) /\ ~ far /\ ~ (u > p.received_seq_max_)
    <2>1. o.s = MaybeRetransmit(p, late) /\ o.out = TRUE
      BY <1>2, <1>6
    <2>2. /\ o.s \in Stat /\ SameBase(o.s, p) /\ SameMax(o.s, p)
          /\ o.s.cumulative_loss_ = p.cumulative_loss_
          /\ o.s.received_seq_out_of_order_ = p.received_seq_out_of_order_
      BY <1>1, <2>1, Retransmit
    <2> QED
      BY <1>1, <1>6, <2>1, <2>2 DEF OrderOf, SameBase, SameMax, o
  <1> QED
    BY <1>3, <1>4, <1>5, <1>6

(* The inductive invariant of a statistician: the loss is accounted for, and    *)
(* the report that would be made next fits, unless the stream restarted, in     *)
(* which case something is left to report. Before the first packet all is as it *)
(* was made. k is what restarts have skipped.                                   *)
Fresh(s) ==
    /\ s.received_seq_first_ = None /\ s.received_seq_max_ = None
    /\ s.seq_unwrapper_ = None /\ s.received_seq_out_of_order_ = None
    /\ s.cumulative_loss_ = 0 /\ s.last_report_cumulative_loss_ = 0
    /\ s.last_report_seq_max_ = None /\ s.transmitted = 0

Accounted(s, k) ==
    s.cumulative_loss_ = (s.received_seq_max_ - s.received_seq_first_ + 1) - k
                         - (s.transmitted - PendingOne(s))

Fits(s, again) ==
    /\ ExpectedSinceLast(s) >= 0
    /\ again \/ LostSinceLast(s) <= ExpectedSinceLast(s)
    /\ again => ExpectedSinceLast(s) > 0

StatInv(s, k, again) ==
    /\ s \in Stat /\ k \in Int /\ again \in BOOLEAN
    /\ s.received_seq_first_ >= 0 => Accounted(s, k) /\ Fits(s, again)
    /\ ~ (s.received_seq_first_ >= 0) => Fresh(s) /\ k = 0 /\ ~ again

\* The jump of a restart.
Skipped(t, s, seq_num, k) ==
    IF Jumped(s, seq_num) THEN k + t.received_seq_max_ - 2 - s.received_seq_max_ ELSE k

LEMMA OneMore ==
  ASSUME NEW s \in Stat
  PROVE  LET c == [s EXCEPT !.transmitted = @ + 1, !.cumulative_loss_ = @ - 1] IN
         /\ c \in Stat /\ SameMax(c, s)
         /\ c.received_seq_first_ = s.received_seq_first_
         /\ c.seq_unwrapper_ = s.seq_unwrapper_
         /\ c.transmitted = s.transmitted + 1
         /\ c.last_report_cumulative_loss_ = s.last_report_cumulative_loss_
         /\ c.cumulative_loss_ = s.cumulative_loss_ - 1
         /\ c.received_seq_out_of_order_ = s.received_seq_out_of_order_
  <1> DEFINE x == s.transmitted + 1
             y == s.cumulative_loss_ - 1
  <1>1. x \in Int /\ y \in Int
    BY DEF Stat
  <1> HIDE DEF x, y
  <1>2. LET c == [s EXCEPT !.transmitted = x, !.cumulative_loss_ = y] IN
        /\ c \in Stat /\ SameMax(c, s)
        /\ c.received_seq_first_ = s.received_seq_first_
        /\ c.seq_unwrapper_ = s.seq_unwrapper_
        /\ c.transmitted = x
        /\ c.last_report_cumulative_loss_ = s.last_report_cumulative_loss_
        /\ c.cumulative_loss_ = y
        /\ c.received_seq_out_of_order_ = s.received_seq_out_of_order_
    BY <1>1 DEF Stat, SameMax
  <1> QED
    BY <1>2 DEF x, y

LEMMA CountersType ==
  ASSUME NEW s \in Stat, NEW seq_num \in Int, NEW late \in BOOLEAN
  PROVE  UpdateCounters(s, seq_num, late) \in Stat
  <1> DEFINE u == Unwrap(s.seq_unwrapper_, seq_num)
             c == [s EXCEPT !.transmitted = @ + 1, !.cumulative_loss_ = @ - 1]
             f == [c EXCEPT !.received_seq_first_ = u, !.last_report_seq_max_ = u - 1,
                            !.received_seq_max_ = u - 1]
             o == IF ReceivedRtpPacket(s) THEN UpdateOutOfOrder(c, seq_num, u, late)
                  ELSE [s |-> f, out |-> FALSE]
             up == [o.s EXCEPT !.cumulative_loss_ = @ + (u - o.s.received_seq_max_),
                               !.received_seq_max_ = u, !.seq_unwrapper_ = u, !.active = TRUE]
  <1>1. UpdateCounters(s, seq_num, late) = IF o.out THEN o.s ELSE up
    BY DEF UpdateCounters
  <1>2. u \in Int
    BY Unwrapped DEF Stat
  <1> HIDE DEF u
  <1>3. c \in Stat
    BY OneMore
  <1>4. f \in Stat
    <2>1. u - 1 \in Int
      BY <1>2
    <2> HIDE DEF c
    <2> QED
      BY <1>2, <1>3, <2>1 DEF Stat
  <1> HIDE DEF c, f
  <1>5. o.s \in Stat
    <2>1. CASE ReceivedRtpPacket(s)
      BY <1>2, <1>3, <2>1, Order DEF OrderOf
    <2>2. CASE ~ ReceivedRtpPacket(s)
      BY <1>4, <2>2
    <2> QED
      BY <2>1, <2>2
  <1> HIDE DEF o
  <1>6. up \in Stat
    <2> DEFINE x == o.s.cumulative_loss_ + (u - o.s.received_seq_max_)
    <2>1. x \in Int
      BY <1>2, <1>5 DEF Stat
    <2>2. up = [o.s EXCEPT !.cumulative_loss_ = x, !.received_seq_max_ = u,
                           !.seq_unwrapper_ = u, !.active = TRUE]
      OBVIOUS
    <2> HIDE DEF x, up
    <2> QED
      BY <1>2, <1>5, <2>1, <2>2 DEF Stat
  <1> QED
    BY <1>1, <1>5, <1>6

(* UpdateCounters keeps the accounts; a restart may leave more lost than       *)
(* expected.                                                                   *)
LEMMA Counters ==
  ASSUME NEW s, NEW k, NEW again, StatInv(s, k, again),
         NEW seq_num \in SeqNums, NEW late \in BOOLEAN
  PROVE  LET t == UpdateCounters(s, seq_num, late) IN
         StatInv(t, Skipped(t, s, seq_num, k), again \/ Jumped(s, seq_num))
  <1> DEFINE u == Unwrap(s.seq_unwrapper_, seq_num)
             c == [s EXCEPT !.transmitted = @ + 1, !.cumulative_loss_ = @ - 1]
             f == [c EXCEPT !.received_seq_first_ = u, !.last_report_seq_max_ = u - 1,
                            !.received_seq_max_ = u - 1]
             o == IF ReceivedRtpPacket(s) THEN UpdateOutOfOrder(c, seq_num, u, late)
                  ELSE [s |-> f, out |-> FALSE]
             up == [o.s EXCEPT !.cumulative_loss_ = @ + (u - o.s.received_seq_max_),
                               !.received_seq_max_ = u, !.seq_unwrapper_ = u, !.active = TRUE]
             t == UpdateCounters(s, seq_num, late)
             k2 == Skipped(t, s, seq_num, k)
             b2 == again \/ Jumped(s, seq_num)
  <1>1. t = IF o.out THEN o.s ELSE up
    BY DEF UpdateCounters
  <1>2. s \in Stat /\ k \in Int /\ again \in BOOLEAN /\ seq_num \in Int /\ seq_num >= 0
    BY SeqSpaceAssumption DEF StatInv, SeqNums
  <1>3. u \in Int /\ (s.seq_unwrapper_ = None => u = seq_num)
    BY <1>2, Unwrapped DEF Stat
  <1>4. t \in Stat
    BY <1>2, CountersType
  <1> HIDE DEF u
  <1>5. /\ c \in Stat /\ SameMax(c, s)
        /\ c.received_seq_first_ = s.received_seq_first_
        /\ c.seq_unwrapper_ = s.seq_unwrapper_
        /\ c.transmitted = s.transmitted + 1
        /\ c.last_report_cumulative_loss_ = s.last_report_cumulative_loss_
        /\ c.cumulative_loss_ = s.cumulative_loss_ - 1
        /\ c.received_seq_out_of_order_ = s.received_seq_out_of_order_
    BY <1>2, OneMore
  <1> HIDE DEF c
  <1>6. ASSUME o.s \in Stat, ~ o.out
        PROVE  /\ t.received_seq_first_ = o.s.received_seq_first_
               /\ t.transmitted = o.s.transmitted
               /\ t.last_report_cumulative_loss_ = o.s.last_report_cumulative_loss_
               /\ t.last_report_seq_max_ = o.s.last_report_seq_max_
               /\ t.received_seq_out_of_order_ = o.s.received_seq_out_of_order_
               /\ t.received_seq_max_ = u
               /\ t.cumulative_loss_ = o.s.cumulative_loss_ + (u - o.s.received_seq_max_)
    <2>1. t = up
      BY <1>1, <1>6
    <2> HIDE DEF o, t
    <2> QED
      BY <1>6, <2>1 DEF Stat
  <1> HIDE DEF t
  <1>7. CASE ~ ReceivedRtpPacket(s)
    <2>1. Fresh(s) /\ k = 0 /\ ~ again
      BY <1>7 DEF StatInv, ReceivedRtpPacket
    <2>2. o = [s |-> f, out |-> FALSE]
      BY <1>7
    <2>3. u - 1 \in Int
      BY <1>3
    <2>4. /\ f \in Stat
          /\ f.received_seq_first_ = u /\ f.received_seq_max_ = u - 1 /\ f.last_report_seq_max_ = u - 1
          /\ f.transmitted = c.transmitted
          /\ f.last_report_cumulative_loss_ = c.last_report_cumulative_loss_
          /\ f.cumulative_loss_ = c.cumulative_loss_
          /\ f.received_seq_out_of_order_ = c.received_seq_out_of_order_
      BY <1>3, <1>5, <2>3 DEF Stat
    <2> HIDE DEF f
    <2>5. o.s = f /\ ~ o.out
      BY <2>2
    <2>6. /\ t.received_seq_first_ = u /\ t.received_seq_max_ = u
          /\ t.last_report_seq_max_ = u - 1 /\ t.transmitted = 1
          /\ t.last_report_cumulative_loss_ = 0 /\ t.cumulative_loss_ = 0
          /\ t.received_seq_out_of_order_ = None
      <3>1. u - (u - 1) = 1 /\ 0 - 1 + 1 = 0
        BY <1>3
      <3> HIDE DEF o
      <3> QED
        BY <1>3, <1>5, <1>6, <2>1, <2>4, <2>5, <3>1 DEF Fresh
    <2>7. ~ Jumped(s, seq_num) /\ k2 = 0 /\ ~ b2
      BY <2>1 DEF Fresh, Jumped, Skipped
    <2>8. u >= 0
      BY <1>2, <1>3, <2>1 DEF Fresh
    <2>9. Accounted(t, 0)
      BY <1>3, <2>6 DEF Accounted, PendingOne
    <2>10. Fits(t, FALSE)
      BY <1>3, <2>6 DEF Fits, ExpectedSinceLast, LostSinceLast
    <2>11. StatInv(t, 0, FALSE)
      <3>1. t.received_seq_first_ >= 0 /\ 0 \in Int
        BY <2>6, <2>8
      <3> QED
        BY <1>4, <2>9, <2>10, <3>1, Zenon DEF StatInv
    <2>12. k2 = 0 /\ b2 = FALSE
      BY <1>2, <2>7
    <2> HIDE DEF k2, b2
    <2>13. StatInv(t, k2, b2)
      BY <2>11, <2>12
    <2> QED
      BY <2>13 DEF k2, b2, t
  <1>8. CASE ReceivedRtpPacket(s)
    <2>1. s.received_seq_first_ >= 0 /\ Accounted(s, k) /\ Fits(s, again)
      BY <1>8 DEF StatInv, ReceivedRtpPacket
    <2>2. OrderOf(o, c, seq_num, u)
      BY <1>2, <1>3, <1>5, <1>8, Order
    <2> HIDE DEF o
    <2>3. Jumped(c, seq_num) = Jumped(s, seq_num) /\ PendingOne(c) = PendingOne(s)
      BY <1>5 DEF Jumped, PendingOne
    <2>4. o.s \in Stat /\ SameBase(o.s, c)
      BY <2>2 DEF OrderOf
    <2>5. t.received_seq_first_ = s.received_seq_first_ /\ t.transmitted = s.transmitted + 1
          /\ t.last_report_cumulative_loss_ = s.last_report_cumulative_loss_
      <3>1. CASE o.out
        BY <1>1, <1>5, <2>4, <3>1 DEF SameBase
      <3>2. CASE ~ o.out
        BY <1>5, <1>6, <2>4, <3>2 DEF SameBase
      <3> QED
        BY <3>1, <3>2
    <2>6. /\ s.received_seq_first_ \in Int /\ s.received_seq_max_ \in Int /\ s.cumulative_loss_ \in Int
          /\ s.last_report_cumulative_loss_ \in Int /\ s.last_report_seq_max_ \in Int
          /\ s.transmitted \in Int /\ PendingOne(s) \in 0 .. 1
      BY <1>2 DEF Stat, PendingOne
    <2> USE DEF Accounted, Fits, ExpectedSinceLast, LostSinceLast
    <2>7. CASE Jumped(s, seq_num)
      <3>1. /\ ~ o.out
            /\ o.s.received_seq_max_ = u - 2 /\ o.s.last_report_seq_max_ = u - 2
            /\ o.s.cumulative_loss_ = c.cumulative_loss_ - 1
            /\ o.s.received_seq_out_of_order_ = None
        BY <2>2, <2>3, <2>7 DEF OrderOf
      <3>2. /\ t.received_seq_max_ = u /\ t.last_report_seq_max_ = u - 2
            /\ t.cumulative_loss_ = s.cumulative_loss_
            /\ PendingOne(t) = 0
        <4>1. /\ t.received_seq_max_ = u /\ t.last_report_seq_max_ = u - 2
              /\ t.cumulative_loss_ = (c.cumulative_loss_ - 1) + (u - (u - 2))
              /\ t.received_seq_out_of_order_ = None
          BY <1>6, <2>4, <3>1
        <4> QED
          BY <1>3, <1>5, <2>6, <4>1 DEF PendingOne
      <3>3. k2 = k + u - 2 - s.received_seq_max_ /\ k2 \in Int
        BY <1>2, <1>3, <2>6, <2>7, <3>2 DEF Skipped
      <3>4. PendingOne(s) = 1
        BY <2>7 DEF Jumped, PendingOne
      <3> HIDE DEF k2
      <3>5. Accounted(t, k2)
        <4>1. s.cumulative_loss_ = (s.received_seq_max_ - s.received_seq_first_ + 1) - k
                                   - (s.transmitted - 1)
          BY <2>1, <3>4
        <4>2. s.cumulative_loss_ =
                 (u - s.received_seq_first_ + 1) - (k + u - 2 - s.received_seq_max_)
                 - (s.transmitted + 1 - 0)
          BY <1>2, <1>3, <2>6, <4>1
        <4> QED
          BY <1>2, <1>3, <2>5, <2>6, <3>2, <3>3, <4>2
      <3>6. Fits(t, TRUE)
        BY <1>3, <3>2
      <3>7. b2 = TRUE
        BY <1>2, <2>7
      <3> HIDE DEF b2
      <3>8. StatInv(t, k2, b2)
        BY <1>4, <2>1, <2>5, <3>3, <3>5, <3>6, <3>7 DEF StatInv
      <3> QED
        BY <3>8 DEF k2, b2, t
    <2>8. CASE ~ Jumped(s, seq_num)
      <3>1. k2 = k /\ b2 = again
        BY <1>2, <2>8 DEF Skipped
      <3>2. \/ /\ t.received_seq_max_ = s.received_seq_max_
               /\ t.last_report_seq_max_ = s.last_report_seq_max_
               /\ t.cumulative_loss_ = s.cumulative_loss_ - 1 - PendingOne(s) + PendingOne(t)
            \/ /\ u > s.received_seq_max_
               /\ t.received_seq_max_ = u
               /\ t.last_report_seq_max_ = s.last_report_seq_max_
               /\ t.cumulative_loss_ = s.cumulative_loss_ - 1 - PendingOne(s)
                                       + (u - s.received_seq_max_)
               /\ PendingOne(t) = 0
        <4>1. \/ /\ o.out /\ SameMax(o.s, c)
                 /\ o.s.cumulative_loss_ = c.cumulative_loss_ - PendingOne(c) + 1
                 /\ o.s.received_seq_out_of_order_ = seq_num
              \/ /\ SameMax(o.s, c)
                 /\ ~ o.out => u > c.received_seq_max_
                 /\ o.s.cumulative_loss_ = c.cumulative_loss_ - PendingOne(c)
                 /\ o.s.received_seq_out_of_order_ = None
          BY <2>2, <2>3, <2>8 DEF OrderOf
        <4>2. CASE o.out
          <5>1. t = o.s
            BY <1>1, <4>2
          <5>2. /\ t.received_seq_max_ = s.received_seq_max_
                /\ t.last_report_seq_max_ = s.last_report_seq_max_
            BY <1>5, <4>1, <5>1 DEF SameMax
          <5>3. None # seq_num
            BY <1>2 DEF None
          <5>4. t.cumulative_loss_ = s.cumulative_loss_ - 1 - PendingOne(s) + PendingOne(t)
            BY <1>5, <2>3, <2>6, <4>1, <5>1, <5>3 DEF PendingOne
          <5> QED
            BY <5>2, <5>4
        <4>3. CASE ~ o.out
          BY <1>3, <1>5, <1>6, <2>3, <2>4, <2>6, <4>1, <4>3 DEF SameMax, PendingOne
        <4> QED
          BY <4>2, <4>3
      <3>3. PendingOne(t) \in 0 .. 1
        BY DEF PendingOne
      <3>4. Accounted(t, k)
        BY <1>2, <1>3, <2>1, <2>5, <2>6, <3>2, <3>3
      <3>5. Fits(t, again)
        BY <1>2, <1>3, <2>1, <2>5, <2>6, <3>2, <3>3
      <3> HIDE DEF b2, k2
      <3>6. StatInv(t, k2, b2)
        BY <1>2, <1>4, <2>1, <2>5, <3>1, <3>4, <3>5 DEF StatInv
      <3> QED
        BY <3>6 DEF k2, b2, t
    <2> QED
      BY <2>7, <2>8
  <1> QED
    BY <1>7, <1>8

(* A report leaves nothing lost and nothing expected since it, and without one  *)
(* a restart stays unreported.                                                  *)
LEMMA Reported ==
  ASSUME NEW s, NEW k, NEW again, StatInv(s, k, again)
  PROVE  LET t == AfterReport(s) IN
         StatInv(t, k, FALSE) /\ ~ (ExpectedSinceLast(t) > 0)
  <1> DEFINE x == IF s.cumulative_loss_ + s.cumulative_loss_rtcp_offset_ < 0
                  THEN - s.cumulative_loss_ ELSE s.cumulative_loss_rtcp_offset_
             t == AfterReport(s)
  <1>1. s \in Stat /\ k \in Int
    BY DEF StatInv
  <1>2. x \in Int /\ s.cumulative_loss_ \in Int /\ s.received_seq_max_ \in Int
    BY <1>1 DEF Stat
  <1>3. t = [s EXCEPT !.cumulative_loss_rtcp_offset_ = x,
                      !.last_report_cumulative_loss_ = s.cumulative_loss_,
                      !.last_report_seq_max_ = s.received_seq_max_]
    BY DEF AfterReport
  <1> HIDE DEF x, t
  <1>4. /\ t \in Stat
        /\ t.received_seq_first_ = s.received_seq_first_
        /\ t.received_seq_max_ = s.received_seq_max_
        /\ t.seq_unwrapper_ = s.seq_unwrapper_
        /\ t.received_seq_out_of_order_ = s.received_seq_out_of_order_
        /\ t.cumulative_loss_ = s.cumulative_loss_
        /\ t.last_report_cumulative_loss_ = s.cumulative_loss_
        /\ t.last_report_seq_max_ = s.received_seq_max_
        /\ t.transmitted = s.transmitted
    BY <1>1, <1>2, <1>3 DEF Stat
  <1>5. ExpectedSinceLast(t) = 0 /\ LostSinceLast(t) = 0
    BY <1>2, <1>4 DEF ExpectedSinceLast, LostSinceLast
  <1>6. Fits(t, FALSE)
    BY <1>5 DEF Fits
  <1>7. ASSUME s.received_seq_first_ >= 0 PROVE Accounted(t, k)
    <2>1. Accounted(s, k)
      BY <1>7 DEF StatInv
    <2> QED
      BY <1>4, <2>1 DEF Accounted, PendingOne
  <1>8. ASSUME ~ (s.received_seq_first_ >= 0) PROVE Fresh(t) /\ k = 0
    <2>1. Fresh(s) /\ k = 0
      BY <1>8 DEF StatInv
    <2> QED
      BY <1>4, <2>1 DEF Fresh
  <1>9. StatInv(t, k, FALSE)
    BY <1>1, <1>4, <1>6, <1>7, <1>8, Zenon DEF StatInv
  <1>10. ~ (ExpectedSinceLast(t) > 0)
    BY <1>5
  <1> QED
    BY <1>9, <1>10 DEF t

LEMMA Unreported ==
  ASSUME NEW s, NEW k, NEW again, StatInv(s, k, again)
  PROVE  again = (again /\ ExpectedSinceLast(s) > 0)
  BY DEF StatInv, Fits

--------------------------------------------------------------------------------
(* ReceiveStatisticsImpl. *)

StatMaps == UNION {[D -> Stat] : D \in SUBSET {Video, Rtx}}

StatObjects ==
    [statisticians_ : StatMaps, all_ssrcs_ : Seq({Video, Rtx}), last_returned_ssrc_idx_ : Nat]

StatMap(f) ==
    /\ DOMAIN f \subseteq {Video, Rtx}
    /\ f = [x \in DOMAIN f |-> f[x]]
    /\ \A x \in DOMAIN f : f[x] \in Stat

LEMMA StatMapIff ==
  ASSUME NEW f
  PROVE  f \in StatMaps <=> StatMap(f)
  <1>1. ASSUME f \in StatMaps PROVE StatMap(f)
    <2>1. PICK D \in SUBSET {Video, Rtx} : f \in [D -> Stat]
      BY <1>1 DEF StatMaps
    <2> QED
      BY <2>1 DEF StatMap
  <1>2. ASSUME StatMap(f) PROVE f \in StatMaps
    <2>1. DOMAIN f \in SUBSET {Video, Rtx} /\ f \in [DOMAIN f -> Stat]
      BY <1>2 DEF StatMap
    <2> QED
      BY <2>1 DEF StatMaps
  <1> QED
    BY <1>1, <1>2

StatsInv(r, k, again) ==
    /\ r \in StatObjects
    /\ Video \in DOMAIN r.statisticians_
    /\ StatInv(r.statisticians_[Video], k, again)

LEMMA FreshType == Statistician \in Stat /\ StatInv(Statistician, 0, FALSE)
  <1>1. Statistician \in Stat
    BY DEF Statistician, Stat, None
  <1>2. Fresh(Statistician)
    BY DEF Statistician, Fresh
  <1>3. ~ (Statistician.received_seq_first_ >= 0)
    BY DEF Statistician, None
  <1> QED
    BY <1>1, <1>2, <1>3, 0 \in Int, Zenon DEF StatInv

\* The statistician of x is t, the others are as they were.
OnlyOne(q, r, x, t) ==
    /\ q \in StatObjects
    /\ DOMAIN q.statisticians_ = DOMAIN r.statisticians_ \cup {x}
    /\ q.statisticians_[x] = t
    /\ \A y \in DOMAIN r.statisticians_ : y # x => q.statisticians_[y] = r.statisticians_[y]

LEMMA Created ==
  ASSUME NEW r \in StatObjects, NEW x \in {Video, Rtx}
  PROVE  LET q == GetOrCreateStatistician(r, x) IN
         OnlyOne(q, r, x, IF x \in DOMAIN r.statisticians_ THEN r.statisticians_[x] ELSE Statistician)
  <1> DEFINE q == GetOrCreateStatistician(r, x)
             f == [y \in DOMAIN r.statisticians_ \cup {x} |->
                      IF y = x THEN Statistician ELSE r.statisticians_[y]]
             a == Append(r.all_ssrcs_, x)
  <1>1. CASE x \in DOMAIN r.statisticians_
    BY <1>1 DEF GetOrCreateStatistician, OnlyOne
  <1>2. CASE x \notin DOMAIN r.statisticians_
    <2>1. q = [r EXCEPT !.statisticians_ = f, !.all_ssrcs_ = a]
      BY <1>2 DEF GetOrCreateStatistician
    <2>2. StatMap(r.statisticians_) /\ a \in Seq({Video, Rtx})
      BY StatMapIff DEF StatObjects
    <2>3. StatMap(f)
      BY <2>2, FreshType DEF StatMap
    <2>4. f \in StatMaps
      BY <2>3, StatMapIff
    <2>5. /\ DOMAIN f = DOMAIN r.statisticians_ \cup {x} /\ f[x] = Statistician
          /\ \A y \in DOMAIN r.statisticians_ : y # x => f[y] = r.statisticians_[y]
      OBVIOUS
    <2> HIDE DEF f, a
    <2>6. q \in StatObjects /\ q.statisticians_ = f
      BY <2>1, <2>2, <2>4 DEF StatObjects
    <2> HIDE DEF q
    <2> QED
      BY <1>2, <2>5, <2>6 DEF OnlyOne, q
  <1> QED
    BY <1>1, <1>2

LEMMA SetOne ==
  ASSUME NEW r \in StatObjects, NEW x \in DOMAIN r.statisticians_, NEW t \in Stat
  PROVE  OnlyOne([r EXCEPT !.statisticians_[x] = t], r, x, t)
  <1> DEFINE f == [r.statisticians_ EXCEPT ![x] = t]
             q == [r EXCEPT !.statisticians_[x] = t]
  <1>1. q = [r EXCEPT !.statisticians_ = f]
    BY DEF StatObjects
  <1>2. StatMap(r.statisticians_)
    BY StatMapIff DEF StatObjects
  <1>3. StatMap(f) /\ DOMAIN f = DOMAIN r.statisticians_ /\ f[x] = t
    BY <1>2 DEF StatMap
  <1>4. \A y \in DOMAIN r.statisticians_ : y # x => f[y] = r.statisticians_[y]
    BY <1>2 DEF StatMap
  <1>5. f \in StatMaps
    BY <1>3, StatMapIff
  <1> HIDE DEF f
  <1>6. q \in StatObjects /\ q.statisticians_ = f
    BY <1>1, <1>5 DEF StatObjects
  <1> HIDE DEF q
  <1>7. OnlyOne(q, r, x, t)
    BY <1>3, <1>4, <1>6 DEF OnlyOne
  <1> QED
    BY <1>7 DEF q

(* A packet of x is counted by the statistician of x alone. *)
LEMMA CountedAt ==
  ASSUME NEW r \in StatObjects, NEW x \in {Video, Rtx}, NEW seq_num \in Int, NEW late \in BOOLEAN
  PROVE  OnlyOne(OnRtpPacket(r, x, seq_num, late), r, x,
                 UpdateCounters(IF x \in DOMAIN r.statisticians_ THEN r.statisticians_[x]
                                ELSE Statistician, seq_num, late))
  <1> DEFINE q == GetOrCreateStatistician(r, x)
             s == IF x \in DOMAIN r.statisticians_ THEN r.statisticians_[x] ELSE Statistician
             t == UpdateCounters(q.statisticians_[x], seq_num, late)
             p == OnRtpPacket(r, x, seq_num, late)
  <1>1. p = [q EXCEPT !.statisticians_[x] = t]
    BY DEF OnRtpPacket
  <1>2. OnlyOne(q, r, x, s)
    BY Created
  <1> HIDE DEF q
  <1>3. q \in StatObjects /\ x \in DOMAIN q.statisticians_ /\ q.statisticians_[x] = s
    BY <1>2 DEF OnlyOne
  <1>4. q.statisticians_[x] \in Stat
    BY <1>3, StatMapIff DEF StatObjects, StatMap
  <1>5. t \in Stat
    BY <1>4, CountersType
  <1>6. t = UpdateCounters(s, seq_num, late)
    BY <1>3
  <1> HIDE DEF t, s
  <1>7. OnlyOne(p, q, x, t)
    BY <1>1, <1>3, <1>5, SetOne
  <1> HIDE DEF p
  <1>8. OnlyOne(p, r, x, t)
    BY <1>2, <1>7 DEF OnlyOne
  <1> QED
    BY <1>6, <1>8 DEF p, s

LEMMA CountVideo ==
  ASSUME NEW r, NEW k, NEW again, StatsInv(r, k, again),
         NEW seq_num \in SeqNums, NEW late \in BOOLEAN
  PROVE  LET q == OnRtpPacket(r, Video, seq_num, late)
             s == r.statisticians_[Video]
         IN StatsInv(q, Skipped(q.statisticians_[Video], s, seq_num, k), again \/ Jumped(s, seq_num))
  <1> DEFINE q == OnRtpPacket(r, Video, seq_num, late)
             s == r.statisticians_[Video]
             t == UpdateCounters(s, seq_num, late)
  <1>1. r \in StatObjects /\ Video \in DOMAIN r.statisticians_ /\ StatInv(s, k, again)
    BY DEF StatsInv
  <1>2. seq_num \in Int /\ Video \in {Video, Rtx}
    BY SeqSpaceAssumption DEF SeqNums
  <1>3. OnlyOne(q, r, Video, t)
    BY <1>1, <1>2, CountedAt
  <1>4. StatInv(t, Skipped(t, s, seq_num, k), again \/ Jumped(s, seq_num))
    BY <1>1, Counters
  <1> HIDE DEF q, t, s
  <1>5. q \in StatObjects /\ Video \in DOMAIN q.statisticians_ /\ q.statisticians_[Video] = t
    BY <1>3 DEF OnlyOne
  <1> QED
    BY <1>4, <1>5 DEF StatsInv, q, s

LEMMA CountRtx ==
  ASSUME NEW r, NEW k, NEW again, StatsInv(r, k, again), NEW seq_num \in Int
  PROVE  StatsInv(OnRtpPacket(r, Rtx, seq_num, FALSE), k, again)
  <1> DEFINE q == OnRtpPacket(r, Rtx, seq_num, FALSE)
             t == UpdateCounters(IF Rtx \in DOMAIN r.statisticians_ THEN r.statisticians_[Rtx]
                                 ELSE Statistician, seq_num, FALSE)
  <1>1. r \in StatObjects /\ Rtx \in {Video, Rtx} /\ FALSE \in BOOLEAN
    BY DEF StatsInv
  <1>2. OnlyOne(q, r, Rtx, t)
    BY <1>1, CountedAt, Zenon
  <1>3. Video # Rtx
    BY DEF Video, Rtx
  <1> HIDE DEF q, t
  <1>4. /\ q \in StatObjects /\ Video \in DOMAIN q.statisticians_
        /\ q.statisticians_[Video] = r.statisticians_[Video]
    BY <1>2, <1>3 DEF OnlyOne, StatsInv
  <1>5. StatsInv(q, k, again)
    BY <1>4, Zenon DEF StatsInv
  <1> QED
    BY <1>5 DEF q

(* RtcpReportBlocks: whichever sources it names, the video is as it was or has  *)
(* been reported.                                                               *)
LEMMA ReportsKeep ==
  ASSUME NEW r, NEW k, NEW again, StatsInv(r, k, again)
  PROVE  LET q == RtcpReportBlocks(r).r IN
         StatsInv(q, k, again /\ ExpectedSinceLast(q.statisticians_[Video]) > 0)
  <1> DEFINE n == Len(r.all_ssrcs_)
             enough == {i \in 0 .. n : i = n \/ Len(Reporting(r, i)) >= MaxReportBlocks}
             visited == CHOOSE i \in enough : \A j \in enough : i <= j
             named == Reporting(r, visited)
             N == ToSet(named)
             old == r.statisticians_
             at == IF n = 0 THEN 0 ELSE (r.last_returned_ssrc_idx_ + visited) % n
             f == [x \in DOMAIN old |-> IF x \in N THEN AfterReport(old[x]) ELSE old[x]]
             q == RtcpReportBlocks(r).r
  <1>1. q = [r EXCEPT !.last_returned_ssrc_idx_ = at, !.statisticians_ = f]
    BY DEF RtcpReportBlocks
  <1>2. /\ r \in StatObjects /\ Video \in DOMAIN old /\ StatInv(old[Video], k, again)
        /\ StatMap(old) /\ n \in Nat /\ r.last_returned_ssrc_idx_ \in Nat
    BY StatMapIff DEF StatsInv, StatObjects
  <1> HIDE DEF N
  <1>3. at \in Nat
    <2>1. enough \in SUBSET Nat /\ n \in enough
      BY <1>2
    <2> HIDE DEF enough
    <2>2. \E i \in enough : \A j \in enough : i <= j
      BY <2>1, Least
    <2>3. visited \in Nat
      BY <2>1, <2>2
    <2> HIDE DEF visited, n
    <2> QED
      BY <1>2, <2>3
  <1> HIDE DEF at
  <1>4. ASSUME NEW s \in Stat PROVE AfterReport(s) \in Stat
    <2> DEFINE x == IF s.cumulative_loss_ + s.cumulative_loss_rtcp_offset_ < 0
                    THEN - s.cumulative_loss_ ELSE s.cumulative_loss_rtcp_offset_
    <2>1. x \in Int
      BY DEF Stat
    <2>2. AfterReport(s) = [s EXCEPT !.cumulative_loss_rtcp_offset_ = x,
                                     !.last_report_cumulative_loss_ = s.cumulative_loss_,
                                     !.last_report_seq_max_ = s.received_seq_max_]
      BY DEF AfterReport
    <2> HIDE DEF x
    <2> QED
      BY <2>1, <2>2 DEF Stat
  <1>5. StatMap(f)
    BY <1>2, <1>4 DEF StatMap
  <1>6. f \in StatMaps
    BY <1>5, StatMapIff
  <1>7. /\ Video \in DOMAIN f
        /\ f[Video] = old[Video] \/ f[Video] = AfterReport(old[Video])
    BY <1>2
  <1> HIDE DEF f
  <1>8. q \in StatObjects /\ q.statisticians_ = f
    BY <1>1, <1>2, <1>3, <1>6 DEF StatObjects
  <1> HIDE DEF q
  <1> DEFINE b == again /\ ExpectedSinceLast(f[Video]) > 0
  <1>9. StatInv(f[Video], k, b)
    <2>1. CASE f[Video] = old[Video]
      <3>1. again = b
        BY <1>2, <2>1, Unreported
      <3> HIDE DEF b
      <3> QED
        BY <1>2, <2>1, <3>1
    <2>2. CASE f[Video] = AfterReport(old[Video])
      <3>1. StatInv(f[Video], k, FALSE) /\ ~ (ExpectedSinceLast(f[Video]) > 0)
        BY <1>2, <2>2, Reported
      <3>2. b = FALSE
        BY <3>1
      <3> HIDE DEF b
      <3> QED
        BY <3>1, <3>2
    <2> QED
      BY <1>7, <2>1, <2>2
  <1> QED
    BY <1>7, <1>8, <1>9 DEF StatsInv, q

\* What a call of the RTCP module does to the statistics: nothing, or a report.
LEMMA Unchanged ==
  ASSUME NEW r, NEW k, NEW again, StatsInv(r, k, again)
  PROVE  StatsInv(r, k, again /\ ExpectedSinceLast(r.statisticians_[Video]) > 0)
  <1> DEFINE b == again /\ ExpectedSinceLast(r.statisticians_[Video]) > 0
  <1>1. again = b
    BY Unreported DEF StatsInv
  <1> HIDE DEF b
  <1>2. StatsInv(r, k, b)
    BY <1>1
  <1> QED
    BY <1>2 DEF b

Touched(q, r) == q = r \/ q = RtcpReportBlocks(r).r

LEMMA Sent ==
  ASSUME NEW m, NEW r, NEW type, NEW ids, NEW d
  PROVE  Touched(SendRTCP(m, r, type, ids, d).r, r)
  BY DEF SendRTCP, Touched

(* OnNackSend: however many numbers a batch has, they can be put in the order of *)
(* nack_list_, so that what NackOrder chooses exists.                           *)
InOrder(ids, n, end) ==
    \A i, j \in 1 .. n : i < j => ForwardDiff(ids[i], end) > ForwardDiff(ids[j], end)

LEMMA Orderable ==
  ASSUME NEW end \in SeqNums, NEW B \in SUBSET SeqNums
  PROVE  /\ Cardinality(B) \in Nat
         /\ \E ids \in [1 .. Cardinality(B) -> B] : InOrder(ids, Cardinality(B), end)
  <1>1. ASSUME NEW S \in SUBSET SeqNums
        PROVE  IsFiniteSet(S) /\ Cardinality(S) \in Nat
    <2>1. IsFiniteSet(SeqNums)
      BY FS_Interval, SeqSpaceAssumption DEF SeqNums
    <2>2. IsFiniteSet(S)
      BY <2>1, FS_Subset
    <2> QED
      BY <2>2, FS_CardinalityType
  <1> DEFINE Listed(S) == \E ids \in [1 .. Cardinality(S) -> S] : InOrder(ids, Cardinality(S), end)
             T == {n \in Nat : \E S \in SUBSET SeqNums : Cardinality(S) = n /\ ~ Listed(S)}
  <1>2. T = {}
    <2> SUFFICES ASSUME T # {} PROVE FALSE
      OBVIOUS
    <2>1. PICK n \in T : \A k \in T : n <= k
      <3>1. T \in SUBSET Nat
        OBVIOUS
      <3> HIDE DEF T
      <3> QED
        BY <3>1, Least
    <2>2. PICK S \in SUBSET SeqNums : Cardinality(S) = n /\ ~ Listed(S)
      OBVIOUS
    <2>3. n \in Nat
      OBVIOUS
    <2>4. CASE n = 0
      <3>1. S = {}
        BY <1>1, <2>2, <2>4, FS_EmptySet
      <3> DEFINE none == [i \in 1 .. 0 |-> 0]
      <3>2. none \in [1 .. 0 -> {}] /\ InOrder(none, 0, end)
        BY DEF InOrder
      <3> QED
        BY <2>2, <2>4, <3>1, <3>2
    <2>5. CASE n > 0
      <3> DEFINE D == {ForwardDiff(s, end) : s \in S}
      <3>1. D \in SUBSET Nat
        BY Diff, SeqSpaceAssumption DEF SeqNums
      <3>2. S # {}
        BY <2>2, <2>5, FS_EmptySet
      <3>3. D # {}
        BY <3>2
      <3>4. PICK x \in S : \A y \in S : ForwardDiff(x, end) <= ForwardDiff(y, end)
        <4> HIDE DEF D
        <4>1. PICK d \in D : \A e \in D : d <= e
          BY <3>1, <3>3, Least
        <4> QED
          BY <4>1 DEF D
      <3> HIDE DEF D
      <3>5. \A y \in S \ {x} : ForwardDiff(y, end) > ForwardDiff(x, end)
        <4> TAKE y \in S \ {x}
        <4>1. /\ x \in SeqNums /\ y \in SeqNums /\ x # y
              /\ ForwardDiff(x, end) <= ForwardDiff(y, end)
          BY <3>4
        <4>2. /\ ForwardDiff(x, end) = IF x <= end THEN end - x ELSE end - x + SeqSpace
              /\ ForwardDiff(y, end) = IF y <= end THEN end - y ELSE end - y + SeqSpace
          BY <4>1, Diff
        <4> QED
          BY <4>1, <4>2, SeqSpaceAssumption DEF SeqNums
      <3>6. PICK R : R = S \ {x}
        OBVIOUS
      <3>7. R \in SUBSET SeqNums /\ Cardinality(R) = n - 1
        BY <1>1, <2>2, <3>4, <3>6, FS_RemoveElement
      <3>8. Listed(R)
        <4>1. ~ (n - 1 \in T)
          BY <2>1, <2>3
        <4>2. n - 1 \in Nat
          BY <2>3, <2>5
        <4> QED
          BY <3>7, <4>1, <4>2
      <3>9. PICK q \in [1 .. (n - 1) -> R] : InOrder(q, n - 1, end)
        BY <3>7, <3>8
      <3> DEFINE ids == [i \in 1 .. n |-> IF i = n THEN x ELSE q[i]]
      <3>10. \A i \in 1 .. n : i = n \/ (i \in 1 .. (n - 1) /\ q[i] \in R)
        BY <2>3, <3>9
      <3>11. ids \in [1 .. n -> S]
        BY <3>4, <3>6, <3>10
      <3>12. InOrder(ids, n, end)
        <4> SUFFICES ASSUME NEW i \in 1 .. n, NEW j \in 1 .. n, i < j
                     PROVE  ForwardDiff(ids[i], end) > ForwardDiff(ids[j], end)
          BY DEF InOrder
        <4>1. i \in 1 .. (n - 1) /\ i # n /\ ids[i] = q[i] /\ q[i] \in R
          BY <2>3, <3>10
        <4>2. CASE j = n
          BY <3>5, <3>6, <4>1, <4>2
        <4>3. CASE j # n
          <5>1. j \in 1 .. (n - 1) /\ ids[j] = q[j]
            BY <2>3, <4>3
          <5> QED
            BY <3>9, <4>1, <5>1 DEF InOrder
        <4> QED
          BY <4>2, <4>3
      <3> HIDE DEF ids
      <3> QED
        BY <2>2, <3>11, <3>12
    <2> QED
      BY <2>3, <2>4, <2>5
  <1>3. Cardinality(B) \in Nat
    BY <1>1
  <1>4. Listed(B)
    BY <1>2, <1>3
  <1> QED
    BY <1>3, <1>4

(* The numbers of a NACK are those of its batch, at least one if the batch has. *)
LEMMA NackOrdered ==
  ASSUME NEW end \in SeqNums, NEW B \in SUBSET SeqNums, B # {}
  PROVE  NackOrder(B, end) # <<>> /\ ToSet(NackOrder(B, end)) \subseteq B
  <1> DEFINE n == Cardinality(B)
             ids == NackOrder(B, end)
  <1>1. n \in Nat /\ \E q \in [1 .. n -> B] : InOrder(q, n, end)
    BY Orderable
  <1>2. \E q \in [1 .. n -> B] : \A i, j \in DOMAIN q :
            i < j => ForwardDiff(q[i], end) > ForwardDiff(q[j], end)
    BY <1>1 DEF InOrder
  <1>3. ids \in [1 .. n -> B]
    BY <1>2 DEF NackOrder
  <1>4. n # 0
    <2>1. IsFiniteSet(SeqNums)
      BY FS_Interval, SeqSpaceAssumption DEF SeqNums
    <2>2. IsFiniteSet(B)
      BY <2>1, FS_Subset
    <2> QED
      BY <2>2, FS_EmptySet
  <1> HIDE DEF ids, n
  <1>5. 1 \in DOMAIN ids /\ ToSet(ids) \subseteq B
    BY <1>1, <1>3, <1>4 DEF ToSet
  <1>6. DOMAIN <<>> = {}
    OBVIOUS
  <1>7. ids # <<>>
    BY <1>5, <1>6
  <1> QED
    BY <1>5, <1>7 DEF ids

(* The RTCP module of a receiver: it never sends media, so nothing is left      *)
(* flagged between two calls and every compound packet begins with its report.  *)
Receiver(m) ==
    /\ "report_flags_" \in DOMAIN m /\ m.report_flags_ = {}
    /\ m.captured = FALSE /\ m.sending_ = FALSE

\* What NacksAreMissing says of a compound packet and the packets received.
SoundCompound(compound, g) ==
    compound # <<>> =>
        /\ compound[1].type = "rr"
        /\ \A i \in DOMAIN compound : compound[i].type = "nack" =>
              compound[i].ids # <<>> /\ ToSet(compound[i].ids) \cap g = {}

LEMMA Together ==
  ASSUME NEW a, NEW b
  PROVE  /\ <<>> \o <<a>> = <<a>> /\ <<a>> \o <<>> = <<a>>
         /\ <<a>> \o <<b>> = <<a, b>>
  <1>1. PICK S : S = {a, b}
    OBVIOUS
  <1>2. <<>> \in Seq(S) /\ <<a>> \in Seq(S) /\ <<b>> \in Seq(S)
    BY <1>1
  <1>3. <<>> \o <<a>> = <<a>> /\ <<a>> \o <<>> = <<a>>
    BY <1>2, ConcatEmptySeq
  <1>4. PICK s : s = Append(<<a>>, b)
    OBVIOUS
  <1>5. PICK t : t = <<a, b>>
    OBVIOUS
  <1>6. s \in Seq(S) /\ Len(s) = 2 /\ s[1] = a /\ s[2] = b
    BY <1>1, <1>2, <1>4
  <1>7. t \in Seq(S) /\ Len(t) = 2 /\ t[1] = a /\ t[2] = b
    BY <1>1, <1>5
  <1>8. s = t
    BY <1>6, <1>7, SeqEqual
  <1>9. <<a>> \o <<b>> = s
    BY <1>1, <1>2, <1>4, AppendIsConcat
  <1> QED
    BY <1>3, <1>5, <1>8, <1>9

LEMMA SendKeeps ==
  ASSUME NEW m, Receiver(m), NEW r, NEW type \in {"nack", "rr", "report"}, NEW ids, NEW d, NEW g,
         type = "nack" => ids # <<>> /\ ToSet(ids) \cap g = {}
  PROVE  LET s == SendRTCP(m, r, type, ids, d) IN
         Receiver(s.m) /\ SoundCompound(s.out, g)
  <1> DEFINE s == SendRTCP(m, r, type, ids, d)
             report == RtcpReportBlocks(r)
  <1>1. CASE type = "report"
    <2>1. s.m = [m EXCEPT !.report_flags_ = {}] /\ s.out = <<>>
      <3>1. m.report_flags_ \cup {type} = {"report"}
        BY <1>1 DEF Receiver
      <3>2. {"report"} \ {"sr", "report"} = {} /\ {} # {"report"}
        OBVIOUS
      <3> QED
        BY <3>1, <3>2 DEF SendRTCP, Receiver
    <2> HIDE DEF s
    <2>2. Receiver(s.m)
      BY <2>1 DEF Receiver
    <2>3. SoundCompound(s.out, g)
      BY <2>1 DEF SoundCompound
    <2> QED
      BY <2>2, <2>3 DEF s
  <1>2. CASE type # "report"
    <2> DEFINE flags == {"rr", type}
               types == Built(flags)
               stats_ == IF "nack" \in flags THEN ReportRequests(m.nack_stats_, ids) ELSE m.nack_stats_
    <2>1. /\ m.report_flags_ \cup {type} = {type}
          /\ {type} \ {"sr", "report"} = {type}
          /\ {type} \ {"report"} = {type}
          /\ {type} # {}
          /\ {type} \cup {"rr"} = flags
      BY <1>2 DEF Receiver
    <2> HIDE DEF flags, types
    <2>2. /\ s.m = [SetNextRtcpSendEvaluationDuration(m, d) EXCEPT
                       !.report_flags_ = {},
                       !.nack_stats_ = IF "nack" \in flags THEN ReportRequests(@, ids) ELSE @]
          /\ s.out = [i \in DOMAIN types |-> BuildPacket(types[i], m, report.blocks, ids)]
      BY <2>1 DEF SendRTCP, Receiver, types
    <2> HIDE DEF s
    <2>3. Receiver(s.m)
      BY <2>2 DEF Receiver, SetNextRtcpSendEvaluationDuration
    <2>4. types = IF type = "nack" THEN <<"rr", "nack">> ELSE <<"rr">>
      <3>1. /\ "sr" \notin flags /\ "rr" \in flags
            /\ "nack" \in flags <=> type = "nack"
        BY <1>2 DEF flags
      <3>2. /\ IfFlagged(flags, "sr") = <<>> /\ IfFlagged(flags, "rr") = <<"rr">>
            /\ IfFlagged(flags, "nack") = IF type = "nack" THEN <<"nack">> ELSE <<>>
        BY <3>1 DEF IfFlagged
      <3>3. /\ <<>> \o <<"rr">> = <<"rr">> /\ <<"rr">> \o <<>> = <<"rr">>
            /\ <<"rr">> \o <<"nack">> = <<"rr", "nack">>
        BY Together
      <3> QED
        BY <3>2, <3>3 DEF types, Built
    <2>5. DOMAIN types = (IF type = "nack" THEN 1 .. 2 ELSE 1 .. 1) /\ types[1] = "rr"
      BY <2>4
    <2>6. ASSUME NEW i \in DOMAIN types
          PROVE  types[i] = "rr" \/ (types[i] = "nack" /\ type = "nack")
      BY <2>4
    <2> HIDE DEF report
    <2>7. \A x : BuildPacket("rr", m, x, ids).type = "rr"
      BY DEF BuildPacket
    <2>8. \A x : BuildPacket("nack", m, x, ids).ids = ids
      BY DEF BuildPacket
    <2>9. SoundCompound(s.out, g)
      <3>1. DOMAIN s.out = DOMAIN types /\ 1 \in DOMAIN types
        BY <2>2, <2>5
      <3>2. s.out[1].type = "rr"
        BY <2>2, <2>5, <2>7, <3>1
      <3>3. ASSUME NEW i \in DOMAIN s.out, s.out[i].type = "nack"
            PROVE  s.out[i].ids # <<>> /\ ToSet(s.out[i].ids) \cap g = {}
        <4>1. types[i] = "nack" /\ type = "nack"
          BY <2>2, <2>6, <2>7, <3>1, <3>3
        <4>2. s.out[i].ids = ids
          BY <2>2, <2>8, <3>1, <4>1
        <4> QED
          BY <4>1, <4>2
      <3> QED
        BY <3>2, <3>3 DEF SoundCompound
    <2> QED
      BY <2>3, <2>9 DEF s
  <1> QED
    BY <1>1, <1>2

LEMMA TouchedKeeps ==
  ASSUME NEW q, NEW r, NEW k, NEW again, StatsInv(r, k, again), Touched(q, r)
  PROVE  StatsInv(q, k, again /\ ExpectedSinceLast(q.statisticians_[Video]) > 0)
  <1>1. CASE q = r
    BY <1>1, Unchanged
  <1>2. CASE q = RtcpReportBlocks(r).r
    BY <1>2, ReportsKeep
  <1> QED
    BY <1>1, <1>2 DEF Touched

--------------------------------------------------------------------------------
(* The specification. *)

\* The objects and the history are what their classes allow.
TypeOK ==
    /\ stats \in StatObjects
    /\ nack \in Requesters
    /\ got \subseteq SeqNums
    /\ skip \in Int
    /\ restarted \in BOOLEAN /\ ticked \in BOOLEAN
    /\ arrivals \in Nat /\ rtx \in Nat /\ reports \in Nat

Inv ==
    /\ NackInv(nack, got)
    /\ StatsInv(stats, skip, restarted)
    /\ ticked \in BOOLEAN
    /\ arrivals \in Nat /\ rtx \in Nat /\ reports \in Nat

LEMMA InitInv ==
  ASSUME Init
  PROVE  Inv
  <1>1. NackInv(nack, got)
    <2>1. nack = Requester /\ got = {}
      BY DEF Init
    <2>2. EmptyHistogram \in Histograms
      <3>1. EmptyHistogram \in [values : Seq(0 .. (NumBuckets - 1)), index : Nat]
        BY DEF EmptyHistogram
      <3>2. EmptyHistogram.index <= Len(EmptyHistogram.values)
        BY DEF EmptyHistogram
      <3> QED
        BY <3>1, <3>2 DEF Histograms, HistogramType
    <2>3. <<>> \in NackLists
      <3>1. <<>> \in [{} -> Info] /\ {} \in SUBSET SeqNums
        OBVIOUS
      <3> QED
        BY <3>1 DEF NackLists
    <2>4. 0 \in SeqNums
      BY SeqSpaceAssumption DEF SeqNums
    <2>5. nack \in Requesters /\ nack.nack_list_ = <<>> /\ ~ nack.initialized_
      BY <2>1, <2>2, <2>3, <2>4 DEF Requester, Requesters
    <2>6. DOMAIN nack.nack_list_ = {} /\ Cardinality({}) = 0
      BY <2>5, FS_EmptySet
    <2>7. ListSound(nack, got)
      BY <2>6, NackAssumption DEF ListSound
    <2> QED
      BY <2>1, <2>5, <2>6, <2>7 DEF NackInv
  <1>2. StatsInv(stats, skip, restarted)
    <2> DEFINE made == GetOrCreateStatistician(Statistics, Video)
    <2>1. Statistics \in StatObjects /\ DOMAIN Statistics.statisticians_ = {}
      <3>1. <<>> \in StatMaps
        <4>1. <<>> \in [{} -> Stat] /\ {} \in SUBSET {Video, Rtx}
          OBVIOUS
        <4> QED
          BY <4>1 DEF StatMaps
      <3> QED
        BY <3>1 DEF Statistics, StatObjects
    <2>2. OnlyOne(made, Statistics, Video, Statistician)
      BY <2>1, Created
    <2> HIDE DEF made
    <2>3. /\ made \in StatObjects /\ Video \in DOMAIN made.statisticians_
          /\ made.statisticians_[Video] = Statistician
      BY <2>2 DEF OnlyOne
    <2>4. skip = 0 /\ restarted = FALSE
      BY DEF Init
    <2>5. CASE HasRtx
      <3>1. stats = made
        BY <2>5 DEF Init, made
      <3> QED
        BY <2>3, <2>4, <3>1, FreshType DEF StatsInv
    <2>6. CASE ~ HasRtx
      <3> DEFINE t == [Statistician EXCEPT !.enable_retransmit_detection_ = TRUE]
      <3>1. stats = [made EXCEPT !.statisticians_[Video].enable_retransmit_detection_ = TRUE]
        BY <2>6 DEF Init, made, EnableRetransmitDetection
      <3>2. stats = [made EXCEPT !.statisticians_[Video] = t]
        BY <2>3, <3>1
      <3>3. t \in Stat
        BY FreshType DEF Stat
      <3>4. OnlyOne(stats, made, Video, t)
        BY <2>3, <3>2, <3>3, SetOne
      <3>5. Fresh(t) /\ ~ (t.received_seq_first_ >= 0)
        BY DEF Fresh, Statistician, None
      <3> HIDE DEF t
      <3>6. StatInv(t, 0, FALSE)
        BY <3>3, <3>5, 0 \in Int, Zenon DEF StatInv
      <3> QED
        BY <2>4, <3>4, <3>6 DEF StatsInv, OnlyOne
    <2> QED
      BY <2>5, <2>6
  <1> QED
    BY <1>1, <1>2 DEF Init, Inv

\* The part of AskedOncePerRtt that every step has to show.
Asks ==
    LET old == nack.nack_list_  new == nack'.nack_list_ IN
    /\ ticked' => \A s \in DOMAIN new : new[s].since \in 0 .. Rtt
    /\ \A s \in DOMAIN old \cap DOMAIN new : new[s].retries > old[s].retries =>
           old[s].since = None \/ (ticked' /\ old[s].since >= Rtt)

LEMMA SameNack ==
  ASSUME Inv, UNCHANGED nack, ticked' = FALSE \/ UNCHANGED vars
  PROVE  \A s \in DOMAIN nack.nack_list_ \cap DOMAIN nack'.nack_list_ :
             ~ (nack'.nack_list_[s].retries > nack.nack_list_[s].retries)
  <1>1. NackList(nack.nack_list_)
    BY NackListIff DEF Inv, NackInv, Requesters
  <1>2. \A s \in DOMAIN nack.nack_list_ : nack.nack_list_[s].retries \in Nat
    BY <1>1, NackAssumption DEF NackList, Info
  <1> QED
    BY <1>2

(* The network brings no packet from half a turn away. *)
LEMMA VideoNear ==
  ASSUME Inv, NEW seq_num \in Arriving
  PROVE  Near(nack, seq_num)
  <1>1. CASE nack.initialized_
    <2>1. PICK o \in Offsets : seq_num = (nack.newest_seq_num_ + o) % SeqSpace
      BY <1>1 DEF Arriving
    <2>2. nack.newest_seq_num_ + o \in Int
      <3>1. o \in Int
        BY ReceiveAssumption, NackAssumption, HalfTurn DEF Half
      <3>2. nack.newest_seq_num_ \in Int
        BY SeqSpaceAssumption DEF Inv, NackInv, Requesters, SeqNums
      <3> QED
        BY <3>1, <3>2
    <2>3. seq_num \in SeqNums
      BY <2>1, <2>2, Residue
    <2> QED
      BY <2>1, <2>3 DEF Near
  <1>2. CASE ~ nack.initialized_
    BY <1>2, ReceiveAssumption DEF Arriving, Near
  <1> QED
    BY <1>1, <1>2

LEMMA VideoStep ==
  ASSUME Inv, NEW seq_num \in Arriving, NEW late \in Lateness, NEW key \in KeyFrameFlags,
         NEW d \in Durations, DeliverVideo(seq_num, late, key, d)
  PROVE  Inv' /\ Asks
  <1> DEFINE counted == OnRtpPacket(stats, Video, seq_num, late)
             result == OnReceivedPacket(nack, seq_num, key, FALSE)
             call == IF result.batch = {} THEN Nothing(rtcp, counted)
                     ELSE SendNack(rtcp, counted, NackOrder(result.batch, seq_num), d)
             jumped == Jumped(VideoStats, seq_num)
  <1>1. late \in BOOLEAN /\ key \in BOOLEAN
    BY ReceiveAssumption DEF Lateness
  <1>2. Near(nack, seq_num)
    BY VideoNear
  <1>3. seq_num \in SeqNums
    BY <1>2 DEF Near
  <1>4. /\ arrivals' = arrivals + 1 /\ ticked' = FALSE /\ rtx' = rtx /\ reports' = reports
        /\ nack' = result.n
        /\ got' = Heard(got, seq_num, result.n.newest_seq_num_)
    BY DEF DeliverVideo, Heard, Half
  <1>5. /\ skip' = Skipped(counted.statisticians_[Video], VideoStats, seq_num, skip)
        /\ stats' = call.r
        /\ restarted' = ((restarted \/ jumped) /\ ExpectedSinceLast(stats'.statisticians_[Video]) > 0)
    BY DEF DeliverVideo, Apply, Skipped, Jumped
  <1> HIDE DEF result
  <1>6. NackInv(nack', got') /\ NotRepeated(nack, nack')
    BY <1>1, <1>2, <1>4, Received DEF Inv, result
  <1> DEFINE k == Skipped(counted.statisticians_[Video], VideoStats, seq_num, skip)
             b == restarted \/ jumped
  <1>7. StatsInv(counted, k, b)
    BY <1>1, <1>3, CountVideo DEF Inv, VideoStats
  <1> HIDE DEF counted, jumped
  <1>8. Touched(call.r, counted)
    <2>1. CASE result.batch = {}
      BY <2>1 DEF Nothing, Touched
    <2>2. CASE result.batch # {}
      BY <2>2, Sent DEF SendNack
    <2> QED
      BY <2>1, <2>2
  <1> HIDE DEF call, k, b
  <1>9. StatsInv(call.r, k, b /\ ExpectedSinceLast(call.r.statisticians_[Video]) > 0)
    BY <1>7, <1>8, TouchedKeeps
  <1>10. StatsInv(stats', skip', restarted')
    BY <1>5, <1>9 DEF k, b
  <1>11. Inv'
    <2>1. arrivals' \in Nat /\ rtx' \in Nat /\ reports' \in Nat
      BY <1>4 DEF Inv
    <2>2. ticked' \in BOOLEAN
      BY <1>4
    <2> QED
      BY <1>6, <1>10, <2>1, <2>2 DEF Inv
  <1>12. Asks
    BY <1>4, <1>6 DEF Asks, NotRepeated
  <1> QED
    BY <1>11, <1>12

(* A step that only makes a call of the RTCP module. *)
LEMMA CallStep ==
  ASSUME Inv, NEW result, Apply(result, FALSE), Touched(result.r, stats), UNCHANGED skip
  PROVE  StatsInv(stats', skip', restarted')
  <1>1. /\ stats' = result.r /\ skip' = skip
        /\ restarted' = (restarted /\ ExpectedSinceLast(result.r.statisticians_[Video]) > 0)
    <2>1. restarted \in BOOLEAN
      BY DEF Inv, StatsInv, StatInv
    <2> QED
      BY <2>1 DEF Apply
  <1>2. StatsInv(result.r, skip, restarted /\ ExpectedSinceLast(result.r.statisticians_[Video]) > 0)
    BY TouchedKeeps DEF Inv
  <1> QED
    BY <1>1, <1>2

LEMMA NackTimerStep ==
  ASSUME Inv, NEW d \in Durations, NackTimer(d)
  PROVE  Inv' /\ Asks
  <1> DEFINE due == ProcessNacks(Elapse(nack))
             call == IF due.batch = {} THEN Nothing(Pass(rtcp), stats)
                     ELSE SendNack(Pass(rtcp), stats, NackOrder(due.batch, nack.newest_seq_num_), d)
  <1>1. /\ nack' = due.n /\ ticked' = TRUE /\ Apply(call, FALSE)
        /\ UNCHANGED <<arrivals, rtx, reports, got, skip>>
    BY DEF NackTimer
  <1>2. /\ NackInv(nack', got)
        /\ \A s \in DOMAIN nack'.nack_list_ : nack'.nack_list_[s].since \in 0 .. Rtt
        /\ \A s \in DOMAIN nack.nack_list_ \cap DOMAIN nack'.nack_list_ :
              nack'.nack_list_[s].retries > nack.nack_list_[s].retries =>
                  nack.nack_list_[s].since = None \/ nack.nack_list_[s].since >= Rtt
    BY <1>1, Timer DEF Inv
  <1> HIDE DEF due
  <1>3. Touched(call.r, stats)
    <2>1. CASE due.batch = {}
      BY <2>1 DEF Nothing, Touched
    <2>2. CASE due.batch # {}
      BY <2>2, Sent DEF SendNack
    <2> QED
      BY <2>1, <2>2
  <1> HIDE DEF call
  <1>4. StatsInv(stats', skip', restarted')
    BY <1>1, <1>3, CallStep
  <1>5. Inv'
    BY <1>1, <1>2, <1>4 DEF Inv
  <1>6. Asks
    BY <1>1, <1>2 DEF Asks
  <1> QED
    BY <1>5, <1>6

LEMMA ReportStep ==
  ASSUME Inv, NEW d \in Durations, ReportTimer(d) \/ ReportTask(d)
  PROVE  Inv' /\ Asks
  <1>1. ticked' = FALSE /\ UNCHANGED <<nack, arrivals, rtx, reports, got, skip>>
    BY DEF ReportTimer, ReportTask
  <1>2. StatsInv(stats', skip', restarted')
    <2>1. CASE ReportTimer(d)
      <3> DEFINE call == SendRTCPReceiveReport(rtcp, stats, d)
      <3>1. Apply(call, FALSE) /\ Touched(call.r, stats)
        BY <2>1, Sent DEF ReportTimer, SendRTCPReceiveReport
      <3> HIDE DEF call
      <3> QED
        BY <1>1, <3>1, CallStep
    <2>2. CASE ReportTask(d)
      <3> DEFINE call == RunTask(rtcp, stats, d)
                 t == [rtcp EXCEPT !.tasks = @ \ {0}]
      <3>1. call = IF TimeToSendRTCPPacket(t, FALSE) THEN SendRTCP(t, stats, "report", <<>>, d)
                   ELSE Nothing(t, stats)
        BY DEF RunTask
      <3> HIDE DEF t
      <3>2. Touched(call.r, stats)
        <4>1. CASE TimeToSendRTCPPacket(t, FALSE)
          BY <3>1, <4>1, Sent
        <4>2. CASE ~ TimeToSendRTCPPacket(t, FALSE)
          BY <3>1, <4>2 DEF Nothing, Touched
        <4> QED
          BY <4>1, <4>2
      <3>3. Apply(call, FALSE)
        BY <2>2 DEF ReportTask
      <3> HIDE DEF call
      <3> QED
        BY <1>1, <3>2, <3>3, CallStep
    <2> QED
      BY <2>1, <2>2
  <1>3. Inv'
    BY <1>1, <1>2 DEF Inv
  <1>4. Asks
    BY <1>1, SameNack DEF Asks
  <1> QED
    BY <1>3, <1>4

LEMMA SilentStep ==
  ASSUME Inv, NEW ssrc \in DOMAIN stats.statisticians_, SourceSilent(ssrc)
  PROVE  Inv' /\ Asks
  <1> DEFINE s == stats.statisticians_[ssrc]
             t == [s EXCEPT !.active = FALSE]
  <1>1. /\ stats' = [stats EXCEPT !.statisticians_[ssrc].active = FALSE] /\ ticked' = FALSE
        /\ UNCHANGED <<nack, arrivals, rtx, reports, got, skip, restarted>>
    BY DEF SourceSilent
  <1>2. /\ stats \in StatObjects /\ Video \in DOMAIN stats.statisticians_
        /\ StatInv(stats.statisticians_[Video], skip, restarted) /\ StatMap(stats.statisticians_)
    BY StatMapIff DEF Inv, StatsInv, StatObjects
  <1>3. s \in Stat
    BY <1>2 DEF StatMap
  <1>4. stats' = [stats EXCEPT !.statisticians_[ssrc] = t]
    BY <1>1, <1>2 DEF StatObjects
  <1>5. /\ t \in Stat
        /\ SameBase(t, s) /\ SameMax(t, s)
        /\ t.cumulative_loss_ = s.cumulative_loss_
        /\ t.received_seq_out_of_order_ = s.received_seq_out_of_order_
    BY <1>3 DEF Stat, SameBase, SameMax
  <1>6. OnlyOne(stats', stats, ssrc, t)
    BY <1>2, <1>4, <1>5, SetOne
  <1> HIDE DEF t
  <1>7. /\ stats' \in StatObjects /\ Video \in DOMAIN stats'.statisticians_
        /\ stats'.statisticians_[Video] = IF ssrc = Video THEN t ELSE stats.statisticians_[Video]
    BY <1>2, <1>6 DEF OnlyOne
  <1>8. ASSUME ssrc = Video PROVE StatInv(t, skip, restarted)
    <2>1. StatInv(s, skip, restarted)
      BY <1>2, <1>8
    <2> HIDE DEF s
    <2>2. Accounted(s, skip) => Accounted(t, skip)
      BY <1>5 DEF Accounted, SameBase, SameMax, PendingOne
    <2>3. ExpectedSinceLast(t) = ExpectedSinceLast(s) /\ LostSinceLast(t) = LostSinceLast(s)
      BY <1>5 DEF ExpectedSinceLast, LostSinceLast, SameBase, SameMax
    <2>4. Fits(s, restarted) => Fits(t, restarted)
      BY <2>3, Zenon DEF Fits
    <2>5. Fresh(s) => Fresh(t)
      BY <1>5 DEF Fresh, SameBase, SameMax
    <2>6. t.received_seq_first_ = s.received_seq_first_
      BY <1>5 DEF SameBase
    <2> QED
      BY <1>5, <2>1, <2>2, <2>4, <2>5, <2>6, Zenon DEF StatInv
  <1>9. StatsInv(stats', skip, restarted)
    <2>1. CASE ssrc = Video
      BY <1>7, <1>8, <2>1, Zenon DEF StatsInv
    <2>2. CASE ssrc # Video
      BY <1>2, <1>7, <2>2, Zenon DEF StatsInv
    <2> QED
      BY <2>1, <2>2
  <1>10. StatsInv(stats', skip', restarted')
    BY <1>1, <1>9
  <1>11. Inv'
    BY <1>1, <1>10 DEF Inv
  <1>12. Asks
    BY <1>1, SameNack DEF Asks
  <1> QED
    BY <1>11, <1>12

LEMMA OtherStep ==
  ASSUME Inv, DeliverRtx \/ (\E ssrc \in {Audio, Video}, first \in {"rr", "bad"} : DeliverRtcp(ssrc, first))
              \/ UNCHANGED vars
  PROVE  Inv' /\ (UNCHANGED vars \/ Asks)
  <1>1. CASE DeliverRtx
    <2>1. /\ rtx' = rtx + 1 /\ stats' = OnRtpPacket(stats, Rtx, rtx, FALSE) /\ ticked' = FALSE
          /\ UNCHANGED <<rtcp, nack, arrivals, reports, got, skip, restarted>>
      BY <1>1 DEF DeliverRtx
    <2>2. rtx \in Nat /\ rtx \in Int
      BY DEF Inv
    <2>3. StatsInv(OnRtpPacket(stats, Rtx, rtx, FALSE), skip, restarted)
      BY <2>2, CountRtx DEF Inv
    <2>4. StatsInv(stats', skip', restarted')
      BY <2>1, <2>3
    <2>5. Inv'
      <3>1. arrivals' \in Nat /\ rtx' \in Nat /\ reports' \in Nat
        BY <2>1 DEF Inv
      <3>2. NackInv(nack', got') /\ ticked' \in BOOLEAN
        BY <2>1 DEF Inv
      <3> QED
        BY <2>4, <3>1, <3>2 DEF Inv
    <2>6. Asks
      BY <2>1, SameNack DEF Asks
    <2> QED
      BY <2>5, <2>6
  <1>2. ASSUME NEW ssrc \in {Audio, Video}, NEW first \in {"rr", "bad"}, DeliverRtcp(ssrc, first)
        PROVE  Inv' /\ Asks
    <2>1. /\ reports' \in {reports, reports + 1} /\ ticked' = FALSE
          /\ UNCHANGED <<stats, nack, arrivals, rtx, got, skip, restarted>>
      BY <1>2 DEF DeliverRtcp
    <2>2. Inv'
      <3>1. arrivals' \in Nat /\ rtx' \in Nat /\ reports' \in Nat
        BY <2>1 DEF Inv
      <3>2. NackInv(nack', got') /\ ticked' \in BOOLEAN /\ StatsInv(stats', skip', restarted')
        BY <2>1 DEF Inv
      <3> QED
        BY <3>1, <3>2 DEF Inv
    <2>3. Asks
      BY <2>1, SameNack DEF Asks
    <2> QED
      BY <2>2, <2>3
  <1>3. CASE UNCHANGED vars
    BY <1>3 DEF vars, Inv
  <1> QED
    BY <1>1, <1>2, <1>3

--------------------------------------------------------------------------------
(* What is sent. *)

Sending == Receiver(rtcp) /\ SoundCompound(out, got)

LEMMA PassKeeps ==
  ASSUME NEW m, Receiver(m)
  PROVE  Receiver(Pass(m))
  BY DEF Receiver, Pass

LEMMA HandleKeeps ==
  ASSUME NEW m, Receiver(m), NEW block
  PROVE  Receiver(HandleBlock(m, block))
  <1>1. Receiver(HandleSenderReport(m, block))
    BY DEF Receiver, HandleSenderReport
  <1>2. Receiver([m EXCEPT !.num_skipped_packets_ = @ + 1])
    BY DEF Receiver
  <1> QED
    BY <1>1, <1>2 DEF HandleBlock

(* IncomingRtcpPacket of two blocks, of which either may be the last handled.  *)
LEMMA IncomingKeeps ==
  ASSUME NEW m, Receiver(m), NEW b, NEW c
  PROVE  Receiver(IncomingRtcpPacket(m, <<b, c>>))
  <1> DEFINE blocks == <<b, c>>
             bad == {i \in DOMAIN blocks : blocks[i].type = "bad"}
             last == IF bad = {} THEN Len(blocks) ELSE CHOOSE i \in bad : \A j \in bad : i <= j
             F(f) == [i \in 0 .. Len(blocks) |-> IF i = 0 THEN m ELSE HandleBlock(f[i - 1], blocks[i])]
             handled == CHOOSE f : f = F(f)
  <1>1. IncomingRtcpPacket(m, blocks) = IF last = 1 /\ bad # {} THEN m ELSE handled[last]
    BY DEF IncomingRtcpPacket
  <1>2. Len(blocks) = 2 /\ DOMAIN blocks = 1 .. 2
    OBVIOUS
  <1>3. last \in 1 .. 2
    <2>1. bad \in SUBSET Nat /\ bad \subseteq 1 .. 2
      BY <1>2
    <2> HIDE DEF bad, blocks
    <2>2. bad # {} => \E i \in bad : \A j \in bad : i <= j
      BY <2>1, Least
    <2>3. CASE bad = {}
      BY <1>2, <2>3
    <2>4. CASE bad # {}
      <3>1. last \in bad
        BY <2>2, <2>4
      <3> QED
        BY <2>1, <3>1
    <2> QED
      BY <2>3, <2>4
  <1>4. handled = F(handled)
    <2> DEFINE one == HandleBlock(m, blocks[1])
               two == HandleBlock(one, blocks[2])
               g == [i \in 0 .. 2 |-> IF i = 0 THEN m ELSE IF i = 1 THEN one ELSE two]
    <2> HIDE DEF blocks
    <2>1. g[0] = m /\ g[1] = one /\ g[2] = two
      OBVIOUS
    <2> HIDE DEF one, two
    <2>2. \A i \in 0 .. 2 :
             g[i] = IF i = 0 THEN m ELSE HandleBlock(g[i - 1], blocks[i])
      <3> HIDE DEF g
      <3> TAKE i \in 0 .. 2
      <3>1. i = 0 \/ (i = 1 /\ i - 1 = 0) \/ (i = 2 /\ i - 1 = 1)
        OBVIOUS
      <3> QED
        BY <2>1, <3>1 DEF one, two
    <2>3. g = F(g)
      BY <1>2, <2>2
    <2> HIDE DEF g, F
    <2> QED
      BY <2>3
  <1>5. /\ handled[0] = m
        /\ handled[1] = HandleBlock(handled[0], blocks[1])
        /\ handled[2] = HandleBlock(handled[1], blocks[2])
    <2> HIDE DEF handled
    <2>1. \A i \in 0 .. 2 :
             handled[i] = IF i = 0 THEN m ELSE HandleBlock(handled[i - 1], blocks[i])
      BY <1>2, <1>4
    <2> HIDE DEF blocks
    <2> QED
      BY <2>1
  <1> HIDE DEF handled, last, bad, blocks
  <1>6. Receiver(handled[1]) /\ Receiver(handled[2])
    BY <1>5, HandleKeeps
  <1>7. last = 1 \/ last = 2
    BY <1>3
  <1> QED
    BY <1>1, <1>6, <1>7 DEF blocks

LEMMA SendingStep ==
  ASSUME Inv, Sending, [Next]_vars
  PROVE  Sending'
  <1> USE DEF Sending
  <1>1. ASSUME NEW s \in Arriving, NEW late \in Lateness, NEW key \in KeyFrameFlags,
               NEW d \in Durations, DeliverVideo(s, late, key, d)
        PROVE  Sending'
    <2> DEFINE counted == OnRtpPacket(stats, Video, s, late)
               result == OnReceivedPacket(nack, s, key, FALSE)
               ids == NackOrder(result.batch, s)
               call == IF result.batch = {} THEN Nothing(rtcp, counted)
                       ELSE SendNack(rtcp, counted, ids, d)
    <2>1. Near(nack, s) /\ key \in BOOLEAN
      BY VideoNear, ReceiveAssumption
    <2>2. /\ nack' = result.n
          /\ got' = Heard(got, s, result.n.newest_seq_num_)
          /\ rtcp' = call.m /\ out' = call.out
      BY <1>1 DEF DeliverVideo, Apply, Heard, Half
    <2>3. Unheard(result.batch, got')
      BY <2>1, <2>2, Received DEF Inv
    <2> HIDE DEF result, counted
    <2>4. CASE result.batch = {}
      BY <2>2, <2>4 DEF Nothing, SoundCompound
    <2>5. CASE result.batch # {}
      <3>1. ids # <<>> /\ ToSet(ids) \cap got' = {}
        <4>1. s \in SeqNums
          BY <2>1 DEF Near
        <4>2. result.batch \in SUBSET SeqNums
          BY <2>3 DEF Unheard
        <4>3. ids # <<>> /\ ToSet(ids) \subseteq result.batch
          BY <2>5, <4>1, <4>2, NackOrdered
        <4> QED
          BY <2>3, <4>3 DEF Unheard
      <3> HIDE DEF ids
      <3>2. call = SendRTCP(rtcp, counted, "nack", ids, d)
        BY <2>5 DEF SendNack
      <3> HIDE DEF call
      <3>3. PICK g : g = got'
        OBVIOUS
      <3>4. Receiver(call.m) /\ SoundCompound(call.out, g)
        BY <3>1, <3>2, <3>3, SendKeeps
      <3> QED
        BY <2>2, <3>3, <3>4
    <2> QED
      BY <2>4, <2>5
  <1>2. ASSUME NEW d \in Durations, NackTimer(d)
        PROVE  Sending'
    <2> DEFINE due == ProcessNacks(Elapse(nack))
               ids == NackOrder(due.batch, nack.newest_seq_num_)
               call == IF due.batch = {} THEN Nothing(Pass(rtcp), stats)
                       ELSE SendNack(Pass(rtcp), stats, ids, d)
    <2>1. got' = got /\ rtcp' = call.m /\ out' = call.out
      BY <1>2 DEF NackTimer, Apply
    <2>2. Unheard(due.batch, got)
      BY Timer DEF Inv
    <2>3. Receiver(Pass(rtcp))
      BY PassKeeps
    <2> HIDE DEF due
    <2>4. CASE due.batch = {}
      BY <2>1, <2>3, <2>4 DEF Nothing, SoundCompound
    <2>5. CASE due.batch # {}
      <3>1. ids # <<>> /\ ToSet(ids) \cap got = {}
        <4>1. nack.newest_seq_num_ \in SeqNums
          BY DEF Inv, NackInv, Requesters
        <4>2. due.batch \in SUBSET SeqNums
          BY <2>2 DEF Unheard
        <4>3. ids # <<>> /\ ToSet(ids) \subseteq due.batch
          BY <2>5, <4>1, <4>2, NackOrdered
        <4> QED
          BY <2>2, <4>3 DEF Unheard
      <3> HIDE DEF ids
      <3>2. call = SendRTCP(Pass(rtcp), stats, "nack", ids, d)
        BY <2>5 DEF SendNack
      <3> HIDE DEF call
      <3>3. PICK p : p = Pass(rtcp)
        OBVIOUS
      <3>4. Receiver(call.m) /\ SoundCompound(call.out, got)
        BY <2>3, <3>1, <3>2, <3>3, SendKeeps
      <3> QED
        BY <2>1, <3>4
    <2> QED
      BY <2>4, <2>5
  <1>3. ASSUME NEW d \in Durations, ReportTimer(d)
        PROVE  Sending'
    <2> DEFINE call == SendRTCP(rtcp, stats, "rr", <<>>, d)
    <2>1. got' = got /\ rtcp' = call.m /\ out' = call.out
      BY <1>3 DEF ReportTimer, Apply, SendRTCPReceiveReport
    <2>2. Receiver(call.m) /\ SoundCompound(call.out, got)
      BY SendKeeps
    <2> QED
      BY <2>1, <2>2
  <1>4. ASSUME NEW d \in Durations, ReportTask(d)
        PROVE  Sending'
    <2>1. PICK t : t = [rtcp EXCEPT !.tasks = @ \ {0}]
      OBVIOUS
    <2> DEFINE call == RunTask(rtcp, stats, d)
    <2>2. Receiver(t)
      BY <2>1 DEF Receiver
    <2>3. got' = got /\ rtcp' = call.m /\ out' = call.out
      BY <1>4 DEF ReportTask, Apply
    <2>4. call = IF TimeToSendRTCPPacket(t, FALSE) THEN SendRTCP(t, stats, "report", <<>>, d)
                 ELSE Nothing(t, stats)
      BY <2>1 DEF RunTask
    <2> HIDE DEF call
    <2>5. CASE TimeToSendRTCPPacket(t, FALSE)
      <3>1. Receiver(call.m) /\ SoundCompound(call.out, got)
        BY <2>2, <2>4, <2>5, SendKeeps
      <3> QED
        BY <2>3, <3>1
    <2>6. CASE ~ TimeToSendRTCPPacket(t, FALSE)
      BY <2>2, <2>3, <2>4, <2>6 DEF Nothing, SoundCompound
    <2> QED
      BY <2>5, <2>6
  <1>5. ASSUME NEW ssrc \in {Audio, Video}, NEW first \in {"rr", "bad"}, DeliverRtcp(ssrc, first)
        PROVE  Sending'
    <2>1. PICK b : b = [type |-> first]
      OBVIOUS
    <2>2. PICK c : c = [type |-> "sr", ssrc |-> ssrc, stamp |-> reports + 1]
      OBVIOUS
    <2>3. rtcp' = IncomingRtcpPacket(rtcp, <<b, c>>) /\ out' = <<>>
      BY <1>5, <2>1, <2>2 DEF DeliverRtcp
    <2> QED
      BY <2>3, IncomingKeeps DEF SoundCompound
  <1>6. ASSUME DeliverRtx \/ \E ssrc \in DOMAIN stats.statisticians_ : SourceSilent(ssrc)
        PROVE  Sending'
    BY <1>6 DEF DeliverRtx, SourceSilent, SoundCompound
  <1>7. CASE UNCHANGED vars
    BY <1>7 DEF vars
  <1> QED
    BY <1>1, <1>2, <1>3, <1>4, <1>5, <1>6, <1>7 DEF Next

LEMMA StepInv ==
  ASSUME Inv, [Next]_vars
  PROVE  Inv' /\ (UNCHANGED vars \/ Asks)
  BY VideoStep, NackTimerStep, ReportStep, SilentStep, OtherStep DEF Next

(* The invariants of NackRequester and of the video's statistician hold after   *)
(* every call, in any order of arrivals, timers and reports.                    *)
THEOREM Invariance == Spec => []Inv
  <1>1. Init => Inv
    BY InitInv
  <1>2. Inv /\ [Next]_vars => Inv'
    BY StepInv
  <1> QED
    BY <1>1, <1>2, PTL DEF Spec

(* Every object stays what its class allows: numbers in the 16-bit space, a      *)
(* histogram of NumBuckets buckets, retries below the limit.                    *)
THEOREM TypeCorrect == Spec => []TypeOK
  <1>1. Inv => TypeOK
    BY DEF Inv, NackInv, StatsInv, StatInv, TypeOK
  <1> QED
    BY <1>1, Invariance, PTL

(* nack_requester.cpp: the list never outgrows kMaxNackPackets and holds only    *)
(* packets that are missing, young enough and not asked for too often, for any  *)
(* loss, reordering and duplication within half a turn.                         *)
THEOREM Missing == Spec => []NackListSound
  <1>1. Inv => NackListSound
    <2> SUFFICES ASSUME Inv PROVE NackListSound
      OBVIOUS
    <2>1. NackList(nack.nack_list_)
      BY NackListIff DEF Inv, NackInv, Requesters
    <2>2. \A s \in DOMAIN nack.nack_list_ : nack.nack_list_[s].retries < MaxNackRetries
      BY <2>1, NackAssumption DEF NackList, Info
    <2> QED
      BY <2>2 DEF Inv, NackInv, ListSound, NackListSound
  <1> QED
    BY <1>1, Invariance, PTL

(* receive_statistics_impl.cpp: the cumulative loss kept packet by packet is     *)
(* that of RFC 3550, and the next report block can hold its fields, across      *)
(* wrap-around, restarts and reports that leave the video out.                  *)
THEOREM Reception == Spec => []ReceptionReported
  <1>1. Inv => ReceptionReported
    <2> SUFFICES ASSUME Inv PROVE ReceptionReported
      OBVIOUS
    <2>1. StatInv(VideoStats, skip, restarted)
      BY DEF Inv, StatsInv, VideoStats
    <2> DEFINE v == VideoStats
    <2>2. LossAccounting
      BY <2>1 DEF StatInv, LossAccounting, ReceivedRtpPacket, Accounted, PendingOne
    <2>3. ReportFits
      BY <2>1 DEF StatInv, ReportFits, ReceivedRtpPacket, Fits
    <2> QED
      BY <2>2, <2>3 DEF ReceptionReported
  <1> QED
    BY <1>1, Invariance, PTL

(* rtcp_sender.cpp, nack_requester.cpp: whatever loss, reordering and restarts   *)
(* the network brings and however reports and requests interleave, a compound   *)
(* packet begins with the report, and a NACK in it names at least one packet    *)
(* and none that was received.                                                  *)
THEOREM NacksMissing == Spec => []NacksAreMissing
  <1>1. Init => Sending
    BY DEF Init, Sending, Receiver, SoundCompound, SetRTCPStatus,
           SetNextRtcpSendEvaluationDuration, Module
  <1>2. Inv /\ Sending /\ [Next]_vars => Sending'
    BY SendingStep
  <1>3. Sending => NacksAreMissing
    BY DEF Sending, SoundCompound, NacksAreMissing
  <1> QED
    BY <1>1, <1>2, <1>3, Invariance, PTL DEF Spec

(* GetNackBatch: a request is repeated only by the timer and only after Rtt,     *)
(* and the timer leaves no packet without a request within Rtt.                 *)
THEOREM Requests == Spec => AskedOncePerRtt
  <1>1. Inv /\ [Next]_vars => [Asks]_vars
    BY StepInv
  <1>2. [Asks]_vars => [LET old == nack.nack_list_  new == nack'.nack_list_ IN
       /\ ticked' => \A s \in DOMAIN new : new[s].since \in 0 .. Rtt
       /\ \A s \in DOMAIN old \cap DOMAIN new : new[s].retries > old[s].retries =>
              old[s].since = None \/ (ticked' /\ old[s].since >= Rtt)]_vars
    BY DEF Asks
  <1> QED
    BY <1>1, <1>2, Invariance, PTL DEF Spec, AskedOncePerRtt
================================================================================
