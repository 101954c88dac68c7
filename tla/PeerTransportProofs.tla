------------------------- MODULE PeerTransportProofs -------------------------
(***************************************************************************)
(* Proofs about PeerTransport, for any finite set of transports, and about *)
(* Negotiation, for any offer.                                             *)
(***************************************************************************)
EXTENDS PeerTransport, Negotiation, FiniteSetTheorems, SequenceTheorems, TLAPS

IceStates == [Transports -> IceTransportState]
DtlsStates == [Transports -> DtlsTransportState]

-----------------------------------------------------------------------------
(* The two summaries.                                                      *)

(* A count says whether some transport is in the state, and whether all    *)
(* are.                                                                    *)
LEMMA Counts ==
    ASSUME NEW f, DOMAIN f = Transports, NEW s
    PROVE  /\ Count(f, s) \in Nat
           /\ Count(f, s) > 0 <=> \E t \in Transports : f[t] = s
           /\ Count(f, s) <= Cardinality(Transports)
           /\ Count(f, s) = Cardinality(Transports) <=> \A t \in Transports : f[t] = s
<1> DEFINE T == {t \in Transports : f[t] = s}
<1>1. Count(f, s) = Cardinality(T)
  BY DEF Count
<1>2. IsFiniteSet(Transports) /\ T \in SUBSET Transports
  BY TransportsAssumption
<1>3. IsFiniteSet(T) /\ Cardinality(T) <= Cardinality(Transports)
      /\ (Cardinality(Transports) = Cardinality(T) => Transports = T)
  BY <1>2, FS_Subset
<1>4. Cardinality(T) \in Nat /\ Cardinality(Transports) \in Nat
  BY <1>2, <1>3, FS_CardinalityType
<1>5. Cardinality(T) = 0 <=> T = {}
  BY <1>3, FS_EmptySet
<1>6. (\A t \in Transports : f[t] = s) => T = Transports
  OBVIOUS
<1>7. T = Transports => Cardinality(T) = Cardinality(Transports)
  OBVIOUS
<1>8. Cardinality(T) > 0 <=> \E t \in Transports : f[t] = s
  BY <1>4, <1>5
<1> QED BY <1>1, <1>3, <1>4, <1>6, <1>7, <1>8

(* Two different states cannot both be counted for the same transport.     *)
LEMMA CountsDisjoint ==
    ASSUME NEW f, DOMAIN f = Transports, NEW r, NEW s, r # s
    PROVE  Count(f, r) + Count(f, s) <= Cardinality(Transports)
<1> DEFINE R == {t \in Transports : f[t] = r}
           S == {t \in Transports : f[t] = s}
<1>1. Count(f, r) = Cardinality(R) /\ Count(f, s) = Cardinality(S)
  BY DEF Count
<1>2. IsFiniteSet(Transports) /\ R \in SUBSET Transports /\ S \in SUBSET Transports
      /\ R \cup S \in SUBSET Transports /\ R \cap S = {}
  BY TransportsAssumption
<1> HIDE DEF R, S
<1>3. IsFiniteSet(R) /\ IsFiniteSet(S) /\ Cardinality(R \cup S) <= Cardinality(Transports)
  BY <1>2, FS_Subset
<1>4. Cardinality(R \cup S) = Cardinality(R) + Cardinality(S) - Cardinality(R \cap S)
  BY <1>3, FS_Union
<1>5. Cardinality(R) \in Nat /\ Cardinality(S) \in Nat /\ Cardinality(R \cap S) = 0
  BY <1>2, <1>3, FS_CardinalityType, FS_EmptySet
<1> QED BY <1>1, <1>3, <1>4, <1>5

(* IceAgent's summary: what each of its values says of the channels.       *)
LEMMA AgentStateMeans ==
    ASSUME NEW ice \in IceStates
    PROVE  /\ AgentState(ice) \in IceTransportState
           /\ AgentState(ice) = "failed" <=> \E t \in Transports : ice[t] = "failed"
           /\ AgentState(ice) = "disconnected" =>
                 \E t \in Transports : ice[t] = "disconnected"
           /\ AgentState(ice) \in {"new", "checking", "connected"} =>
                 \A t \in Transports : ice[t] \notin {"failed", "disconnected"}
           /\ AgentState(ice) = "new" => \A t \in Transports : ice[t] = "new"
           /\ AgentState(ice) = "checking" =>
                 /\ \E t \in Transports : ice[t] \in {"new", "checking"}
                 /\ \E t \in Transports : ice[t] # "new"
           /\ AgentState(ice) = "connected" => \A t \in Transports : ice[t] = "connected"
<1>1. DOMAIN ice = Transports
  BY DEF IceStates
<1>2. \A s : /\ Count(ice, s) \in Nat
             /\ Count(ice, s) > 0 <=> \E t \in Transports : ice[t] = s
             /\ Count(ice, s) = Cardinality(Transports) <=> \A t \in Transports : ice[t] = s
  BY <1>1, Counts
<1>3. Count(ice, "new") + Count(ice, "checking") > 0
         <=> \E t \in Transports : ice[t] \in {"new", "checking"}
  <2>1. Count(ice, "new") + Count(ice, "checking") > 0
           <=> Count(ice, "new") > 0 \/ Count(ice, "checking") > 0
    BY <1>2
  <2> QED BY <1>2, <2>1
<1>4. \A t \in Transports : ice[t] \in IceTransportState
  BY DEF IceStates
<1> QED BY <1>1, <1>2, <1>3, <1>4 DEF AgentState, IceTransportState

(* The summary of the TransportController.                                 *)
Mixed(ice, d) ==
    /\ \E t \in Transports : ice[t] # "new"
    /\ \/ \E t \in Transports : ice[t] \in {"new", "checking"}
       \/ \E t \in Transports : d[t] \in {"new", "connecting"}

LEMMA PcStateMeans ==
    ASSUME NEW ice \in IceStates, NEW d \in DtlsStates
    PROVE  /\ PcState(ice, d) \in PeerConnectionState
           /\ PcState(ice, d) = "failed"
                 <=> \E t \in Transports : ice[t] = "failed" \/ d[t] = "failed"
           /\ PcState(ice, d) # "failed" /\ (\E t \in Transports : ice[t] = "disconnected")
                 => PcState(ice, d) = "disconnected"
           /\ PcState(ice, d) = "connected" =>
                 \A t \in Transports : ice[t] = "connected" /\ d[t] \in {"connected", "closed"}
           /\ PcState(ice, d) # "failed" /\ Mixed(ice, d)
              /\ (\A t \in Transports : ice[t] # "disconnected")
                 => PcState(ice, d) = "connecting"
<1>1. DOMAIN ice = Transports /\ DOMAIN d = Transports
  BY DEF IceStates, DtlsStates
<1>2. \A s : /\ Count(ice, s) \in Nat /\ Count(d, s) \in Nat
             /\ Count(ice, s) > 0 <=> \E t \in Transports : ice[t] = s
             /\ Count(d, s) > 0 <=> \E t \in Transports : d[t] = s
             /\ Count(ice, s) <= Cardinality(Transports)
             /\ Count(ice, s) = Cardinality(Transports) <=> \A t \in Transports : ice[t] = s
  BY <1>1, Counts
<1>3. Count(d, "new") + Count(d, "closed") <= Cardinality(Transports)
  BY <1>1, CountsDisjoint
<1>4. Cardinality(Transports) \in Nat
  BY TransportsAssumption, FS_CardinalityType
<1>5. Count(ice, "failed") + Count(d, "failed") > 0
         <=> \E t \in Transports : ice[t] = "failed" \/ d[t] = "failed"
  <2>1. Count(ice, "failed") + Count(d, "failed") > 0
           <=> Count(ice, "failed") > 0 \/ Count(d, "failed") > 0
    BY <1>2
  <2> QED BY <1>2, <2>1
<1>6. Count(ice, "checking") + Count(d, "connecting") + (Count(ice, "new") + Count(d, "new")) > 0
         <=> \E t \in Transports : ice[t] \in {"new", "checking"} \/ d[t] \in {"new", "connecting"}
  <2>1. Count(ice, "checking") + Count(d, "connecting") + (Count(ice, "new") + Count(d, "new")) > 0
           <=> \/ Count(ice, "checking") > 0 \/ Count(d, "connecting") > 0
               \/ Count(ice, "new") > 0 \/ Count(d, "new") > 0
    BY <1>2
  <2> QED BY <1>2, <2>1
<1>7. (\E t \in Transports : ice[t] # "new") =>
         (Count(ice, "new") + Count(d, "new")) + Count(d, "closed") # 2 * Cardinality(Transports)
  <2>1. ASSUME \E t \in Transports : ice[t] # "new"
        PROVE  Count(ice, "new") < Cardinality(Transports)
    BY <1>2, <1>4, <2>1
  <2> QED BY <1>2, <1>3, <1>4, <2>1
<1>8. \A t \in Transports : ice[t] \in IceTransportState /\ d[t] \in DtlsTransportState
  BY DEF IceStates, DtlsStates
<1>9. Count(ice, "disconnected") > 0 <=> \E t \in Transports : ice[t] = "disconnected"
  BY <1>2
<1> DEFINE a == Count(ice, "failed") + Count(d, "failed")
           b == Count(ice, "disconnected")
           n == (Count(ice, "new") + Count(d, "new")) + Count(d, "closed")
           e == Count(ice, "checking") + Count(d, "connecting") + (Count(ice, "new") + Count(d, "new"))
           k == (Count(ice, "connected") + Count(d, "connected")) + Count(d, "closed")
           m == 2 * Cardinality(Transports)
<1>10. PcState(ice, d) =
          IF a > 0 THEN "failed" ELSE IF b > 0 THEN "disconnected"
          ELSE IF n = m THEN "new" ELSE IF e > 0 THEN "connecting"
          ELSE IF k = m THEN "connected" ELSE "new"
  BY <1>1 DEF PcState
<1>11. /\ a > 0 <=> \E t \in Transports : ice[t] = "failed" \/ d[t] = "failed"
       /\ b > 0 <=> \E t \in Transports : ice[t] = "disconnected"
       /\ e > 0 <=> \E t \in Transports : ice[t] \in {"new", "checking"} \/ d[t] \in {"new", "connecting"}
       /\ (\E t \in Transports : ice[t] # "new") => n # m
  BY <1>5, <1>6, <1>7, <1>9
<1> HIDE DEF a, b, n, e, k, m
<1> QED BY <1>8, <1>10, <1>11 DEF Mixed, PeerConnectionState, IceTransportState, DtlsTransportState

(* IceAgent passes on only the changes of its own summary, and that is     *)
(* enough: as long as it does not change, neither does the summary of the  *)
(* TransportController.                                                    *)
LEMMA AgentIsEnough ==
    ASSUME NEW ice1 \in IceStates, NEW ice2 \in IceStates, NEW d \in DtlsStates,
           AgentState(ice1) = AgentState(ice2)
    PROVE  PcState(ice1, d) = PcState(ice2, d)
<1> DEFINE a == AgentState(ice1)
<1>1. CASE a = "failed"
  <2>1. (\E t \in Transports : ice1[t] = "failed") /\ (\E t \in Transports : ice2[t] = "failed")
    BY <1>1, AgentStateMeans
  <2> QED BY <2>1, PcStateMeans
<1>2. CASE \E t \in Transports : d[t] = "failed"
  BY <1>2, PcStateMeans
<1>3. ASSUME ~\E t \in Transports : d[t] = "failed", a = "disconnected"
      PROVE  PcState(ice1, d) = PcState(ice2, d)
  <2>1. /\ \E t \in Transports : ice1[t] = "disconnected"
        /\ \E t \in Transports : ice2[t] = "disconnected"
    BY <1>3, AgentStateMeans
  <2>2. ~(\E t \in Transports : ice1[t] = "failed") /\ ~(\E t \in Transports : ice2[t] = "failed")
    BY <1>3, AgentStateMeans
  <2> QED BY <1>3, <2>1, <2>2, PcStateMeans
<1>4. CASE a \in {"new", "connected"}
  <2>1. \A t \in Transports : ice1[t] = a /\ ice2[t] = a
    BY <1>4, AgentStateMeans
  <2>2. ice1 = ice2
    BY <2>1 DEF IceStates
  <2> QED BY <2>2
<1>5. ASSUME ~\E t \in Transports : d[t] = "failed", a = "checking"
      PROVE  PcState(ice1, d) = PcState(ice2, d)
  <2>1. Mixed(ice1, d) /\ Mixed(ice2, d)
    BY <1>5, AgentStateMeans DEF Mixed
  <2>2. \A t \in Transports : ice1[t] \notin {"failed", "disconnected"}
                           /\ ice2[t] \notin {"failed", "disconnected"}
    BY <1>5, AgentStateMeans
  <2> QED BY <1>5, <2>1, <2>2, PcStateMeans
<1>6. a \in IceTransportState
  BY AgentStateMeans
<1> QED BY <1>1, <1>2, <1>3, <1>4, <1>5, <1>6 DEF IceTransportState

-----------------------------------------------------------------------------
(* What the callback that goes on has reported so far.                     *)
Before == IF within = {} THEN {} ELSE reports

(* What _update_state leaves and reports for at most three moments.        *)
LEMMA Reports ==
    ASSUME NEW x, NEW y, NEW z
    PROVE  /\ UpdateState(<<>>) => pc' = pc /\ reports' \subseteq Before
           /\ UpdateState(<<x>>) => pc' = x /\ reports' \subseteq Before \cup {x}
           /\ UpdateState(<<x, y>>) =>
                 pc' = y /\ \A s \in reports' : s \in Before \/ s = y \/ (s = x /\ x # pc)
           /\ UpdateState(<<x, y, z>>) =>
                 /\ pc' = z
                 /\ \A s \in reports' : s \in Before \/ s \in {y, z} \/ (s = x /\ x # pc)
<1>1. UpdateState(<<>>) => pc' = pc /\ reports' \subseteq Before
  BY DEF UpdateState, Reported, Before
<1>2. UpdateState(<<x>>) => pc' = x /\ reports' \subseteq Before \cup {x}
  BY DEF UpdateState, Reported, Before
<1>3. UpdateState(<<x, y>>) =>
         pc' = y /\ \A s \in reports' : s \in Before \/ s = y \/ (s = x /\ x # pc)
  BY DEF UpdateState, Reported, Before
<1>4. UpdateState(<<x, y, z>>) =>
         /\ pc' = z
         /\ \A s \in reports' : s \in Before \/ s \in {y, z} \/ (s = x /\ x # pc)
  BY DEF UpdateState, Reported, Before
<1> QED BY <1>1, <1>2, <1>3, <1>4

(* Sequences of two and of three moments.                                  *)
LEMMA JoinedOne ==
    ASSUME NEW x, NEW y
    PROVE  <<x>> \o <<y>> = <<x, y>>
<1> DEFINE S == {x, y}
           s == <<x>> \o <<y>>
<1>1. <<x>> \in Seq(S) /\ <<y>> \in Seq(S) /\ <<x, y>> \in Seq(S)
      /\ Len(<<x>>) = 1 /\ Len(<<y>>) = 1 /\ Len(<<x, y>>) = 2
  OBVIOUS
<1>2. /\ s \in Seq(S) /\ Len(s) = 1 + 1
      /\ \A i \in 1 .. 1 + 1 : s[i] = IF i <= 1 THEN <<x>>[i] ELSE <<y>>[i - 1]
  BY <1>1, ConcatProperties
<1>3. s[1] = x /\ s[2] = y
  BY <1>2
<1> HIDE DEF s, S
<1>4. \A i \in 1 .. Len(s) : s[i] = <<x, y>>[i]
  BY <1>2, <1>3
<1>5. s = <<x, y>>
  BY <1>1, <1>2, <1>4, SeqEqual
<1> QED BY <1>5 DEF s

LEMMA JoinedTwo ==
    ASSUME NEW x, NEW y, NEW z
    PROVE  <<x, y>> \o <<z>> = <<x, y, z>>
<1> DEFINE S == {x, y, z}
           s == <<x, y>> \o <<z>>
<1>1. <<x, y>> \in Seq(S) /\ <<z>> \in Seq(S) /\ <<x, y, z>> \in Seq(S)
      /\ Len(<<x, y>>) = 2 /\ Len(<<z>>) = 1 /\ Len(<<x, y, z>>) = 3
  OBVIOUS
<1>2. /\ s \in Seq(S) /\ Len(s) = 2 + 1
      /\ \A i \in 1 .. 2 + 1 : s[i] = IF i <= 2 THEN <<x, y>>[i] ELSE <<z>>[i - 2]
  BY <1>1, ConcatProperties
<1>3. s[1] = x /\ s[2] = y /\ s[3] = z
  BY <1>2
<1> HIDE DEF s, S
<1>4. \A i \in 1 .. Len(s) : s[i] = <<x, y, z>>[i]
  BY <1>2, <1>3
<1>5. s = <<x, y, z>>
  BY <1>1, <1>2, <1>4, SeqEqual
<1> QED BY <1>5 DEF s

LEMMA Joined ==
    ASSUME NEW x, NEW y, NEW z
    PROVE  /\ <<>> \o <<>> = <<>> /\ <<>> \o <<x>> = <<x>>
           /\ <<x>> \o <<>> = <<x>> /\ <<x>> \o <<y>> = <<x, y>>
           /\ <<x, y>> \o <<>> = <<x, y>> /\ <<x, y>> \o <<z>> = <<x, y, z>>
<1>1. <<>> \o <<>> = <<>> /\ <<>> \o <<x>> = <<x>>
  OBVIOUS
<1>2. <<x>> \o <<>> = <<x>>
  OBVIOUS
<1>3. <<x>> \o <<y>> = <<x, y>>
  BY JoinedOne
<1>4. <<x, y>> \o <<>> = <<x, y>>
  OBVIOUS
<1>5. <<x, y>> \o <<z>> = <<x, y, z>>
  BY JoinedTwo
<1> QED BY <1>1, <1>2, <1>3, <1>4, <1>5

LEMMA MomentsOf ==
    ASSUME NEW t, NEW ls
    PROVE  /\ Moments(t, ls, <<>>) = <<>>
           /\ \A x : Moments(t, ls, <<x>>) = <<PcStateWith(ls, t, x)>>
           /\ \A x, y : Moments(t, ls, <<x, y>>) =
                           <<PcStateWith(ls, t, x), PcStateWith(ls, t, y)>>
<1>1. Moments(t, ls, <<>>) = <<>>
  BY DEF Moments
<1>2. ASSUME NEW x PROVE Moments(t, ls, <<x>>) = <<PcStateWith(ls, t, x)>>
  BY DEF Moments
<1>3. ASSUME NEW x, NEW y
      PROVE  Moments(t, ls, <<x, y>>) = <<PcStateWith(ls, t, x), PcStateWith(ls, t, y)>>
  BY DEF Moments
<1> QED BY <1>1, <1>2, <1>3

-----------------------------------------------------------------------------
(* DTLS is started as soon as it can be, and nothing is left in the cache. *)
Prompt(d, w) ==
    /\ d.ssl /\ w => d.state # "new"
    /\ d.hello # "none" => d.ssl
    /\ d.state \in {"connecting", "connected"} => d.hello = "none"

(* The inductive invariant.  The summary of IceAgent must be fresh as well *)
(* for the TransportController to hear of every change that matters, and a *)
(* callback that goes on must not have made its own channel fail.          *)
IInv ==
    /\ TypeOK
    /\ agent = AgentState(IceOf(links))
    /\ ReportsSound
    /\ \A t \in Transports : Prompt(dtls[t], links[t].writable)
    /\ SrtpFollowsDtls
    /\ \A t \in Transports : within = {t} => links[t].state # "failed"

(* What the handlers that may start DTLS make of a DtlsTransport in state  *)
(* s: nothing, or it fails to start, or it is started, and fails at once   *)
(* on a bad ClientHello.                                                   *)
Outcome(s, r) ==
    \/ r.via = <<>> /\ r.d.state = s
    \/ r.via = <<"failed">> /\ r.d.state = "failed" /\ s = "new"
    \/ r.via = <<"connecting">> /\ r.d.state = "connecting" /\ s = "new"
    \/ r.via = <<"connecting", "failed">> /\ r.d.state = "failed" /\ s = "new"

LEMMA MaybeStartOutcome ==
    ASSUME NEW d \in DtlsType, NEW w \in BOOLEAN, d.state = "new",
           d.hello # "none" => d.ssl,
           NEW r \in MaybeStartDtls(d, w)
    PROVE  r.d \in DtlsType /\ Outcome(d.state, r) /\ Prompt(r.d, w)
<1> DEFINE n == [d EXCEPT !.hello = "none"]
           df == [d EXCEPT !.state = "failed"]
           nf == [n EXCEPT !.state = "failed"]
           nc == [n EXCEPT !.state = "connecting"]
<1>1. n \in DtlsType /\ df \in DtlsType /\ nf \in DtlsType /\ nc \in DtlsType
  BY DEF DtlsType, DtlsTransportState
<1>2. /\ df.state = "failed" /\ df.hello = d.hello /\ df.ssl = d.ssl
      /\ nf.state = "failed" /\ nf.hello = "none"
      /\ nc.state = "connecting" /\ nc.hello = "none"
  BY DEF DtlsType
<1>3. \/ ~(d.ssl /\ w) /\ r = [d |-> d, via |-> <<>>]
      \/ r = [d |-> df, via |-> <<"failed">>]
      \/ r = [d |-> nf, via |-> <<"connecting", "failed">>]
      \/ r = [d |-> nc, via |-> <<"connecting">>]
  BY DEF MaybeStartDtls, Started, Stays, NowIn
<1> HIDE DEF n, df, nf, nc
<1>4. CASE ~(d.ssl /\ w) /\ r = [d |-> d, via |-> <<>>]
  BY <1>4 DEF Outcome, Prompt
<1>5. CASE r = [d |-> df, via |-> <<"failed">>]
  BY <1>1, <1>2, <1>5 DEF Outcome, Prompt
<1>6. CASE r = [d |-> nf, via |-> <<"connecting", "failed">>]
  BY <1>1, <1>2, <1>6 DEF Outcome, Prompt
<1>7. CASE r = [d |-> nc, via |-> <<"connecting">>]
  BY <1>1, <1>2, <1>7 DEF Outcome, Prompt
<1> QED BY <1>3, <1>4, <1>5, <1>6, <1>7

LEMMA WritableOutcome ==
    ASSUME NEW d \in DtlsType, NEW w \in BOOLEAN, NEW v \in BOOLEAN, v # w, Prompt(d, v),
           NEW r \in OnWritableState(d, w)
    PROVE  r.d \in DtlsType /\ Outcome(d.state, r) /\ Prompt(r.d, w)
<1>1. CASE d.state = "new"
  <2>1. r \in MaybeStartDtls(d, w)
    BY <1>1 DEF OnWritableState
  <2> QED BY <1>1, <2>1, MaybeStartOutcome DEF Prompt
<1>2. CASE d.state = "connected"
  <2> DEFINE dw == [d EXCEPT !.writable = w]
  <2>1. dw \in DtlsType /\ dw.state = d.state /\ dw.hello = d.hello /\ dw.ssl = d.ssl
    BY DEF DtlsType
  <2>2. r = [d |-> dw, via |-> <<>>]
    BY <1>2 DEF OnWritableState, Stays
  <2> HIDE DEF dw
  <2> QED BY <1>2, <2>1, <2>2 DEF Outcome, Prompt
<1>3. CASE d.state \notin {"new", "connected"}
  <2>1. r = [d |-> d, via |-> <<>>]
    BY <1>3 DEF OnWritableState, Stays
  <2> QED BY <1>3, <2>1 DEF Outcome, Prompt
<1> QED BY <1>1, <1>2, <1>3

(* A failure the callback has reported before is not undone by a new value *)
(* of its own channel t, nor by what is signalled of DtlsTransport t.      *)
LEMMA FailureStays ==
    ASSUME IInv, NEW t \in Transports,
           within # {} => within = {t},
           links' \in [Transports -> LinkType], dtls' \in [Transports -> DtlsType],
           \A u \in Transports : u # t => links'[u] = links[u] /\ dtls'[u] = dtls[u],
           dtls[t].state = "failed" => dtls'[t].state = "failed",
           "failed" \in Before
    PROVE  PcState(IceOf(links'), DtlsOf(dtls')) = "failed"
<1>1. within = {t} /\ "failed" \in reports
  BY DEF Before
<1>2. pc = "failed" /\ pc = PcState(IceOf(links), DtlsOf(dtls)) /\ links[t].state # "failed"
  BY <1>1 DEF IInv, ReportsSound, PcStateFresh, FailedIsFinal
<1>3. /\ IceOf(links) \in IceStates /\ IceOf(links') \in IceStates
      /\ DtlsOf(dtls) \in DtlsStates /\ DtlsOf(dtls') \in DtlsStates
  BY DEF IInv, TypeOK, IceOf, DtlsOf, LinkType, DtlsType, IceStates, DtlsStates
<1>4. PICK u \in Transports : IceOf(links)[u] = "failed" \/ DtlsOf(dtls)[u] = "failed"
  BY <1>2, <1>3, PcStateMeans
<1>5. IceOf(links')[u] = "failed" \/ DtlsOf(dtls')[u] = "failed"
  BY <1>2, <1>4 DEF IceOf, DtlsOf
<1> QED BY <1>3, <1>5, PcStateMeans

(* A failure that is reported on the way is not taken back, and what is    *)
(* left is fresh, if the last moment is, or if there is none and nothing   *)
(* changed.                                                                *)
LEMMA StepReports ==
    ASSUME IInv, NEW t \in Transports, NEW r, NEW last,
           within # {} => within = {t},
           r.d \in DtlsType, Outcome(dtls[t].state, r),
           dtls' = [dtls EXCEPT ![t] = r.d],
           links' \in [Transports -> LinkType],
           \A u \in Transports : u # t => links'[u] = links[u],
           UpdateState(Moments(t, links, r.via) \o last),
           \/ /\ last = <<>>
              /\ PcState(IceOf(links), DtlsOf(dtls')) = PcState(IceOf(links'), DtlsOf(dtls'))
           \/ last = <<PcState(IceOf(links'), DtlsOf(dtls'))>>
    PROVE  ReportsSound'
<1> DEFINE D(s) == [DtlsOf(dtls) EXCEPT ![t] = s]
           P == PcState(IceOf(links'), DtlsOf(dtls'))
           x == PcStateWith(links, t, "connecting")
           y == PcStateWith(links, t, "failed")
<1>1. /\ IceOf(links) \in IceStates /\ IceOf(links') \in IceStates
      /\ DtlsOf(dtls) \in DtlsStates /\ DtlsOf(dtls') \in DtlsStates
      /\ dtls' \in [Transports -> DtlsType]
      /\ \A s \in DtlsTransportState : D(s) \in DtlsStates
  BY DEF IInv, TypeOK, IceOf, DtlsOf, LinkType, DtlsType, IceStates, DtlsStates
<1>2. D(r.d.state) = DtlsOf(dtls') /\ DtlsOf(dtls)[t] = dtls[t].state
      /\ DtlsOf(dtls')[t] = r.d.state /\ (r.d.state = dtls[t].state => DtlsOf(dtls') = DtlsOf(dtls))
  BY DEF IInv, TypeOK, DtlsOf
<1>3. pc = PcState(IceOf(links), DtlsOf(dtls))
  BY DEF IInv, ReportsSound, PcStateFresh
<1>4. ASSUME r.d.state = "failed" PROVE P = "failed"
  BY <1>1, <1>2, <1>4, PcStateMeans
<1>5. "failed" \in Before => P = "failed"
  <2>1. \A u \in Transports : u # t => dtls'[u] = dtls[u]
    BY DEF IInv, TypeOK
  <2>2. dtls[t].state = "failed" => dtls'[t].state = "failed"
    <3>1. dtls'[t] = r.d
      BY DEF IInv, TypeOK
    <3>2. dtls[t].state = "failed" => r.d.state = "failed"
      BY DEF Outcome
    <3> QED BY <3>1, <3>2
  <2> QED BY <1>1, <2>1, <2>2, FailureStays
<1>6. r.d.state = "failed" => P = PcStateWith(links, t, r.d.state)
  <2>1. D("failed") \in DtlsStates /\ D("failed")[t] = "failed"
    BY <1>1 DEF DtlsTransportState, DtlsStates
  <2>2. y = PcState(IceOf(links), D("failed"))
    BY DEF PcStateWith
  <2> HIDE DEF D, y, P
  <2>3. PcState(IceOf(links), D("failed")) = "failed"
    BY <1>1, <2>1, PcStateMeans
  <2>4. y = "failed"
    BY <2>2, <2>3
  <2> QED BY <1>4, <2>4 DEF y
<1>7. x = "failed" => pc = "failed"
  <2>1. D("connecting") \in DtlsStates
    BY <1>1 DEF DtlsTransportState
  <2>2. \A u \in Transports : D("connecting")[u] = "failed" => DtlsOf(dtls)[u] = "failed"
    BY <1>1 DEF DtlsStates
  <2>5. x = PcState(IceOf(links), D("connecting"))
    BY DEF PcStateWith
  <2> HIDE DEF D, x
  <2>3. PcState(IceOf(links), D("connecting")) = "failed" =>
           \E u \in Transports : IceOf(links)[u] = "failed" \/ D("connecting")[u] = "failed"
    BY <1>1, <2>1, PcStateMeans
  <2>4. (\E u \in Transports : IceOf(links)[u] = "failed" \/ DtlsOf(dtls)[u] = "failed")
           => pc = "failed"
    BY <1>1, <1>3, PcStateMeans
  <2> QED BY <2>2, <2>3, <2>4, <2>5
<1>8. /\ r.via = <<>> => Moments(t, links, r.via) = <<>>
      /\ r.via = <<"failed">> => Moments(t, links, r.via) = <<y>>
      /\ r.via = <<"connecting">> => Moments(t, links, r.via) = <<x>>
      /\ r.via = <<"connecting", "failed">> => Moments(t, links, r.via) = <<x, y>>
  <2>1. ASSUME r.via = <<>> PROVE Moments(t, links, r.via) = <<>>
    <3>1. Moments(t, links, <<>>) = <<>>
      BY MomentsOf
    <3> QED BY <2>1, <3>1
  <2>2. ASSUME r.via = <<"connecting">> PROVE Moments(t, links, r.via) = <<x>>
    <3>1. Moments(t, links, <<"connecting">>) = <<x>>
      BY MomentsOf
    <3> QED BY <2>2, <3>1
  <2>3. ASSUME r.via = <<"connecting", "failed">> PROVE Moments(t, links, r.via) = <<x, y>>
    <3>1. \A p, q : Moments(t, links, <<p, q>>) =
                       <<PcStateWith(links, t, p), PcStateWith(links, t, q)>>
      BY MomentsOf, Zenon
    <3>2. Moments(t, links, <<"connecting", "failed">>) = <<x, y>>
      BY <3>1, Zenon
    <3> QED BY <2>3, <3>2
  <2>4. ASSUME r.via = <<"failed">> PROVE Moments(t, links, r.via) = <<y>>
    <3>1. Moments(t, links, <<"failed">>) = <<y>>
      BY MomentsOf
    <3> QED BY <2>4, <3>1
  <2> QED BY <2>1, <2>2, <2>3, <2>4
<1>9. P = PcStateWith(links, t, r.d.state) \/ last = <<P>>
  BY <1>2 DEF PcStateWith
<1> HIDE DEF x, y, P, D
<1>10. SUFFICES pc' = P /\ ("failed" \in reports' => "failed" \in Before \/ P = "failed")
  BY <1>5 DEF ReportsSound, PcStateFresh, FailedIsFinal, P
<1>11. CASE r.via = <<>> /\ r.d.state = dtls[t].state
  <2>1. CASE last = <<>>
    <3>1. UpdateState(<<>>)
      BY <1>8, <1>11, <2>1, Joined, Zenon
    <3>2. P = pc
      BY <1>2, <1>3, <1>11, <2>1 DEF P
    <3> QED BY <3>1, <3>2, Reports
  <2>2. CASE last = <<P>>
    <3>1. UpdateState(<<P>>)
      BY <1>8, <1>11, <2>2, Joined, Zenon
    <3>2. pc' = P /\ reports' \subseteq Before \cup {P}
      BY <3>1, Reports, Zenon
    <3> QED BY <3>2
  <2> QED BY <2>1, <2>2 DEF P
<1>12. CASE r.via = <<"connecting">> /\ r.d.state = "connecting" /\ dtls[t].state = "new"
  <2>1. CASE last = <<>>
    <3>1. UpdateState(<<x>>)
      BY <1>8, <1>12, <2>1, Joined, Zenon
    <3>2. P = x
      BY <1>9, <1>12, <2>1 DEF x
    <3>3. pc' = x /\ reports' \subseteq Before \cup {x}
      BY <3>1, Reports, Zenon
    <3> QED BY <3>2, <3>3
  <2>2. CASE last = <<P>>
    <3>1. Moments(t, links, r.via) \o last = <<x, P>>
      BY <1>8, <1>12, <2>2, JoinedOne, Zenon
    <3>2. UpdateState(<<x, P>>)
      BY <3>1, Zenon
    <3>3. pc' = P /\ \A s \in reports' : s \in Before \/ s = P \/ (s = x /\ x # pc)
      BY <3>2, Reports, Zenon
    <3> QED BY <1>7, <3>3
  <2> QED BY <2>1, <2>2 DEF P
<1>13. CASE r.via = <<"connecting", "failed">> /\ r.d.state = "failed" /\ dtls[t].state = "new"
  <2>1. P = y /\ P = "failed"
    BY <1>4, <1>6, <1>13 DEF y
  <2>2. CASE last = <<>>
    <3>1. UpdateState(<<x, y>>)
      BY <1>8, <1>13, <2>2, Joined, Zenon
    <3>2. pc' = y
      BY <3>1, Reports, Zenon
    <3> QED BY <2>1, <3>2
  <2>3. CASE last = <<P>>
    <3>1. Moments(t, links, r.via) \o last = <<x, y, P>>
      BY <1>8, <1>13, <2>3, JoinedTwo, Zenon
    <3>2. UpdateState(<<x, y, P>>)
      BY <3>1, Zenon
    <3>3. pc' = P
      BY <3>2, Reports, Zenon
    <3> QED BY <2>1, <3>3
  <2> QED BY <2>2, <2>3 DEF P
<1>14. CASE r.via = <<"failed">> /\ r.d.state = "failed" /\ dtls[t].state = "new"
  <2>1. P = y /\ P = "failed"
    BY <1>4, <1>6, <1>14 DEF y
  <2>2. CASE last = <<>>
    <3>1. UpdateState(<<y>>)
      BY <1>8, <1>14, <2>2, Joined, Zenon
    <3>2. pc' = y
      BY <3>1, Reports, Zenon
    <3> QED BY <2>1, <3>2
  <2>3. CASE last = <<P>>
    <3>1. Moments(t, links, r.via) \o last = <<y, P>>
      BY <1>8, <1>14, <2>3, JoinedOne, Zenon
    <3>2. UpdateState(<<y, P>>)
      BY <3>1, Zenon
    <3>3. pc' = P
      BY <3>2, Reports, Zenon
    <3> QED BY <2>1, <3>3
  <2> QED BY <2>2, <2>3 DEF P
<1> QED BY <1>11, <1>12, <1>13, <1>14 DEF Outcome

(* The same for the handlers of DTLS packets, which signal one state, or   *)
(* connected and then the state they end in; no callback of a channel goes *)
(* on while they run.                                                      *)
LEMMA LastReports ==
    ASSUME IInv, within = {}, NEW t \in Transports, NEW d \in DtlsType,
           dtls[t].state # "failed",
           dtls' = [dtls EXCEPT ![t] = d], links' = links,
           \/ UpdateState(Moments(t, links, <<d.state>>))
           \/ UpdateState(Moments(t, links, <<"connected", d.state>>))
    PROVE  ReportsSound'
<1> DEFINE P == PcStateWith(links, t, d.state)
           x == PcStateWith(links, t, "connected")
<1>1. Moments(t, links, <<d.state>>) = <<P>>
  BY MomentsOf
<1>2. Moments(t, links, <<"connected", d.state>>) = <<x, P>>
  <2>1. \A p, q : Moments(t, links, <<p, q>>) =
                     <<PcStateWith(links, t, p), PcStateWith(links, t, q)>>
    BY MomentsOf, Zenon
  <2> QED BY <2>1, Zenon
<1>3. P = PcState(IceOf(links'), DtlsOf(dtls'))
  <2>1. [DtlsOf(dtls) EXCEPT ![t] = d.state] = DtlsOf(dtls')
    BY DEF IInv, TypeOK, DtlsOf
  <2> QED BY <2>1 DEF PcStateWith
<1>4. x = "failed" => P = "failed"
  <2> DEFINE D == [DtlsOf(dtls) EXCEPT ![t] = "connected"]
  <2>1. /\ IceOf(links) \in IceStates /\ IceOf(links') = IceOf(links)
        /\ DtlsOf(dtls) \in DtlsStates /\ DtlsOf(dtls') \in DtlsStates /\ D \in DtlsStates
    BY DEF IInv, TypeOK, IceOf, DtlsOf, LinkType, DtlsType, IceStates, DtlsStates,
           DtlsTransportState
  <2>2. \A u \in Transports : D[u] = "failed" => DtlsOf(dtls')[u] = "failed"
    BY DEF IInv, TypeOK, DtlsOf
  <2>3. x = PcState(IceOf(links), D)
    BY DEF PcStateWith
  <2> HIDE DEF D, x, P
  <2>4. PcState(IceOf(links), D) = "failed" =>
           \E u \in Transports : IceOf(links)[u] = "failed" \/ D[u] = "failed"
    BY <2>1, PcStateMeans
  <2>5. (\E u \in Transports : IceOf(links')[u] = "failed" \/ DtlsOf(dtls')[u] = "failed")
           => P = "failed"
    BY <1>3, <2>1, PcStateMeans
  <2> QED BY <2>1, <2>2, <2>3, <2>4, <2>5
<1>5. Before = {}
  BY DEF Before
<1> HIDE DEF x, P
<1>6. SUFFICES pc' = P /\ ("failed" \in reports' => P = "failed")
  BY <1>3 DEF ReportsSound, PcStateFresh, FailedIsFinal
<1>7. CASE UpdateState(Moments(t, links, <<d.state>>))
  <2>1. UpdateState(<<P>>)
    BY <1>1, <1>7, Zenon
  <2>2. pc' = P /\ reports' \subseteq Before \cup {P}
    BY <2>1, Reports, Zenon
  <2> QED BY <1>5, <2>2
<1>8. CASE UpdateState(Moments(t, links, <<"connected", d.state>>))
  <2>1. UpdateState(<<x, P>>)
    BY <1>2, <1>8, Zenon
  <2>2. pc' = P /\ \A s \in reports' : s \in Before \/ s = P \/ (s = x /\ x # pc)
    BY <2>1, Reports, Zenon
  <2> QED BY <1>4, <1>5, <2>2
<1> QED BY <1>7, <1>8

(* The keys follow DTLS whenever a handler that makes it connected also    *)
(* makes it writable.                                                      *)
LEMMA KeysFollow ==
    ASSUME IInv, NEW t \in Transports, NEW d \in DtlsType, NEW keys \in BOOLEAN,
           DtlsBecomes(t, d, keys),
           d.state = "connected" => d.state = dtls[t].state \/ d.writable
    PROVE  /\ dtls' = [dtls EXCEPT ![t] = d]
           /\ dtls' \in [Transports -> DtlsType]
           /\ srtp' \in [Transports -> BOOLEAN] /\ noKeys' \in [Transports -> BOOLEAN]
           /\ SrtpFollowsDtls'
<1>1. dtls' = [dtls EXCEPT ![t] = d] /\ dtls' \in [Transports -> DtlsType]
  BY DEF IInv, TypeOK, DtlsBecomes
<1>2. dtls'[t] = d /\ \A u \in Transports : u # t => dtls'[u] = dtls[u]
  BY <1>1 DEF IInv, TypeOK
<1>3. CASE d.state = dtls[t].state
  <2>1. srtp' = srtp /\ noKeys' = noKeys
    BY <1>3 DEF DtlsBecomes
  <2>2. \A u \in Transports : dtls'[u].state = dtls[u].state
    BY <1>2, <1>3
  <2> QED BY <1>1, <2>1, <2>2 DEF IInv, TypeOK, SrtpFollowsDtls
<1>4. CASE d.state # dtls[t].state
  <2>1. /\ srtp' = [srtp EXCEPT ![t] = d.state = "connected" /\ d.writable /\ keys]
        /\ noKeys' = [noKeys EXCEPT ![t] = d.state = "connected" /\ ~keys]
    BY <1>4 DEF DtlsBecomes, SrtpAfter
  <2>2. srtp' \in [Transports -> BOOLEAN] /\ noKeys' \in [Transports -> BOOLEAN]
    BY <2>1 DEF IInv, TypeOK
  <2>3. /\ srtp'[t] <=> d.state = "connected" /\ d.writable /\ keys
        /\ noKeys'[t] <=> d.state = "connected" /\ ~keys
        /\ \A u \in Transports : u # t => srtp'[u] = srtp[u] /\ noKeys'[u] = noKeys[u]
    BY <2>1 DEF IInv, TypeOK
  <2>4. srtp'[t] <=> (dtls'[t].state = "connected" /\ ~noKeys'[t])
    BY <1>2, <1>4, <2>3
  <2>5. \A u \in Transports : u # t =>
           (srtp'[u] <=> (dtls'[u].state = "connected" /\ ~noKeys'[u]))
    BY <1>2, <2>3 DEF IInv, SrtpFollowsDtls
  <2> QED BY <1>1, <2>2, <2>4, <2>5 DEF SrtpFollowsDtls
<1> QED BY <1>3, <1>4

LEMMA OutcomeType ==
    ASSUME NEW s, NEW r, Outcome(s, r)
    PROVE  r.via \in Seq(DtlsTransportState)
<1>1. /\ <<>> \in Seq(DtlsTransportState) /\ <<"connecting">> \in Seq(DtlsTransportState)
      /\ <<"failed">> \in Seq(DtlsTransportState)
      /\ <<"connecting", "failed">> \in Seq(DtlsTransportState)
  BY DEF DtlsTransportState
<1> QED BY <1>1, Zenon DEF Outcome

(* The types of what UpdateState leaves follow from its being fresh.       *)
LEMMA PcType ==
    ASSUME IInv, NEW t \in Transports, NEW via \in Seq(DtlsTransportState),
           NEW last \in Seq(PeerConnectionState),
           UpdateState(Moments(t, links, via) \o last)
    PROVE  pc' \in PeerConnectionState /\ reports' \subseteq PeerConnectionState
<1> DEFINE ms == Moments(t, links, via) \o last
<1>1. \A s \in DtlsTransportState : PcStateWith(links, t, s) \in PeerConnectionState
  <2>1. IceOf(links) \in IceStates
        /\ \A s \in DtlsTransportState : [DtlsOf(dtls) EXCEPT ![t] = s] \in DtlsStates
    BY DEF IInv, TypeOK, IceOf, DtlsOf, LinkType, DtlsType, IceStates, DtlsStates
  <2> QED BY <2>1, PcStateMeans DEF PcStateWith
<1>2. Moments(t, links, via) \in Seq(PeerConnectionState)
  BY <1>1 DEF Moments
<1>3. ms \in Seq(PeerConnectionState)
  BY <1>2, ConcatProperties
<1> HIDE DEF ms
<1>4. UpdateState(ms) /\ pc \in PeerConnectionState
  BY DEF ms, IInv, TypeOK
<1>5. Len(ms) \in Nat /\ \A i \in 1 .. Len(ms) : ms[i] \in PeerConnectionState
  BY <1>3
<1>6. ms # <<>> => Len(ms) \in 1 .. Len(ms)
  BY <1>3, <1>5
<1>7. Reported(ms) \subseteq PeerConnectionState
  BY <1>5 DEF Reported
<1>8. reports \subseteq PeerConnectionState
  BY DEF IInv, TypeOK
<1> QED BY <1>4, <1>5, <1>6, <1>7, <1>8 DEF UpdateState

LEMMA Initially == Init => IInv
<1> SUFFICES ASSUME Init PROVE IInv
  OBVIOUS
<1>1. PICK fp \in [Transports -> {"none", "good", "bad"}] :
         dtls = [t \in Transports |-> BornDtls(fp[t])]
  BY DEF Init
<1>2. \A t \in Transports :
         /\ dtls[t] \in DtlsType /\ dtls[t].state \in {"new", "failed"}
         /\ dtls[t].hello = "none"
  BY <1>1 DEF BornDtls, DtlsType, DtlsTransportState
<1>3. dtls \in [Transports -> DtlsType]
  BY <1>1, <1>2
<1>4. /\ links \in [Transports -> LinkType]
      /\ \A t \in Transports : links[t].writable = FALSE /\ links[t].state = "new"
  BY DEF Init, NewLink, LinkType, IceTransportState
<1>5. IceOf(links) \in IceStates /\ DtlsOf(dtls) \in DtlsStates
      /\ \A t \in Transports : IceOf(links)[t] = "new"
  BY <1>3, <1>4 DEF IceOf, DtlsOf, DtlsType, IceStates, DtlsStates, IceTransportState
<1>6. agent = AgentState(IceOf(links))
  BY <1>5, AgentStateMeans, TransportsAssumption DEF Init, IceTransportState
<1>7. /\ pc \in PeerConnectionState /\ reports \subseteq PeerConnectionState /\ ReportsSound
      /\ within = {}
  BY <1>5, PcStateMeans DEF Init, ReportsSound, PcStateFresh, FailedIsFinal
<1>8. /\ srtp \in [Transports -> BOOLEAN] /\ noKeys \in [Transports -> BOOLEAN]
      /\ \A t \in Transports : ~srtp[t]
  BY DEF Init
<1>9. agent \in IceTransportState
  BY DEF Init, IceTransportState
<1>10. \A t \in Transports : Prompt(dtls[t], links[t].writable)
  BY <1>2, <1>4 DEF Prompt
<1>11. SrtpFollowsDtls
  BY <1>2, <1>8 DEF SrtpFollowsDtls
<1> QED BY <1>3, <1>4, <1>6, <1>7, <1>8, <1>9, <1>10, <1>11 DEF IInv, TypeOK

(* A new value l of a channel, whose writable signal DtlsTransport has     *)
(* followed by the time the state signal reaches IceAgent.                 *)
LEMMA IceUpdateStep ==
    ASSUME IInv, NEW t \in Transports, NEW l \in Links, IceUpdate(t, l)
    PROVE  IInv'
<1> DEFINE ls == [links EXCEPT ![t] = l]
           a == AgentState(IceOf(ls))
           rs == IF l.writable # links[t].writable
                 THEN OnWritableState(dtls[t], l.writable) ELSE {Stays(dtls[t])}
           LastOf(q) == IF a # agent THEN <<PcStateWith(ls, t, q.d.state)>> ELSE <<>>
<1>a. PICK r \in rs : /\ UpdateState(Moments(t, links, r.via) \o LastOf(r))
                      /\ DtlsBecomes(t, r.d, TRUE)
  BY DEF IceUpdate
<1> DEFINE last == LastOf(r)
<1>1. /\ links' = ls /\ agent' = a /\ DtlsBecomes(t, r.d, TRUE)
      /\ UpdateState(Moments(t, links, r.via) \o last)
      /\ within \subseteq {t}
  BY <1>a DEF IceUpdate
<1>2. /\ l \in LinkType /\ links[t] \in LinkType /\ dtls[t] \in DtlsType
      /\ Prompt(dtls[t], links[t].writable)
  BY DEF IInv, TypeOK, Links
<1>3. l.writable \in BOOLEAN /\ links[t].writable \in BOOLEAN
  BY <1>2 DEF LinkType
<1>4. r.d \in DtlsType /\ Outcome(dtls[t].state, r) /\ Prompt(r.d, l.writable)
  <2>1. CASE l.writable # links[t].writable
    <3>1. r \in OnWritableState(dtls[t], l.writable)
      BY <2>1
    <3> QED BY <1>2, <1>3, <2>1, <3>1, WritableOutcome
  <2>2. CASE l.writable = links[t].writable
    <3>1. r = [d |-> dtls[t], via |-> <<>>]
      BY <2>2 DEF Stays
    <3>2. r.d = dtls[t] /\ r.via = <<>>
      BY <3>1
    <3> QED BY <1>2, <2>2, <3>2 DEF Outcome
  <2> QED BY <2>1, <2>2
<1> HIDE DEF rs
<1>5. r.d.state = "connected" => r.d.state = dtls[t].state
  BY <1>4 DEF Outcome
<1>6. /\ dtls' = [dtls EXCEPT ![t] = r.d] /\ dtls' \in [Transports -> DtlsType]
      /\ srtp' \in [Transports -> BOOLEAN] /\ noKeys' \in [Transports -> BOOLEAN]
      /\ SrtpFollowsDtls'
  BY <1>1, <1>4, <1>5, KeysFollow
<1>7. links' \in [Transports -> LinkType]
  BY <1>1, <1>2 DEF IInv, TypeOK
<1>8. /\ IceOf(links) \in IceStates /\ IceOf(links') \in IceStates
      /\ DtlsOf(dtls') \in DtlsStates
  BY <1>6, <1>7 DEF IInv, TypeOK, IceOf, DtlsOf, LinkType, DtlsType, IceStates, DtlsStates
<1>9. [DtlsOf(dtls) EXCEPT ![t] = r.d.state] = DtlsOf(dtls')
  BY <1>6 DEF IInv, TypeOK, DtlsOf
<1>10. PcStateWith(ls, t, r.d.state) = PcState(IceOf(links'), DtlsOf(dtls'))
  BY <1>1, <1>9 DEF PcStateWith
<1>11. /\ IceOf(ls) = IceOf(links') /\ a = AgentState(IceOf(links'))
       /\ agent = AgentState(IceOf(links))
  BY <1>1 DEF IInv
<1>12. \/ /\ last = <<>>
          /\ PcState(IceOf(links), DtlsOf(dtls')) = PcState(IceOf(links'), DtlsOf(dtls'))
       \/ last = <<PcState(IceOf(links'), DtlsOf(dtls'))>>
  <2>1. CASE a # agent
    BY <1>10, <2>1
  <2>2. CASE a = agent
    <3>1. PcState(IceOf(links), DtlsOf(dtls')) = PcState(IceOf(links'), DtlsOf(dtls'))
      BY <1>8, <1>11, <2>2, AgentIsEnough
    <3> QED BY <2>2, <3>1
  <2> QED BY <2>1, <2>2
<1>b. \A u \in Transports : u # t => links'[u] = links[u]
  BY <1>1 DEF IInv, TypeOK
<1>c. within # {} => within = {t}
  BY <1>1
<1>d. /\ within' \in {{}} \cup {{u} : u \in Transports}
      /\ \A u \in Transports : within' = {u} => links'[u].state # "failed"
  <2>1. within' = {} \/ (within' = {t} /\ links'[t].state # "failed")
    BY <1>1 DEF IceUpdate, GoesOn, IInv, TypeOK
  <2> QED BY <2>1
<1> HIDE DEF last, a, ls
<1>13. ReportsSound'
  BY <1>1, <1>4, <1>6, <1>7, <1>b, <1>c, <1>12, StepReports
<1>14. pc' \in PeerConnectionState /\ reports' \subseteq PeerConnectionState
  <2>1. r.via \in Seq(DtlsTransportState)
    BY <1>4, OutcomeType
  <2>2. PcState(IceOf(links'), DtlsOf(dtls')) \in PeerConnectionState
    BY <1>8, PcStateMeans
  <2>3. /\ <<>> \in Seq(PeerConnectionState)
        /\ <<PcState(IceOf(links'), DtlsOf(dtls'))>> \in Seq(PeerConnectionState)
    BY <2>2
  <2>4. last \in Seq(PeerConnectionState)
    BY <1>12, <2>3, Zenon
  <2> QED BY <1>1, <2>1, <2>4, PcType
<1>15. agent' \in IceTransportState /\ agent' = AgentState(IceOf(links))'
  BY <1>1, <1>8, <1>11, AgentStateMeans
<1>16. \A u \in Transports : Prompt(dtls'[u], links'[u].writable)
  <2>1. dtls'[t] = r.d /\ links'[t] = l
    BY <1>1, <1>6 DEF IInv, TypeOK, ls
  <2>2. \A u \in Transports : u # t => dtls'[u] = dtls[u] /\ links'[u] = links[u]
    BY <1>1, <1>6 DEF IInv, TypeOK, ls
  <2> QED BY <1>4, <2>1, <2>2 DEF IInv
<1> QED BY <1>6, <1>7, <1>d, <1>13, <1>14, <1>15, <1>16 DEF IInv, TypeOK

(* The handlers of packets leave the channels alone.                       *)
LEMMA PacketStep ==
    ASSUME IInv, NEW t \in Transports, NEW d \in DtlsType, NEW keys \in BOOLEAN,
           DtlsBecomes(t, d, keys), links' = links, agent' = agent,
           within = {}, within' = {},
           d.state = "connected" => d.state = dtls[t].state \/ d.writable,
           Prompt(d, links[t].writable), ReportsSound',
           pc' \in PeerConnectionState, reports' \subseteq PeerConnectionState
    PROVE  IInv'
<1>1. /\ dtls' = [dtls EXCEPT ![t] = d] /\ dtls' \in [Transports -> DtlsType]
      /\ srtp' \in [Transports -> BOOLEAN] /\ noKeys' \in [Transports -> BOOLEAN]
      /\ SrtpFollowsDtls'
  BY KeysFollow
<1>2. dtls'[t] = d /\ \A u \in Transports : u # t => dtls'[u] = dtls[u]
  BY <1>1 DEF IInv, TypeOK
<1>3. \A u \in Transports : Prompt(dtls'[u], links'[u].writable)
  BY <1>2 DEF IInv
<1>4. agent' = AgentState(IceOf(links))'
  BY DEF IInv
<1> QED BY <1>1, <1>3, <1>4 DEF IInv, TypeOK

LEMMA CacheClientHelloStep ==
    ASSUME IInv, NEW t \in Transports, NEW h \in {"good", "malformed"},
           CacheClientHello(t, h)
    PROVE  IInv'
<1> DEFINE d == [dtls[t] EXCEPT !.hello = h]
           ds == [d EXCEPT !.ssl = TRUE]
           w == links[t].writable
           rs == IF d.ssl THEN {Stays(d)} ELSE SetupDtls(d, w)
<1>1. dtls[t] \in DtlsType /\ w \in BOOLEAN /\ Prompt(dtls[t], w)
  BY DEF IInv, TypeOK, LinkType
<1>2. /\ d \in DtlsType /\ d.state = dtls[t].state /\ d.ssl = dtls[t].ssl /\ d.hello = h
      /\ ds \in DtlsType /\ ds.state = dtls[t].state /\ ds.ssl = TRUE
  BY <1>1 DEF DtlsType
<1>a. PICK r \in rs : UpdateState(Moments(t, links, r.via)) /\ DtlsBecomes(t, r.d, TRUE)
  BY DEF CacheClientHello
<1>3. /\ d.state = "new" /\ links' = links /\ agent' = agent
      /\ within = {} /\ within' = {}
      /\ UpdateState(Moments(t, links, r.via)) /\ DtlsBecomes(t, r.d, TRUE)
  BY <1>a DEF CacheClientHello
<1> HIDE DEF d, ds, w
<1>4. r.d \in DtlsType /\ Outcome(dtls[t].state, r) /\ Prompt(r.d, w)
  <2>1. CASE d.ssl
    <3>1. r.d = d /\ r.via = <<>>
      BY <2>1 DEF Stays
    <3> QED BY <1>1, <1>2, <1>3, <2>1, <3>1 DEF Outcome, Prompt
  <2>2. CASE ~d.ssl
    <3>1. r \in MaybeStartDtls(ds, w)
      BY <2>2 DEF SetupDtls, ds
    <3> QED BY <1>1, <1>2, <1>3, <3>1, MaybeStartOutcome
  <2> QED BY <2>1, <2>2
<1> HIDE DEF rs
<1>5. r.d.state = "connected" => r.d.state = dtls[t].state
  BY <1>4 DEF Outcome
<1>6. dtls' = [dtls EXCEPT ![t] = r.d]
  BY <1>3 DEF DtlsBecomes
<1>7. /\ r.via \in Seq(DtlsTransportState)
      /\ <<>> \in Seq(PeerConnectionState)
  BY <1>4, OutcomeType
<1>8. UpdateState(Moments(t, links, r.via) \o <<>>)
  <2>1. Moments(t, links, r.via) \o <<>> = Moments(t, links, r.via)
    <3>1. Moments(t, links, r.via) \in Seq({PcStateWith(links, t, r.via[i]) : i \in 1 .. Len(r.via)})
      BY <1>7 DEF Moments
    <3> QED BY <3>1, ConcatEmptySeq
  <2> QED BY <1>3, <2>1
<1>9. ReportsSound'
  <2>1. links' \in [Transports -> LinkType]
    BY <1>3 DEF IInv, TypeOK
  <2>2. PcState(IceOf(links), DtlsOf(dtls')) = PcState(IceOf(links'), DtlsOf(dtls'))
    BY <1>3
  <2> QED BY <1>3, <1>4, <1>6, <1>8, <2>1, <2>2, StepReports
<1>10. pc' \in PeerConnectionState /\ reports' \subseteq PeerConnectionState
  BY <1>7, <1>8, PcType
<1> QED BY <1>3, <1>4, <1>5, <1>9, <1>10, PacketStep DEF w

(* HandshakeComplete and DtlsEnds: the state they end in is signalled,     *)
(* and connected before it if the handshake ends with DTLS.                *)
LEMMA DtlsEventStep ==
    ASSUME IInv, NEW t \in Transports, NEW d \in DtlsType, NEW keys \in BOOLEAN,
           \/ UpdateState(Moments(t, links, <<d.state>>))
           \/ UpdateState(Moments(t, links, <<"connected", d.state>>)),
           DtlsBecomes(t, d, keys), dtls[t].state # "failed",
           links' = links, agent' = agent, within = {}, within' = {},
           d.state = "connected" => d.writable,
           Prompt(d, links[t].writable)
    PROVE  IInv'
<1>1. dtls' = [dtls EXCEPT ![t] = d]
  BY DEF DtlsBecomes
<1>2. ReportsSound'
  BY <1>1, LastReports
<1>3. /\ <<d.state>> \in Seq(DtlsTransportState) /\ <<>> \in Seq(PeerConnectionState)
      /\ <<"connected", d.state>> \in Seq(DtlsTransportState)
  BY DEF DtlsType, DtlsTransportState
<1>4. /\ Moments(t, links, <<d.state>>) \o <<>> = Moments(t, links, <<d.state>>)
      /\ Moments(t, links, <<"connected", d.state>>) \o <<>> =
            Moments(t, links, <<"connected", d.state>>)
  <2>1. Moments(t, links, <<d.state>>) \o <<>> = Moments(t, links, <<d.state>>)
    BY MomentsOf, Joined
  <2>2. \A p, q : Moments(t, links, <<p, q>>) =
                     <<PcStateWith(links, t, p), PcStateWith(links, t, q)>>
    BY MomentsOf, Zenon
  <2>3. \A p, q : <<p, q>> \o <<>> = <<p, q>>
    OBVIOUS
  <2> DEFINE m == Moments(t, links, <<"connected", d.state>>)
  <2>4. m \o <<>> = m
    <3>1. m = <<PcStateWith(links, t, "connected"), PcStateWith(links, t, d.state)>>
      BY <2>2, Zenon
    <3> HIDE DEF m
    <3> QED BY <2>3, <3>1
  <2> QED BY <2>1, <2>4
<1>5. pc' \in PeerConnectionState /\ reports' \subseteq PeerConnectionState
  <2>1. CASE UpdateState(Moments(t, links, <<d.state>>))
    BY <1>3, <1>4, <2>1, PcType
  <2>2. CASE UpdateState(Moments(t, links, <<"connected", d.state>>))
    BY <1>3, <1>4, <2>2, PcType
  <2> QED BY <2>1, <2>2
<1> QED BY <1>2, <1>5, PacketStep

LEMMA HandshakeCompleteStep ==
    ASSUME IInv, NEW t \in Transports, NEW keys \in BOOLEAN,
           NEW ends \in {"open", "closed", "failed"}, HandshakeComplete(t, keys, ends)
    PROVE  IInv'
<1> DEFINE d == [dtls[t] EXCEPT !.state = "connected", !.writable = TRUE]
           e == [d EXCEPT !.state = ends, !.writable = FALSE]
<1>1. dtls[t] \in DtlsType /\ Prompt(dtls[t], links[t].writable)
  BY DEF IInv, TypeOK
<1>2. /\ d \in DtlsType /\ d.state = "connected" /\ d.writable = TRUE
      /\ d.hello = dtls[t].hello /\ d.ssl = dtls[t].ssl
  BY <1>1 DEF DtlsType, DtlsTransportState
<1>3. ends # "open" => e \in DtlsType /\ e.state = ends /\ e.hello = dtls[t].hello
  BY <1>1 DEF DtlsType, DtlsTransportState
<1>4. /\ dtls[t].state = "connecting" /\ links' = links /\ agent' = agent
      /\ within = {} /\ within' = {}
  BY DEF HandshakeComplete
<1>5. CASE ends = "open"
  <2>1. UpdateState(Moments(t, links, <<d.state>>)) /\ DtlsBecomes(t, d, keys)
    BY <1>2, <1>5 DEF HandshakeComplete
  <2> HIDE DEF d
  <2>2. Prompt(d, links[t].writable)
    BY <1>1, <1>2, <1>4 DEF Prompt
  <2> QED BY <1>2, <1>4, <2>1, <2>2, DtlsEventStep
<1>6. CASE ends # "open"
  <2>1. UpdateState(Moments(t, links, <<"connected", ends>>)) /\ DtlsBecomes(t, e, keys)
    BY <1>6 DEF HandshakeComplete
  <2>2. UpdateState(Moments(t, links, <<"connected", e.state>>))
    <3> HIDE DEF e
    <3> QED BY <1>3, <1>6, <2>1
  <2> HIDE DEF e, d
  <2>3. Prompt(e, links[t].writable)
    BY <1>1, <1>3, <1>4, <1>6 DEF Prompt
  <2> QED BY <1>3, <1>4, <1>6, <2>1, <2>2, <2>3, DtlsEventStep
<1> QED BY <1>5, <1>6

LEMMA DtlsEndsStep ==
    ASSUME IInv, NEW t \in Transports, NEW s \in {"closed", "failed"}, DtlsEnds(t, s)
    PROVE  IInv'
<1> DEFINE d == [dtls[t] EXCEPT !.state = s, !.writable = FALSE]
<1>1. dtls[t] \in DtlsType /\ Prompt(dtls[t], links[t].writable)
  BY DEF IInv, TypeOK
<1>2. /\ d \in DtlsType /\ d.state = s /\ d.hello = dtls[t].hello
  BY <1>1 DEF DtlsType, DtlsTransportState
<1>3. /\ dtls[t].state \in {"connecting", "connected"} /\ links' = links /\ agent' = agent
      /\ within = {} /\ within' = {}
      /\ UpdateState(Moments(t, links, <<d.state>>)) /\ DtlsBecomes(t, d, TRUE)
  BY DEF DtlsEnds
<1> HIDE DEF d
<1>4. Prompt(d, links[t].writable)
  BY <1>1, <1>2, <1>3 DEF Prompt
<1> QED BY <1>2, <1>3, <1>4, DtlsEventStep

-----------------------------------------------------------------------------
LEMMA Preserved == IInv /\ [Next]_vars => IInv'
<1> SUFFICES ASSUME IInv, [Next]_vars PROVE IInv'
  OBVIOUS
<1>1. CASE UNCHANGED vars
  BY <1>1 DEF vars, IInv, TypeOK, ReportsSound, PcStateFresh, FailedIsFinal, SrtpFollowsDtls
<1>2. CASE Next
  BY <1>2, IceUpdateStep, CacheClientHelloStep, HandshakeCompleteStep, DtlsEndsStep DEF Next
<1> QED BY <1>1, <1>2

LEMMA Inductive == Spec => []IInv
BY Initially, Preserved, PTL DEF Spec

(* The transports, the two summaries and what is reported keep their types.*)
THEOREM TypeCorrect == Spec => []TypeOK
BY Inductive, PTL DEF IInv

(* pc_state_ is the summary of the transports as they are after every      *)
(* change of a channel, although the slots see them half changed, and      *)
(* `failed', on which RtcStream deletes the stream, is never taken back    *)
(* within the callback that reports it, however often that callback        *)
(* changes its channel (transport_controller.cpp).                         *)
THEOREM Reporting == Spec => []ReportsSound
BY Inductive, PTL DEF IInv

(* DTLS does not wait for what has already happened (dtls_transport.cpp).  *)
THEOREM Handshake == Spec => []HandshakeNotStuck
<1>1. IInv => HandshakeNotStuck
  BY DEF IInv, Prompt, HandshakeNotStuck
<1> QED BY <1>1, Inductive, PTL

(* SRTP is keyed exactly while DTLS is connected, and a PeerConnection     *)
(* reported connected can carry media on every transport, however many     *)
(* there are (dtls_srtp_transport.cpp, transport_controller.cpp).          *)
THEOREM MediaPath == Spec => []MediaPathSound
<1>1. IInv => MediaPathSound
  <2> SUFFICES ASSUME IInv PROVE MediaPathSound
    OBVIOUS
  <2>1. IceOf(links) \in IceStates /\ DtlsOf(dtls) \in DtlsStates
    BY DEF IInv, TypeOK, IceOf, DtlsOf, LinkType, DtlsType, IceStates, DtlsStates
  <2>2. pc = "connected" =>
           \A t \in Transports : /\ IceOf(links)[t] = "connected"
                                 /\ DtlsOf(dtls)[t] \in {"connected", "closed"}
    BY <2>1, PcStateMeans DEF IInv, ReportsSound, PcStateFresh
  <2>3. \A t \in Transports : IceOf(links)[t] = links[t].state /\ DtlsOf(dtls)[t] = dtls[t].state
    BY DEF IceOf, DtlsOf
  <2> QED BY <2>2, <2>3 DEF IInv, MediaPathSound, SrtpFollowsDtls, ConnectedCarriesMedia
<1> QED BY <1>1, Inductive, PTL

-----------------------------------------------------------------------------
(* Induction up to n, for a property given as the set of numbers that have *)
(* it.                                                                     *)
LEMMA Induction ==
    ASSUME NEW n \in Nat, NEW T, 0 \in T, \A k \in 0 .. (n - 1) : k \in T => k + 1 \in T
    PROVE  n \in T
<1> DEFINE C == {k \in 0 .. n : k \notin T}
           R == {ss \in Nat \X Nat : ss[1] < ss[2]}
<1> SUFFICES ASSUME C # {} PROVE FALSE
  OBVIOUS
<1>1. R = OpToRel(<, Nat)
  BY DEF OpToRel
<1>2. IsWellFoundedOn(R, Nat)
  BY <1>1, NatLessThanWellFounded
<1>3. C \in SUBSET Nat
  OBVIOUS
<1>4. PICK x \in C : \A y \in C : <<y, x>> \notin R
  <2> HIDE DEF C, R
  <2> QED
    BY <1>2, <1>3, WFMin
<1>5. x \in 0 .. n /\ x \notin T /\ x # 0
  OBVIOUS
<1>6. x - 1 \in 0 .. (n - 1) /\ x - 1 + 1 = x /\ <<x - 1, x>> \in R
  BY <1>5
<1>7. x - 1 \in T
  BY <1>4, <1>6
<1> QED
  BY <1>5, <1>6, <1>7

-----------------------------------------------------------------------------
(* The loop of set_remote_sdp, line by line.                               *)

(* g holds what is parsed after each of the first n lines.                 *)
IsParse(g, lines, n) ==
    g = [i \in 0 .. n |-> IF i = 0 THEN NewOffer ELSE ParseLine(g[i - 1], lines[i])]

LEMMA ParseExists ==
    ASSUME NEW lines, NEW n \in Nat
    PROVE  \E g : IsParse(g, lines, n)
<1> DEFINE T == {k \in Nat : \E g : IsParse(g, lines, k)}
<1>1. 0 \in T
  <2> DEFINE g == [i \in 0 .. 0 |-> NewOffer]
  <2>1. g = [i \in 0 .. 0 |-> IF i = 0 THEN NewOffer ELSE ParseLine(g[i - 1], lines[i])]
    OBVIOUS
  <2>2. IsParse(g, lines, 0)
    BY <2>1 DEF IsParse
  <2> HIDE DEF g
  <2> QED
    BY <2>2
<1>2. ASSUME NEW k \in 0 .. (n - 1), k \in T
      PROVE  k + 1 \in T
  <2>1. PICK g : IsParse(g, lines, k)
    BY <1>2
  <2> DEFINE h == [i \in 0 .. (k + 1) |-> IF i = k + 1 THEN ParseLine(g[k], lines[k + 1]) ELSE g[i]]
  <2>2. \A i \in 0 .. k : g[i] = IF i = 0 THEN NewOffer ELSE ParseLine(g[i - 1], lines[i])
    BY <2>1 DEF IsParse
  <2>3. ASSUME NEW i \in 0 .. (k + 1)
        PROVE  h[i] = IF i = 0 THEN NewOffer ELSE ParseLine(h[i - 1], lines[i])
    <3>1. CASE i = k + 1
      <4>1. i # 0 /\ i - 1 \in 0 .. (k + 1) /\ i - 1 # k + 1 /\ i - 1 = k
        BY <3>1
      <4> QED
        BY <3>1, <4>1
    <3>2. CASE i # k + 1
      <4>1. i \in 0 .. k /\ h[i] = g[i]
        BY <3>2
      <4>2. i # 0 => i - 1 \in 0 .. (k + 1) /\ i - 1 # k + 1
        BY <3>2
      <4>3. i # 0 => h[i - 1] = g[i - 1]
        BY <4>2
      <4> HIDE DEF h
      <4> QED
        BY <2>2, <4>1, <4>3
    <3> QED
      BY <3>1, <3>2
  <2>4. h = [i \in 0 .. (k + 1) |-> h[i]]
    OBVIOUS
  <2> HIDE DEF h
  <2>5. IsParse(h, lines, k + 1)
    BY <2>3, <2>4 DEF IsParse
  <2> QED
    BY <2>5
<1> HIDE DEF T
<1>3. n \in T
  BY <1>1, <1>2, Induction
<1> QED
  BY <1>3 DEF T

(* Lines that begin alike are parsed alike that far.                       *)
LEMMA ParseAlike ==
    ASSUME NEW s, NEW t, NEW n \in Nat, NEW m \in Nat, n <= m, \A i \in 1 .. n : s[i] = t[i],
           NEW g, NEW h, IsParse(g, s, n), IsParse(h, t, m)
    PROVE  g[n] = h[n]
<1> DEFINE T == {i \in Nat : g[i] = h[i]}
<1>1. /\ \A i \in 0 .. n : g[i] = IF i = 0 THEN NewOffer ELSE ParseLine(g[i - 1], s[i])
      /\ \A i \in 0 .. m : h[i] = IF i = 0 THEN NewOffer ELSE ParseLine(h[i - 1], t[i])
  BY DEF IsParse
<1>2. 0 \in T
  BY <1>1
<1>3. ASSUME NEW k \in 0 .. (n - 1), k \in T
      PROVE  k + 1 \in T
  <2>1. k + 1 \in 1 .. n /\ k + 1 \in 0 .. n /\ k + 1 \in 0 .. m /\ k + 1 # 0 /\ k + 1 - 1 = k
    OBVIOUS
  <2>2. g[k + 1] = ParseLine(g[k], s[k + 1]) /\ h[k + 1] = ParseLine(h[k], t[k + 1])
    BY <1>1, <2>1
  <2> QED
    BY <1>3, <2>1, <2>2
<1> HIDE DEF T
<1>4. n \in T
  BY <1>2, <1>3, Induction
<1> QED
  BY <1>4 DEF T

LEMMA ParsedBy ==
    ASSUME NEW s, Len(s) \in Nat
    PROVE  \E g : IsParse(g, s, Len(s)) /\ ParseLines(s) = g[Len(s)]
<1> DEFINE G == CHOOSE g : g = [i \in 0 .. Len(s) |->
                                   IF i = 0 THEN NewOffer ELSE ParseLine(g[i - 1], s[i])]
<1>1. ParseLines(s) = G[Len(s)]
  BY DEF ParseLines
<1>2. \E g : g = [i \in 0 .. Len(s) |-> IF i = 0 THEN NewOffer ELSE ParseLine(g[i - 1], s[i])]
  BY ParseExists DEF IsParse
<1>3. IsParse(G, s, Len(s))
  BY <1>2 DEF IsParse
<1> HIDE DEF G
<1> QED
  BY <1>1, <1>3

LEMMA ParseLinesFacts ==
    ASSUME NEW S, NEW s \in Seq(S), NEW l \in S
    PROVE  /\ ParseLines(<<>>) = NewOffer
           /\ ParseLines(Append(s, l)) = ParseLine(ParseLines(s), l)
<1>1. ParseLines(<<>>) = NewOffer
  <2>1. PICK g : IsParse(g, <<>>, 0) /\ ParseLines(<<>>) = g[0]
    BY ParsedBy
  <2> QED
    BY <2>1 DEF IsParse
<1>2. ParseLines(Append(s, l)) = ParseLine(ParseLines(s), l)
  <2> DEFINE t == Append(s, l)
             n == Len(s)
  <2>1. n \in Nat /\ Len(t) = n + 1 /\ t[n + 1] = l /\ \A i \in 1 .. n : s[i] = t[i]
    OBVIOUS
  <2> HIDE DEF t, n
  <2>2. PICK g : IsParse(g, s, n) /\ ParseLines(s) = g[n]
    BY <2>1, ParsedBy DEF n
  <2>3. PICK h : IsParse(h, t, n + 1) /\ ParseLines(t) = h[n + 1]
    BY <2>1, ParsedBy
  <2>4. g[n] = h[n]
    BY <2>1, <2>2, <2>3, ParseAlike
  <2>5. h[n + 1] = ParseLine(h[n], t[n + 1])
    BY <2>1, <2>3 DEF IsParse
  <2> QED
    BY <2>1, <2>2, <2>3, <2>4, <2>5 DEF t
<1> QED
  BY <1>1, <1>2

-----------------------------------------------------------------------------
(* create_track_from_ssrc_info, source by source.                          *)

(* g holds the tracks after each of the first n sources.                   *)
IsTracks(g, infos, n) ==
    g = [i \in 0 .. n |-> IF i = 0 THEN <<>> ELSE AddToTrack(g[i - 1], infos[i])]

LEMMA TracksExist ==
    ASSUME NEW infos, NEW n \in Nat
    PROVE  \E g : IsTracks(g, infos, n)
<1> DEFINE T == {k \in Nat : \E g : IsTracks(g, infos, k)}
<1>1. 0 \in T
  <2> DEFINE g == [i \in 0 .. 0 |-> <<>>]
  <2>1. g = [i \in 0 .. 0 |-> IF i = 0 THEN <<>> ELSE AddToTrack(g[i - 1], infos[i])]
    OBVIOUS
  <2>2. IsTracks(g, infos, 0)
    BY <2>1 DEF IsTracks
  <2> HIDE DEF g
  <2> QED
    BY <2>2
<1>2. ASSUME NEW k \in 0 .. (n - 1), k \in T
      PROVE  k + 1 \in T
  <2>1. PICK g : IsTracks(g, infos, k)
    BY <1>2
  <2> DEFINE h == [i \in 0 .. (k + 1) |-> IF i = k + 1 THEN AddToTrack(g[k], infos[k + 1]) ELSE g[i]]
  <2>2. \A i \in 0 .. k : g[i] = IF i = 0 THEN <<>> ELSE AddToTrack(g[i - 1], infos[i])
    BY <2>1 DEF IsTracks
  <2>3. ASSUME NEW i \in 0 .. (k + 1)
        PROVE  h[i] = IF i = 0 THEN <<>> ELSE AddToTrack(h[i - 1], infos[i])
    <3>1. CASE i = k + 1
      <4>1. i # 0 /\ i - 1 \in 0 .. (k + 1) /\ i - 1 # k + 1 /\ i - 1 = k
        BY <3>1
      <4> QED
        BY <3>1, <4>1
    <3>2. CASE i # k + 1
      <4>1. i \in 0 .. k /\ h[i] = g[i]
        BY <3>2
      <4>2. i # 0 => i - 1 \in 0 .. (k + 1) /\ i - 1 # k + 1
        BY <3>2
      <4>3. i # 0 => h[i - 1] = g[i - 1]
        BY <4>2
      <4> HIDE DEF h
      <4> QED
        BY <2>2, <4>1, <4>3
    <3> QED
      BY <3>1, <3>2
  <2>4. h = [i \in 0 .. (k + 1) |-> h[i]]
    OBVIOUS
  <2> HIDE DEF h
  <2>5. IsTracks(h, infos, k + 1)
    BY <2>3, <2>4 DEF IsTracks
  <2> QED
    BY <2>5
<1> HIDE DEF T
<1>3. n \in T
  BY <1>1, <1>2, Induction
<1> QED
  BY <1>3 DEF T

(* Sources that begin alike have the same tracks that far.                 *)
LEMMA TracksAlike ==
    ASSUME NEW s, NEW t, NEW n \in Nat, NEW m \in Nat, n <= m, \A i \in 1 .. n : s[i] = t[i],
           NEW g, NEW h, IsTracks(g, s, n), IsTracks(h, t, m)
    PROVE  g[n] = h[n]
<1> DEFINE T == {i \in Nat : g[i] = h[i]}
<1>1. /\ \A i \in 0 .. n : g[i] = IF i = 0 THEN <<>> ELSE AddToTrack(g[i - 1], s[i])
      /\ \A i \in 0 .. m : h[i] = IF i = 0 THEN <<>> ELSE AddToTrack(h[i - 1], t[i])
  BY DEF IsTracks
<1>2. 0 \in T
  BY <1>1
<1>3. ASSUME NEW k \in 0 .. (n - 1), k \in T
      PROVE  k + 1 \in T
  <2>1. k + 1 \in 1 .. n /\ k + 1 \in 0 .. n /\ k + 1 \in 0 .. m /\ k + 1 # 0 /\ k + 1 - 1 = k
    OBVIOUS
  <2>2. g[k + 1] = AddToTrack(g[k], s[k + 1]) /\ h[k + 1] = AddToTrack(h[k], t[k + 1])
    BY <1>1, <2>1
  <2> QED
    BY <1>3, <2>1, <2>2
<1> HIDE DEF T
<1>4. n \in T
  BY <1>2, <1>3, Induction
<1> QED
  BY <1>4 DEF T

LEMMA TracksBy ==
    ASSUME NEW s, Len(s) \in Nat
    PROVE  \E g : IsTracks(g, s, Len(s)) /\ CreateTracks(s) = g[Len(s)]
<1> DEFINE G == CHOOSE g : g = [i \in 0 .. Len(s) |->
                                   IF i = 0 THEN <<>> ELSE AddToTrack(g[i - 1], s[i])]
<1>1. CreateTracks(s) = G[Len(s)]
  BY DEF CreateTracks
<1>2. \E g : g = [i \in 0 .. Len(s) |-> IF i = 0 THEN <<>> ELSE AddToTrack(g[i - 1], s[i])]
  BY TracksExist DEF IsTracks
<1>3. IsTracks(G, s, Len(s))
  BY <1>2 DEF IsTracks
<1> HIDE DEF G
<1> QED
  BY <1>1, <1>3

LEMMA CreateTracksFacts ==
    ASSUME NEW S, NEW s \in Seq(S), NEW l \in S
    PROVE  /\ CreateTracks(<<>>) = <<>>
           /\ CreateTracks(Append(s, l)) = AddToTrack(CreateTracks(s), l)
<1>1. CreateTracks(<<>>) = <<>>
  <2>1. PICK g : IsTracks(g, <<>>, 0) /\ CreateTracks(<<>>) = g[0]
    BY TracksBy
  <2> QED
    BY <2>1 DEF IsTracks
<1>2. CreateTracks(Append(s, l)) = AddToTrack(CreateTracks(s), l)
  <2> DEFINE t == Append(s, l)
             n == Len(s)
  <2>1. n \in Nat /\ Len(t) = n + 1 /\ t[n + 1] = l /\ \A i \in 1 .. n : s[i] = t[i]
    OBVIOUS
  <2> HIDE DEF t, n
  <2>2. PICK g : IsTracks(g, s, n) /\ CreateTracks(s) = g[n]
    BY <2>1, TracksBy DEF n
  <2>3. PICK h : IsTracks(h, t, n + 1) /\ CreateTracks(t) = h[n + 1]
    BY <2>1, TracksBy
  <2>4. g[n] = h[n]
    BY <2>1, <2>2, <2>3, TracksAlike
  <2>5. h[n + 1] = AddToTrack(h[n], t[n + 1])
    BY <2>1, <2>3 DEF IsTracks
  <2> QED
    BY <2>1, <2>2, <2>3, <2>4, <2>5 DEF t
<1> QED
  BY <1>1, <1>2

-----------------------------------------------------------------------------
(* What is parsed of any offer.                                            *)

(* Strings; the provers are told of the literals in use that they are.     *)
Texts ==
    STRING \cup Media \cup {Empty, "a", "v"} \cup {Ufrag(m) : m \in Media} \cup {Pwd(m) : m \in Media}

Lines ==
    [k : {"m"}, media : Texts, items : Nat] \cup [k : {"ufrag"}, value : Texts]
    \cup [k : {"pwd"}, value : Texts] \cup [k : {"fingerprint"}, good : BOOLEAN]
    \cup [k : {"ssrc"}, id : Nat, track : Texts] \cup [k : {"ssrc-group"}, ids : Seq(Nat)]
    \cup [k : {"fmtp"}, id : Nat] \cup [k : {"rtpmap"}, id : Nat]

Sources == [id : Nat, track : Texts]
Descriptions == [ufrag : Texts, pwd : Texts, fingerprint : BOOLEAN]
Offers ==
    [ok : BOOLEAN, media : Texts, offered : SUBSET Media, td : [Media -> Descriptions],
     ssrcs : [Media -> Seq(Sources)], groups : Seq(Seq(Nat)), h264 : Nat, rtx : Nat]

(* No source is listed twice.                                              *)
Once(infos) == \A i, j \in DOMAIN infos : infos[i].id = infos[j].id => i = j
Listing(o) == o \in Offers /\ \A m \in Media : Once(o.ssrcs[m])

LEMMA ParseSsrcInfoKeeps ==
    ASSUME NEW infos \in Seq(Sources), Once(infos), NEW l, l.id \in Nat, l.track \in Texts
    PROVE  ParseSsrcInfo(infos, l) \in Seq(Sources) /\ Once(ParseSsrcInfo(infos, l))
<1> DEFINE known == {i \in DOMAIN infos : infos[i].id = l.id}
           new == [id |-> l.id, track |-> l.track]
<1>1. CASE known = {}
  <2>1. ParseSsrcInfo(infos, l) = Append(infos, new)
    BY <1>1 DEF ParseSsrcInfo
  <2>2. new \in Sources
    BY DEF Sources
  <2>3. Append(infos, new) \in Seq(Sources)
    BY <2>2
  <2>4. /\ DOMAIN infos = 1 .. Len(infos) /\ DOMAIN Append(infos, new) = 1 .. (Len(infos) + 1)
        /\ Append(infos, new)[Len(infos) + 1] = new
        /\ \A i \in 1 .. Len(infos) : Append(infos, new)[i] = infos[i]
        /\ Len(infos) \in Nat
    BY <2>2
  <2>5. \A i \in 1 .. Len(infos) : infos[i].id # new.id
    BY <1>1, <2>4
  <2>6. Once(Append(infos, new))
    <3> SUFFICES ASSUME NEW i \in 1 .. (Len(infos) + 1), NEW j \in 1 .. (Len(infos) + 1),
                        Append(infos, new)[i].id = Append(infos, new)[j].id
                 PROVE  i = j
      BY <2>4 DEF Once
    <3> HIDE DEF new, known
    <3> QED
      BY <2>4, <2>5 DEF Once
  <2> QED
    BY <2>1, <2>3, <2>6
<1>2. CASE known # {}
  <2> DEFINE r == [i \in DOMAIN infos |->
                      IF i \in known THEN [infos[i] EXCEPT !.track = l.track] ELSE infos[i]]
  <2>1. ParseSsrcInfo(infos, l) = r
    BY <1>2 DEF ParseSsrcInfo
  <2>2. \A i \in DOMAIN infos : infos[i] \in Sources
    OBVIOUS
  <2>3. \A i \in DOMAIN infos : r[i] \in Sources /\ r[i].id = infos[i].id
    BY <2>2 DEF Sources
  <2>4. DOMAIN r = 1 .. Len(infos) /\ DOMAIN infos = 1 .. Len(infos) /\ Len(infos) \in Nat
    OBVIOUS
  <2> HIDE DEF r
  <2>5. r = [i \in 1 .. Len(infos) |-> r[i]]
    BY <2>1, <2>4 DEF r
  <2>6. r \in Seq(Sources)
    BY <2>3, <2>4, <2>5
  <2>7. Once(r)
    BY <2>3, <2>4 DEF Once
  <2> QED
    BY <2>1, <2>6, <2>7
<1> QED
  BY <1>1, <1>2

(* One more line leaves every source listed once.                         *)
LEMMA ParseLineKeeps ==
    ASSUME NEW o, Listing(o), NEW l \in Lines
    PROVE  Listing(ParseLine(o, l))
<1> DEFINE p == ParseLine(o, l)
           m == o.media
<1>1. o \in Offers /\ \A x \in Media : Once(o.ssrcs[x])
  BY DEF Listing
<1>2. CASE p = o \/ p = [o EXCEPT !.ok = FALSE]
  BY <1>1, <1>2 DEF Listing, Offers
<1>3. CASE l.k = "m"
  <2>1. l.media \in Texts
    BY <1>3 DEF Lines
  <2>2. \/ p = o \/ p = [o EXCEPT !.ok = FALSE]
        \/ p = [o EXCEPT !.media = l.media, !.offered = @ \cup ({l.media} \cap Media)]
    BY <1>3 DEF ParseLine, ParseMediaLine
  <2>3. o.offered \cup ({l.media} \cap Media) \in SUBSET Media
    BY <1>1 DEF Offers
  <2> QED
    BY <1>1, <1>2, <2>1, <2>2, <2>3 DEF Listing, Offers
<1>4. CASE o.ok /\ l.k # "m" /\ m \in Media
  <2>1. o.td[m] \in Descriptions /\ o.td \in [Media -> Descriptions]
        /\ o.ssrcs \in [Media -> Seq(Sources)] /\ o.ssrcs[m] \in Seq(Sources) /\ Once(o.ssrcs[m])
    BY <1>1, <1>4 DEF Offers
  <2>2. CASE l.k = "ufrag"
    <3>1. l.value \in Texts
      BY <2>2 DEF Lines
    <3>2. p = [o EXCEPT !.ok = FALSE] \/ p = [o EXCEPT !.td[m].ufrag = l.value]
      BY <1>4, <2>2 DEF ParseLine, ParseMediaLine
    <3>3. [o.td EXCEPT ![m].ufrag = l.value] \in [Media -> Descriptions]
      BY <2>1, <3>1 DEF Descriptions
    <3> QED
      BY <1>1, <1>2, <3>2, <3>3 DEF Listing, Offers
  <2>3. CASE l.k = "pwd"
    <3>1. l.value \in Texts
      BY <2>3 DEF Lines
    <3>2. p = [o EXCEPT !.ok = FALSE] \/ p = [o EXCEPT !.td[m].pwd = l.value]
      BY <1>4, <2>3 DEF ParseLine, ParseMediaLine
    <3>3. [o.td EXCEPT ![m].pwd = l.value] \in [Media -> Descriptions]
      BY <2>1, <3>1 DEF Descriptions
    <3> QED
      BY <1>1, <1>2, <3>2, <3>3 DEF Listing, Offers
  <2>4. CASE l.k = "fingerprint"
    <3>1. p = [o EXCEPT !.ok = FALSE] \/ p = [o EXCEPT !.td[m].fingerprint = TRUE]
      BY <1>4, <2>4 DEF ParseLine, ParseMediaLine
    <3>2. [o.td EXCEPT ![m].fingerprint = TRUE] \in [Media -> Descriptions]
      BY <2>1 DEF Descriptions
    <3> QED
      BY <1>1, <1>2, <3>1, <3>2 DEF Listing, Offers
  <2>5. CASE l.k = "ssrc"
    <3> DEFINE infos == ParseSsrcInfo(o.ssrcs[m], l)
    <3>1. l.id \in Nat /\ l.track \in Texts
      BY <2>5 DEF Lines
    <3>2. p = [o EXCEPT !.ssrcs[m] = infos]
      BY <1>1, <1>4, <2>5 DEF ParseLine, ParseMediaLine, Offers
    <3>3. infos \in Seq(Sources) /\ Once(infos)
      BY <2>1, <3>1, ParseSsrcInfoKeeps
    <3> HIDE DEF infos
    <3>4. p \in Offers
      BY <1>1, <2>1, <3>2, <3>3 DEF Offers
    <3>5. p.ssrcs = [o.ssrcs EXCEPT ![m] = infos]
      BY <1>1, <3>2 DEF Offers
    <3>6. \A x \in Media : Once(p.ssrcs[x])
      <4> TAKE x \in Media
      <4>1. p.ssrcs[x] = IF x = m THEN infos ELSE o.ssrcs[x]
        BY <2>1, <3>5
      <4> QED
        BY <1>1, <3>3, <4>1
    <3> QED
      BY <3>4, <3>6 DEF Listing
  <2>6. CASE l.k = "ssrc-group"
    <3>1. l.ids \in Seq(Nat)
      BY <2>6 DEF Lines
    <3>2. p = o \/ p = [o EXCEPT !.groups = Append(o.groups, l.ids)]
      BY <1>4, <2>6 DEF ParseLine, ParseMediaLine, Media
    <3>3. Append(o.groups, l.ids) \in Seq(Seq(Nat))
      BY <1>1, <3>1 DEF Offers
    <3> QED
      BY <1>1, <1>2, <3>2, <3>3 DEF Listing, Offers
  <2>7. CASE l.k = "fmtp"
    <3>1. l.id \in Nat
      BY <2>7 DEF Lines
    <3>2. p = o \/ p = [o EXCEPT !.h264 = l.id]
      BY <1>4, <2>7 DEF ParseLine, ParseMediaLine, Media
    <3> QED
      BY <1>1, <1>2, <3>1, <3>2 DEF Listing, Offers
  <2>8. CASE l.k = "rtpmap"
    <3>1. l.id \in Nat
      BY <2>8 DEF Lines
    <3>2. p = o \/ p = [o EXCEPT !.rtx = l.id]
      BY <1>4, <2>8 DEF ParseLine, ParseMediaLine, Media
    <3> QED
      BY <1>1, <1>2, <3>1, <3>2 DEF Listing, Offers
  <2>9. l.k \in {"m", "ufrag", "pwd", "fingerprint", "ssrc", "ssrc-group", "fmtp", "rtpmap"}
    BY DEF Lines
  <2> QED
    BY <1>4, <2>2, <2>3, <2>4, <2>5, <2>6, <2>7, <2>8, <2>9
<1>5. CASE ~ (o.ok /\ m \in Media) /\ l.k # "m"
  BY <1>2, <1>5 DEF ParseLine, ParseMediaLine
<1> QED
  BY <1>3, <1>4, <1>5

(* However an offer is put together, no source is listed twice.            *)
LEMMA ParseLinesListing ==
    ASSUME NEW lines \in Seq(Lines)
    PROVE  Listing(ParseLines(lines))
<1> DEFINE T == {n \in Nat : \A s \in Seq(Lines) : Len(s) = n => Listing(ParseLines(s))}
<1>1. 0 \in T
  <2>1. ParseLines(<<>>) = NewOffer
    <3>1. FmtpLine(0) \in Lines
      BY DEF FmtpLine, Lines
    <3>2. <<>> \in Seq(Lines)
      OBVIOUS
    <3> QED
      BY <3>1, <3>2, ParseLinesFacts
  <2>2. Listing(NewOffer)
    <3>0. Empty \in Texts
      BY DEF Texts
    <3>1. [m \in Media |-> NoTransport] \in [Media -> Descriptions]
      BY <3>0 DEF NoTransport, Descriptions
    <3>2. [m \in Media |-> <<>>] \in [Media -> Seq(Sources)]
      OBVIOUS
    <3>3. NewOffer \in Offers
      BY <3>0, <3>1, <3>2 DEF NewOffer, Offers
    <3> QED
      BY <3>3 DEF Listing, NewOffer, Once
  <2>3. \A s \in Seq(Lines) : Len(s) = 0 => s = <<>>
    OBVIOUS
  <2> QED
    BY <2>1, <2>2, <2>3
<1>2. ASSUME NEW k \in 0 .. (Len(lines) - 1), k \in T
      PROVE  k + 1 \in T
  <2> SUFFICES ASSUME NEW s \in Seq(Lines), Len(s) = k + 1
               PROVE  Listing(ParseLines(s))
    OBVIOUS
  <2>1. PICK r \in Seq(Lines), x \in Lines : s = Append(r, x) /\ Len(r) = k
    <3> DEFINE r == SubSeq(s, 1, k)
    <3>1. r \in Seq(Lines) /\ Len(r) = k /\ \A i \in 1 .. k : r[i] = s[i]
      OBVIOUS
    <3>2. s[k + 1] \in Lines
      OBVIOUS
    <3> HIDE DEF r
    <3>3. s = Append(r, s[k + 1])
      BY <3>1, <3>2
    <3> QED
      BY <3>1, <3>2, <3>3
  <2>2. Listing(ParseLines(r))
    BY <1>2, <2>1
  <2>3. ParseLines(s) = ParseLine(ParseLines(r), x)
    BY <2>1, ParseLinesFacts
  <2> QED
    BY <2>2, <2>3, ParseLineKeeps
<1> HIDE DEF T
<1>3. Len(lines) \in T
  BY <1>1, <1>2, Induction
<1> QED
  BY <1>3 DEF T

-----------------------------------------------------------------------------
(* The tracks of a medium and the sources the receive streams listen to.   *)

Tracks == [id : Texts, ssrcs : Seq(Nat), groups : Seq(Seq(Nat))]

(* The first track starts with the first source listed, and its other      *)
(* sources come from further down the list.                                *)
TracksOf(infos, tracks) ==
    /\ tracks \in Seq(Tracks)
    /\ infos = <<>> => tracks = <<>>
    /\ infos # <<>> =>
           /\ Len(tracks) >= 1 /\ Len(tracks[1].ssrcs) >= 1
           /\ tracks[1].ssrcs[1] = infos[1].id
           /\ \A i \in 2 .. Len(tracks[1].ssrcs) :
                  \E j \in 2 .. Len(infos) : tracks[1].ssrcs[i] = infos[j].id

LEMMA AddToTrackKeeps ==
    ASSUME NEW infos \in Seq(Sources), NEW tracks, TracksOf(infos, tracks), NEW info \in Sources
    PROVE  TracksOf(Append(infos, info), AddToTrack(tracks, info))
<1> DEFINE known == {i \in DOMAIN tracks : tracks[i].id = info.track}
           more == Append(infos, info)
           new == [id |-> info.track, ssrcs |-> <<info.id>>, groups |-> <<>>]
<1>1. /\ Len(infos) \in Nat /\ Len(more) = Len(infos) + 1 /\ more[Len(infos) + 1] = info
      /\ more # <<>> /\ \A i \in 1 .. Len(infos) : more[i] = infos[i]
      /\ infos = <<>> <=> Len(infos) = 0
  OBVIOUS
<1>2. tracks \in Seq(Tracks) /\ Len(tracks) \in Nat /\ DOMAIN tracks = 1 .. Len(tracks)
  BY DEF TracksOf
<1>3. info.id \in Nat /\ info.track \in Texts
  BY DEF Sources
<1> HIDE DEF more
<1>4. CASE known = {}
  <2>1. AddToTrack(tracks, info) = Append(tracks, new)
    BY <1>4 DEF AddToTrack
  <2>2. new \in Tracks /\ Len(new.ssrcs) = 1 /\ new.ssrcs[1] = info.id
    BY <1>3 DEF Tracks
  <2> HIDE DEF new
  <2>3. /\ Append(tracks, new) \in Seq(Tracks) /\ Len(Append(tracks, new)) = Len(tracks) + 1
        /\ Append(tracks, new)[Len(tracks) + 1] = new
        /\ \A i \in 1 .. Len(tracks) : Append(tracks, new)[i] = tracks[i]
    BY <1>2, <2>2
  <2>4. CASE infos = <<>>
    <3>1. Len(tracks) = 0
      BY <2>4 DEF TracksOf
    <3>2. Append(tracks, new)[1] = new /\ more[1] = info
      BY <1>1, <2>3, <2>4, <3>1
    <3> QED
      BY <1>1, <2>1, <2>2, <2>3, <3>1, <3>2 DEF TracksOf, more
  <2>5. CASE infos # <<>>
    <3>1. Len(tracks) >= 1 /\ Append(tracks, new)[1] = tracks[1] /\ more[1] = infos[1]
      BY <1>1, <1>2, <2>3, <2>5 DEF TracksOf
    <3>2. \A i \in 2 .. Len(tracks[1].ssrcs) :
              \E j \in 2 .. Len(more) : tracks[1].ssrcs[i] = more[j].id
      <4> TAKE i \in 2 .. Len(tracks[1].ssrcs)
      <4>1. PICK j \in 2 .. Len(infos) : tracks[1].ssrcs[i] = infos[j].id
        BY <2>5 DEF TracksOf
      <4>2. j \in 2 .. Len(more) /\ more[j] = infos[j]
        BY <1>1
      <4> QED
        BY <4>1, <4>2
    <3> QED
      BY <1>1, <1>2, <2>1, <2>3, <2>5, <3>1, <3>2 DEF TracksOf, more
  <2> QED
    BY <2>4, <2>5
<1>5. CASE known # {}
  <2> DEFINE r == [i \in DOMAIN tracks |->
                      IF i \in known THEN [tracks[i] EXCEPT !.ssrcs = Append(@, info.id)] ELSE tracks[i]]
  <2>1. AddToTrack(tracks, info) = r
    BY <1>5 DEF AddToTrack
  <2>2. \A i \in 1 .. Len(tracks) : tracks[i] \in Tracks
    BY <1>2
  <2>3. \A i \in 1 .. Len(tracks) :
            /\ r[i] \in Tracks
            /\ r[i].ssrcs = tracks[i].ssrcs \/ r[i].ssrcs = Append(tracks[i].ssrcs, info.id)
    <3> TAKE i \in 1 .. Len(tracks)
    <3>1. tracks[i] \in Tracks /\ tracks[i].ssrcs \in Seq(Nat)
      BY <2>2 DEF Tracks
    <3>2. Append(tracks[i].ssrcs, info.id) \in Seq(Nat)
      BY <1>3, <3>1
    <3>3. r[i] = IF i \in known THEN [tracks[i] EXCEPT !.ssrcs = Append(tracks[i].ssrcs, info.id)]
                 ELSE tracks[i]
      BY <1>2
    <3> HIDE DEF r, known
    <3> QED
      BY <3>1, <3>2, <3>3 DEF Tracks
  <2>4. r = [i \in 1 .. Len(tracks) |-> r[i]] /\ Len(r) = Len(tracks)
    BY <1>2
  <2> HIDE DEF r
  <2>5. r \in Seq(Tracks)
    BY <1>2, <2>3, <2>4
  <2>6. Len(tracks) >= 1 /\ infos # <<>>
    BY <1>2, <1>5 DEF TracksOf
  <2> DEFINE ss == tracks[1].ssrcs
  <2>7. /\ ss \in Seq(Nat) /\ Len(ss) >= 1 /\ ss[1] = infos[1].id
        /\ \A i \in 2 .. Len(ss) : \E j \in 2 .. Len(infos) : ss[i] = infos[j].id
    BY <2>2, <2>6 DEF TracksOf, Tracks
  <2>8. r[1].ssrcs = ss \/ r[1].ssrcs = Append(ss, info.id)
    BY <1>2, <2>3, <2>6
  <2> HIDE DEF ss
  <2>9. Len(infos) >= 1 /\ more[1] = infos[1] /\ Len(more) \in 2 .. Len(more) /\ more[Len(more)] = info
    BY <1>1, <2>6
  <2>10. \A i \in 2 .. Len(ss) : \E j \in 2 .. Len(more) : ss[i] = more[j].id
    BY <1>1, <2>7
  <2>11. /\ Len(r[1].ssrcs) >= 1 /\ r[1].ssrcs[1] = more[1].id
         /\ \A i \in 2 .. Len(r[1].ssrcs) : \E j \in 2 .. Len(more) : r[1].ssrcs[i] = more[j].id
    <3>1. CASE r[1].ssrcs = ss
      BY <2>7, <2>9, <2>10, <3>1
    <3>2. CASE r[1].ssrcs = Append(ss, info.id)
      <4>1. /\ Len(r[1].ssrcs) = Len(ss) + 1 /\ r[1].ssrcs[Len(ss) + 1] = info.id
            /\ \A i \in 1 .. Len(ss) : r[1].ssrcs[i] = ss[i]
            /\ Len(ss) \in Nat
        BY <1>3, <2>7, <3>2
      <4>2. ASSUME NEW i \in 2 .. Len(r[1].ssrcs)
            PROVE  \E j \in 2 .. Len(more) : r[1].ssrcs[i] = more[j].id
        <5>1. CASE i = Len(ss) + 1
          BY <2>9, <4>1, <5>1
        <5>2. CASE i # Len(ss) + 1
          <6>1. i \in 2 .. Len(ss) /\ r[1].ssrcs[i] = ss[i]
            BY <4>1, <5>2
          <6> QED
            BY <2>10, <6>1
        <5> QED
          BY <5>1, <5>2
      <4> QED
        BY <2>7, <2>9, <4>1, <4>2
    <3> QED
      BY <2>8, <3>1, <3>2
  <2> QED
    BY <1>1, <1>2, <2>1, <2>4, <2>5, <2>6, <2>11 DEF TracksOf, more
<1> QED
  BY <1>4, <1>5

(* However many sources are listed, the first track starts with the first. *)
LEMMA CreateTracksKeeps ==
    ASSUME NEW infos \in Seq(Sources)
    PROVE  TracksOf(infos, CreateTracks(infos))
<1> DEFINE T == {n \in Nat : \A s \in Seq(Sources) : Len(s) = n => TracksOf(s, CreateTracks(s))}
<1>1. 0 \in T
  <2>1. CreateTracks(<<>>) = <<>>
    <3>1. [id |-> 0, track |-> Empty] \in Sources
      BY DEF Sources, Texts
    <3>2. <<>> \in Seq(Sources)
      OBVIOUS
    <3> QED
      BY <3>1, <3>2, CreateTracksFacts
  <2>2. \A s \in Seq(Sources) : Len(s) = 0 => s = <<>>
    OBVIOUS
  <2>3. <<>> \in Seq(Tracks)
    OBVIOUS
  <2> QED
    BY <2>1, <2>2, <2>3 DEF TracksOf
<1>2. ASSUME NEW k \in 0 .. (Len(infos) - 1), k \in T
      PROVE  k + 1 \in T
  <2> SUFFICES ASSUME NEW s \in Seq(Sources), Len(s) = k + 1
               PROVE  TracksOf(s, CreateTracks(s))
    OBVIOUS
  <2>1. PICK r \in Seq(Sources), x \in Sources : s = Append(r, x) /\ Len(r) = k
    <3> DEFINE r == SubSeq(s, 1, k)
    <3>1. r \in Seq(Sources) /\ Len(r) = k /\ \A i \in 1 .. k : r[i] = s[i]
      OBVIOUS
    <3>2. s[k + 1] \in Sources
      OBVIOUS
    <3> HIDE DEF r
    <3>3. s = Append(r, s[k + 1])
      BY <3>1, <3>2
    <3> QED
      BY <3>1, <3>2, <3>3
  <2>2. TracksOf(r, CreateTracks(r))
    BY <1>2, <2>1
  <2>3. CreateTracks(s) = AddToTrack(CreateTracks(r), x)
    BY <2>1, CreateTracksFacts
  <2> QED
    BY <2>1, <2>2, <2>3, AddToTrackKeeps
<1> HIDE DEF T
<1>3. Len(infos) \in T
  BY <1>1, <1>2, Induction
<1> QED
  BY <1>3 DEF T

(* The receive streams listen to the first source of their medium, and the *)
(* one of retransmissions to another source of the video.                  *)
FirstSource(o, m) == IF o.ssrcs[m] = <<>> THEN 0 ELSE o.ssrcs[m][1].id
ReceivesFirst(o) ==
    LET r == PeerConnectionOf(o).receive IN
    /\ r.audio = FirstSource(o, "audio") /\ r.video = FirstSource(o, "video")
    /\ r.rtx # 0 => /\ r.rtx # r.video
                    /\ \E i \in DOMAIN o.ssrcs["video"] : o.ssrcs["video"][i].id = r.rtx

LEMMA Receiving ==
    ASSUME NEW o, Listing(o)
    PROVE  ReceivesFirst(o)
<1> DEFINE A == CreateTracks(o.ssrcs["audio"])
           V == CreateTracks(o.ssrcs["video"])
           G == AddGroups(V, o.groups)
           tracks == RemoteTracks(o)
           infos == o.ssrcs["video"]
<1>1. o.ssrcs["audio"] \in Seq(Sources) /\ infos \in Seq(Sources) /\ Once(infos)
  BY DEF Listing, Offers, Media
<1>2. TracksOf(o.ssrcs["audio"], A) /\ TracksOf(infos, V)
  BY <1>1, CreateTracksKeeps
<1>3. tracks["audio"] = A /\ tracks["video"] = G
  BY DEF RemoteTracks, Media
<1>4. V \in Seq(Tracks) /\ A \in Seq(Tracks)
  BY <1>2 DEF TracksOf
<1> HIDE DEF A, V, tracks
<1>5. \A i \in 1 .. Len(V) : G[i].ssrcs = V[i].ssrcs
  <2> TAKE i \in 1 .. Len(V)
  <2>1. G[i] = [V[i] EXCEPT !.groups = GroupsOf(V[i], o.groups)] /\ V[i] \in Tracks
    BY <1>4 DEF AddGroups
  <2> QED
    BY <2>1 DEF Tracks
<1>6. G # <<>> <=> Len(V) >= 1
  <2>1. DOMAIN G = 1 .. Len(V) /\ Len(V) \in Nat
    BY <1>4 DEF AddGroups
  <2>2. Len(V) >= 1 => 1 \in DOMAIN G
    BY <2>1
  <2>3. Len(V) = 0 => G = <<>>
    BY <1>4 DEF AddGroups
  <2> HIDE DEF G
  <2> QED
    BY <2>1, <2>2, <2>3
<1> HIDE DEF G
<1>7. PeerConnectionOf(o).receive = ReceiveSsrcs(tracks)
  BY DEF PeerConnectionOf, tracks
<1>8. ReceiveSsrcs(tracks) =
         [audio |-> IF A # <<>> /\ Len(A[1].ssrcs) >= 1 THEN A[1].ssrcs[1] ELSE 0,
          video |-> IF G # <<>> /\ Len(G[1].ssrcs) >= 1 THEN G[1].ssrcs[1] ELSE 0,
          rtx |-> IF G # <<>> /\ Len(G[1].ssrcs) >= 2 THEN G[1].ssrcs[2] ELSE 0]
  BY <1>3 DEF ReceiveSsrcs
<1>9. ReceiveSsrcs(tracks).audio = FirstSource(o, "audio")
  BY <1>2, <1>4, <1>8 DEF TracksOf, FirstSource
<1>10. CASE infos = <<>>
  <2>1. V = <<>> /\ G = <<>>
    BY <1>2, <1>4, <1>6, <1>10 DEF TracksOf
  <2> QED
    BY <1>7, <1>8, <1>9, <1>10, <2>1 DEF ReceivesFirst, FirstSource
<1>11. CASE infos # <<>>
  <2> DEFINE ss == V[1].ssrcs
  <2>1. /\ Len(V) >= 1 /\ Len(ss) >= 1 /\ ss[1] = infos[1].id
        /\ \A i \in 2 .. Len(ss) : \E j \in 2 .. Len(infos) : ss[i] = infos[j].id
    BY <1>2, <1>11 DEF TracksOf
  <2>2. ss \in Seq(Nat) /\ G # <<>> /\ G[1].ssrcs = ss
    <3>1. 1 \in 1 .. Len(V) /\ V[1] \in Tracks
      BY <1>4, <2>1
    <3> QED
      BY <1>5, <1>6, <2>1, <3>1 DEF Tracks
  <2> HIDE DEF ss
  <2>3. ReceiveSsrcs(tracks).video = ss[1] /\ ReceiveSsrcs(tracks).rtx = IF Len(ss) >= 2 THEN ss[2] ELSE 0
    BY <1>8, <2>1, <2>2
  <2>4. Len(ss) >= 2 => \E j \in 2 .. Len(infos) : ss[2] = infos[j].id
    BY <2>1, <2>2
  <2>5. \A j \in 2 .. Len(infos) : infos[j].id # infos[1].id /\ j \in DOMAIN infos
    BY <1>1 DEF Once
  <2> QED
    BY <1>7, <1>9, <1>11, <2>1, <2>3, <2>4, <2>5 DEF ReceivesFirst, FirstSource
<1> QED
  BY <1>10, <1>11

-----------------------------------------------------------------------------
(* Appending one, two or four elements.                                    *)

LEMMA Appending ==
    ASSUME NEW S, NEW s \in Seq(S), NEW a \in S, NEW b \in S, NEW c \in S, NEW d \in S
    PROVE  /\ s \o <<a>> = Append(s, a)
           /\ s \o <<a, b>> = Append(Append(s, a), b)
           /\ s \o <<a, b, c, d>> = Append(Append(Append(Append(s, a), b), c), d)
<1>1. s \o <<a>> = Append(s, a)
  BY AppendIsConcat
<1>2. s \o <<a, b>> = Append(Append(s, a), b)
  <2>1. PICK t : t = <<a, b>>
    OBVIOUS
  <2>2. t \in Seq(S) /\ Len(t) = 2 /\ t[1] = a /\ t[2] = b
    BY <2>1
  <2>3. PICK x \in Seq(S) : x = Append(s, a)
    BY AppendProperties
  <2>4. Len(x) = Len(s) + 1 /\ x[Len(s) + 1] = a /\ (\A i \in 1 .. Len(s) : x[i] = s[i]) /\ Len(s) \in Nat
    BY <2>3
  <2>5. /\ Append(x, b) \in Seq(S) /\ Len(Append(x, b)) = Len(s) + 2
        /\ \A i \in 1 .. Len(s) + 1 : Append(x, b)[i] = x[i]
        /\ Append(x, b)[Len(s) + 2] = b
    BY <2>4
  <2>6. /\ s \o t \in Seq(S) /\ Len(s \o t) = Len(s) + 2
        /\ \A i \in 1 .. Len(s) + 2 : (s \o t)[i] = IF i <= Len(s) THEN s[i] ELSE t[i - Len(s)]
    <3>1. /\ s \o t \in Seq(S) /\ Len(s \o t) = Len(s) + Len(t)
          /\ \A i \in 1 .. Len(s) + Len(t) : (s \o t)[i] = IF i <= Len(s) THEN s[i] ELSE t[i - Len(s)]
      BY <2>2, ConcatProperties, Zenon
    <3> QED
      BY <2>2, <3>1, Zenon
  <2>7. \A i \in 1 .. Len(s) + 2 : (s \o t)[i] = Append(x, b)[i]
    <3> TAKE i \in 1 .. Len(s) + 2
    <3>1. CASE i <= Len(s)
      BY <2>4, <2>5, <2>6, <3>1
    <3>2. CASE i = Len(s) + 1
      <4>1. i - Len(s) = 1 /\ ~ (i <= Len(s))
        BY <2>4, <3>2
      <4> QED
        BY <2>2, <2>4, <2>5, <2>6, <3>2, <4>1
    <3>3. CASE i = Len(s) + 2
      <4>1. i - Len(s) = 2 /\ ~ (i <= Len(s))
        BY <2>4, <3>3
      <4> QED
        BY <2>2, <2>4, <2>5, <2>6, <3>3, <4>1
    <3>4. i <= Len(s) \/ i = Len(s) + 1 \/ i = Len(s) + 2
      <4>1. Len(s) \in Nat
        OBVIOUS
      <4> QED
        BY <4>1
    <3> QED
      BY <3>1, <3>2, <3>3, <3>4
  <2>8. s \o t = Append(x, b)
    BY <2>5, <2>6, <2>7, SeqEqual
  <2> QED
    BY <2>1, <2>3, <2>8
<1>3. s \o <<a, b, c, d>> = Append(Append(Append(Append(s, a), b), c), d)
  <2>1. PICK t : t = <<a, b, c, d>>
    OBVIOUS
  <2>2. t \in Seq(S) /\ Len(t) = 4 /\ t[1] = a /\ t[2] = b /\ t[3] = c /\ t[4] = d
    BY <2>1
  <2>3. PICK x \in Seq(S) : x = Append(Append(s, a), b)
    <3>1. Append(s, a) \in Seq(S)
      BY AppendProperties
    <3> QED
      BY <3>1, AppendProperties
  <2>4. PICK y \in Seq(S) : y = Append(Append(x, c), d)
    <3>1. Append(x, c) \in Seq(S)
      BY AppendProperties
    <3> QED
      BY <3>1, AppendProperties
  <2>5. /\ Len(s) \in Nat /\ Len(x) = Len(s) + 2 /\ (\A i \in 1 .. Len(s) : x[i] = s[i])
        /\ x[Len(s) + 1] = a /\ x[Len(s) + 2] = b
    BY <2>3
  <2>6. /\ Len(x) \in Nat /\ Len(y) = Len(x) + 2 /\ (\A i \in 1 .. Len(x) : y[i] = x[i])
        /\ y[Len(x) + 1] = c /\ y[Len(x) + 2] = d
    BY <2>4
  <2>7. /\ s \o t \in Seq(S) /\ Len(s \o t) = Len(s) + 4
        /\ \A i \in 1 .. Len(s) + 4 : (s \o t)[i] = IF i <= Len(s) THEN s[i] ELSE t[i - Len(s)]
    <3>1. /\ s \o t \in Seq(S) /\ Len(s \o t) = Len(s) + Len(t)
          /\ \A i \in 1 .. Len(s) + Len(t) : (s \o t)[i] = IF i <= Len(s) THEN s[i] ELSE t[i - Len(s)]
      BY <2>2, ConcatProperties, Zenon
    <3> QED
      BY <2>2, <3>1, Zenon
  <2>8. Len(y) = Len(s) + 4 /\ \A i \in 1 .. Len(s) + 4 : y[i] = IF i <= Len(s) THEN s[i] ELSE t[i - Len(s)]
    <3>1. Len(y) = Len(s) + 4
      BY <2>5, <2>6
    <3>2. ASSUME NEW i \in 1 .. Len(s) + 4
          PROVE  y[i] = IF i <= Len(s) THEN s[i] ELSE t[i - Len(s)]
      <4>1. i <= Len(s) => i \in 1 .. Len(s) /\ i \in 1 .. Len(x)
        BY <2>5
      <4>2. i <= Len(s) + 2 => i \in 1 .. Len(x)
        BY <2>5
      <4>3. ~ (i <= Len(s)) => i - Len(s) \in 1 .. 4 /\ i = Len(s) + (i - Len(s))
        <5>1. Len(s) \in Nat
          OBVIOUS
        <5> QED
          BY <5>1
      <4>4. i - Len(s) \in 1 .. 4 => i - Len(s) = 1 \/ i - Len(s) = 2 \/ i - Len(s) = 3 \/ i - Len(s) = 4
        BY <2>5
      <4>5. Len(x) + 1 = Len(s) + 3 /\ Len(x) + 2 = Len(s) + 4
        BY <2>5
      <4> QED
        BY <2>2, <2>5, <2>6, <4>1, <4>2, <4>3, <4>4, <4>5
    <3> QED
      BY <3>1, <3>2
  <2>9. s \o t = y
    BY <2>7, <2>8, SeqEqual
  <2> QED
    BY <2>1, <2>3, <2>4, <2>9
<1> QED
  BY <1>1, <1>2, <1>3

LEMMA Pairing ==
    \A a, b : Append(<<>>, a) = <<a>> /\ Append(<<a>>, b) = <<a, b>>
<1> TAKE a, b
<1>1. PICK t : t = <<a, b>>
  OBVIOUS
<1>2. <<>> \in Seq({a, b}) /\ t \in Seq({a, b}) /\ <<a>> \in Seq({a, b})
  BY <1>1
<1>3. <<>> \o t = t /\ <<>> \o <<a>> = <<a>>
  BY <1>2, ConcatEmptySeq
<1>4. <<>> \o t = Append(Append(<<>>, a), b) /\ <<>> \o <<a>> = Append(<<>>, a)
  BY <1>1, <1>2, Appending
<1> QED
  BY <1>1, <1>3, <1>4

-----------------------------------------------------------------------------
(* The answer to any offer, and the transport it sets up.                  *)

Taken(p, opt) == p.offered \cap (opt.send \cup opt.recv)
FirstTaken(p, opt) == IF "audio" \in Taken(p, opt) THEN "audio" ELSE "video"

(* The answer has the media that are offered and wanted, in the transport  *)
(* of the first of them.                                                   *)
LEMMA Answering ==
    ASSUME NEW p, p.offered \subseteq Media, NEW opt, NEW sources, NEW creds
    PROVE  LET answer == CreateAnswer(p, opt, sources, creds)  W == Taken(p, opt) IN
           /\ {s.mid : s \in ToSet(answer.sections)} = W
           /\ answer.sections = <<>> <=> W = {}
           /\ W # {} => LocalTransports(answer) = {FirstTaken(p, opt)}
<1> DEFINE answer == CreateAnswer(p, opt, sources, creds)
           W == Taken(p, opt)
           C == Contents(p, opt)
           S == ToSet(answer.sections)
           sec(m) == AnswerSection(m, p, opt, sources, creds)
           T == LocalTransports(answer)
<1>1. W \subseteq {"audio", "video"}
  BY DEF Taken, Media
<1>2. C = (IF "audio" \in W THEN <<"audio">> ELSE <<>>) \o (IF "video" \in W THEN <<"video">> ELSE <<>>)
  BY DEF Contents, IfWanted, Taken
<1>3. answer.bundle = C /\ answer.sections = [i \in DOMAIN C |-> sec(C[i])]
  BY DEF CreateAnswer
<1>4. sec("audio").mid = "audio" /\ sec("video").mid = "video"
  BY DEF AnswerSection
<1> HIDE DEF answer, C, sec, W
<1>5. CASE W = {}
  <2>1. C = <<>>
    BY <1>2, <1>5
  <2>2. answer.sections = <<>>
    BY <1>3, <2>1
  <2>3. S = {}
    BY <2>2 DEF ToSet
  <2> QED
    BY <1>5, <2>2, <2>3 DEF answer, W
<1>6. ASSUME NEW m \in {"audio", "video"}, W = {m}
      PROVE  /\ {s.mid : s \in S} = W /\ answer.sections # <<>>
             /\ T = {m} /\ FirstTaken(p, opt) = m
  <2>1. C = <<m>>
    <3>1. <<m>> \o <<>> = <<m>> /\ <<>> \o <<m>> = <<m>>
      OBVIOUS
    <3>2. "audio" # "video"
      OBVIOUS
    <3> QED
      BY <1>2, <1>6, <3>1, <3>2, Zenon
  <2>2. answer.sections = <<sec(m)>> /\ answer.bundle[1] = m
    BY <1>3, <2>1
  <2>3. S = {sec(m)}
    BY <2>2 DEF ToSet
  <2>4. sec(m).mid = m
    BY <1>4
  <2>5. FirstBundleMid(answer) = m
    BY <2>2 DEF FirstBundleMid
  <2>6. {x \in S : ~ (IsBundle(answer, x.mid) /\ x.mid # m)} = {sec(m)}
    BY <2>3, <2>4
  <2>7. T = {m}
    BY <2>4, <2>5, <2>6 DEF LocalTransports
  <2>8. FirstTaken(p, opt) = m
    BY <1>6 DEF FirstTaken, W
  <2> QED
    BY <1>6, <2>2, <2>3, <2>4, <2>7, <2>8
<1>7. CASE W = {"audio", "video"}
  <2>1. C = <<"audio", "video">>
    <3>1. <<"audio">> \o <<"video">> = <<"audio", "video">>
      <4>1. PICK t : t = <<"audio", "video">>
        OBVIOUS
      <4>2. <<>> \in Seq({"audio", "video"}) /\ <<"audio">> \in Seq({"audio", "video"})
            /\ t \in Seq({"audio", "video"})
        BY <4>1
      <4>3. <<>> \o t = t /\ <<>> \o <<"audio">> = <<"audio">>
        BY <4>2, ConcatEmptySeq
      <4>4. <<>> \o t = Append(Append(<<>>, "audio"), "video") /\ <<>> \o <<"audio">> = Append(<<>>, "audio")
        BY <4>1, <4>2, Appending
      <4>5. <<"audio">> \o <<"video">> = Append(<<"audio">>, "video")
        BY <4>2, AppendIsConcat
      <4> QED
        BY <4>1, <4>3, <4>4, <4>5
    <3> QED
      BY <1>2, <1>7, <3>1
  <2>2. /\ answer.sections = <<sec("audio"), sec("video")>>
        /\ answer.bundle[1] = "audio" /\ answer.bundle[2] = "video" /\ Len(answer.bundle) = 2
    BY <1>3, <2>1
  <2>3. S = {sec("audio"), sec("video")}
    BY <2>2 DEF ToSet
  <2>4. FirstBundleMid(answer) = "audio" /\ IsBundle(answer, "video")
    BY <2>2 DEF FirstBundleMid, IsBundle, Contains
  <2>5. {x \in S : ~ (IsBundle(answer, x.mid) /\ x.mid # "audio")} = {sec("audio")}
    BY <1>4, <2>3, <2>4
  <2>6. T = {"audio"}
    BY <1>4, <2>4, <2>5 DEF LocalTransports
  <2>7. FirstTaken(p, opt) = "audio"
    BY <1>7 DEF FirstTaken, W
  <2> QED
    BY <1>4, <1>7, <2>2, <2>3, <2>6, <2>7 DEF answer, W
<1> QED
  BY <1>1, <1>5, <1>6, <1>7 DEF answer, W

-----------------------------------------------------------------------------
(* The offer of a browser, section by section.                             *)

Says(o, m, F, td, S, h, r) ==
    /\ Listing(o) /\ o.ok /\ o.media = m
    /\ o.offered = F /\ o.td = td /\ o.ssrcs = S /\ o.h264 = h /\ o.rtx = r

LEMMA BrowserLines ==
    ASSUME NEW m \in Media
    PROVE  /\ MLine(m, 4) \in Lines /\ UfragLine(Ufrag(m)) \in Lines
           /\ PwdLine(Pwd(m)) \in Lines /\ FingerprintLine(TRUE) \in Lines
           /\ \A n \in Nat : FmtpLine(n) \in Lines /\ RtxMapLine(n) \in Lines
           /\ \A n \in Nat : SsrcLine(n, "a") \in Lines /\ SsrcLine(n, "v") \in Lines
           /\ \A g \in Seq(Nat) : GroupLine(g) \in Lines
<1>1. m \in Texts /\ Ufrag(m) \in Texts /\ Pwd(m) \in Texts /\ "a" \in Texts /\ "v" \in Texts
  BY DEF Texts
<1> QED
  BY <1>1 DEF Lines, MLine, UfragLine, PwdLine, FingerprintLine, FmtpLine, RtxMapLine, SsrcLine, GroupLine

LEMMA MStep ==
    ASSUME NEW o, NEW n, NEW F, NEW td, NEW S, NEW h, NEW r, Says(o, n, F, td, S, h, r), NEW m \in Media
    PROVE  Says(ParseLine(o, MLine(m, 4)), m, F \cup {m}, td, S, h, r)
<1>1. ParseLine(o, MLine(m, 4)) = [o EXCEPT !.media = m, !.offered = o.offered \cup ({m} \cap Media)]
  BY DEF Says, ParseLine, MLine
<1>2. Listing(ParseLine(o, MLine(m, 4)))
  BY BrowserLines, ParseLineKeeps DEF Says
<1>3. {m} \cap Media = {m}
  OBVIOUS
<1>4. o \in Offers
  BY DEF Says, Listing
<1> QED
  BY <1>1, <1>2, <1>3, <1>4 DEF Says, Offers

WithUfrag(td, m) == [td EXCEPT ![m].ufrag = Ufrag(m)]
WithPwd(td, m) == [td EXCEPT ![m].pwd = Pwd(m)]
WithFingerprint(td, m) == [td EXCEPT ![m].fingerprint = TRUE]

LEMMA TransportStep ==
    ASSUME NEW o, NEW m \in Media, NEW F, NEW td, NEW S, NEW h, NEW r, Says(o, m, F, td, S, h, r)
    PROVE  /\ Says(ParseLine(o, UfragLine(Ufrag(m))), m, F, WithUfrag(td, m), S, h, r)
           /\ Says(ParseLine(o, PwdLine(Pwd(m))), m, F, WithPwd(td, m), S, h, r)
           /\ Says(ParseLine(o, FingerprintLine(TRUE)), m, F, WithFingerprint(td, m), S, h, r)
<1>1. o \in Offers /\ o.media = m /\ o.ok /\ o.td = td
  BY DEF Says, Listing
<1>2. /\ Listing(ParseLine(o, UfragLine(Ufrag(m)))) /\ Listing(ParseLine(o, PwdLine(Pwd(m))))
      /\ Listing(ParseLine(o, FingerprintLine(TRUE)))
  BY BrowserLines, ParseLineKeeps DEF Says
<1>3. ParseLine(o, UfragLine(Ufrag(m))) = [o EXCEPT !.td[m].ufrag = Ufrag(m)]
  <2>1. Ufrag(m) # Empty
    BY DEF Ufrag, Empty
  <2> QED
    BY <1>1, <2>1 DEF ParseLine, ParseMediaLine, UfragLine
<1>4. ParseLine(o, PwdLine(Pwd(m))) = [o EXCEPT !.td[m].pwd = Pwd(m)]
  <2>1. Pwd(m) # Empty
    BY DEF Pwd, Empty
  <2> QED
    BY <1>1, <2>1 DEF ParseLine, ParseMediaLine, PwdLine
<1>5. ParseLine(o, FingerprintLine(TRUE)) = [o EXCEPT !.td[m].fingerprint = TRUE]
  BY <1>1 DEF ParseLine, ParseMediaLine, FingerprintLine
<1>6. Says(ParseLine(o, UfragLine(Ufrag(m))), m, F, WithUfrag(td, m), S, h, r)
  BY <1>1, <1>2, <1>3 DEF Says, Offers, WithUfrag
<1>7. Says(ParseLine(o, PwdLine(Pwd(m))), m, F, WithPwd(td, m), S, h, r)
  BY <1>1, <1>2, <1>4 DEF Says, Offers, WithPwd
<1>8. Says(ParseLine(o, FingerprintLine(TRUE)), m, F, WithFingerprint(td, m), S, h, r)
  BY <1>1, <1>2, <1>5 DEF Says, Offers, WithFingerprint
<1> QED
  BY <1>6, <1>7, <1>8

SectionHead(m) == <<MLine(m, 4), UfragLine(Ufrag(m)), PwdLine(Pwd(m)), FingerprintLine(TRUE)>>

(* The first four lines of a section bring its credentials.               *)
LEMMA HeadParsed ==
    ASSUME NEW s \in Seq(Lines), NEW n, NEW F, NEW td, NEW S, NEW h, NEW r,
           Says(ParseLines(s), n, F, td, S, h, r), NEW m \in Media
    PROVE  /\ s \o SectionHead(m) \in Seq(Lines)
           /\ Says(ParseLines(s \o SectionHead(m)), m, F \cup {m}, [td EXCEPT ![m] = Credentials(m)], S, h, r)
<1>1. PICK a \in Lines, b \in Lines, c \in Lines, d \in Lines :
          a = MLine(m, 4) /\ b = UfragLine(Ufrag(m)) /\ c = PwdLine(Pwd(m)) /\ d = FingerprintLine(TRUE)
  BY BrowserLines
<1>2. PICK s1 \in Seq(Lines) : s1 = Append(s, a)
  BY AppendProperties
<1>3. PICK s2 \in Seq(Lines) : s2 = Append(s1, b)
  BY AppendProperties
<1>4. PICK s3 \in Seq(Lines) : s3 = Append(s2, c)
  BY AppendProperties
<1>5. PICK s4 \in Seq(Lines) : s4 = Append(s3, d)
  BY AppendProperties
<1>6. s \o SectionHead(m) = s4
  <2>1. SectionHead(m) = <<a, b, c, d>>
    BY <1>1 DEF SectionHead
  <2>2. s \o <<a, b, c, d>> = Append(Append(Append(Append(s, a), b), c), d)
    BY Appending
  <2> QED
    BY <1>2, <1>3, <1>4, <1>5, <2>1, <2>2, Zenon
<1>7. Says(ParseLines(s1), m, F \cup {m}, td, S, h, r)
  BY <1>1, <1>2, MStep, ParseLinesFacts
<1> DEFINE td2 == WithUfrag(td, m)
           td3 == WithPwd(td2, m)
           td4 == WithFingerprint(td3, m)
<1>8. Says(ParseLines(s2), m, F \cup {m}, td2, S, h, r)
  <2>1. ParseLines(s2) = ParseLine(ParseLines(s1), b)
    BY <1>3, ParseLinesFacts
  <2> QED
    BY <1>1, <1>7, <2>1, TransportStep
<1>9. Says(ParseLines(s3), m, F \cup {m}, td3, S, h, r)
  <2>1. ParseLines(s3) = ParseLine(ParseLines(s2), c)
    BY <1>4, ParseLinesFacts
  <2> QED
    BY <1>1, <1>8, <2>1, TransportStep
<1>10. Says(ParseLines(s4), m, F \cup {m}, td4, S, h, r)
  <2>1. ParseLines(s4) = ParseLine(ParseLines(s3), d)
    BY <1>5, ParseLinesFacts
  <2> QED
    BY <1>1, <1>9, <2>1, TransportStep
<1>11. td \in [Media -> Descriptions]
  BY DEF Says, Listing, Offers
<1>12. td4 = [td EXCEPT ![m] = Credentials(m)]
  <2>1. /\ td[m] \in Descriptions /\ td2 \in [Media -> Descriptions]
        /\ td2 = [x \in Media |-> IF x = m THEN [td[m] EXCEPT !.ufrag = Ufrag(m)] ELSE td[x]]
    BY <1>11 DEF Descriptions, Texts, WithUfrag
  <2>2. /\ td3 \in [Media -> Descriptions]
        /\ td3 = [x \in Media |-> IF x = m THEN [td2[m] EXCEPT !.pwd = Pwd(m)] ELSE td[x]]
    BY <2>1 DEF Descriptions, Texts, WithPwd
  <2>3. td4 = [x \in Media |-> IF x = m THEN [td3[m] EXCEPT !.fingerprint = TRUE] ELSE td[x]]
    BY <2>1, <2>2 DEF WithFingerprint
  <2>4. td4[m] = Credentials(m)
    <3> HIDE DEF td2, td3, td4
    <3>1. td4[m] = [td3[m] EXCEPT !.fingerprint = TRUE] /\ td3[m] = [td2[m] EXCEPT !.pwd = Pwd(m)]
          /\ td2[m] = [td[m] EXCEPT !.ufrag = Ufrag(m)] /\ td[m] \in Descriptions
      BY <2>1, <2>2, <2>3
    <3>2. PICK d0 \in Descriptions : d0 = td[m]
      BY <3>1
    <3>3. td2[m] = [ufrag |-> Ufrag(m), pwd |-> d0.pwd, fingerprint |-> d0.fingerprint]
      BY <3>1, <3>2 DEF Descriptions
    <3>4. td3[m] = [ufrag |-> Ufrag(m), pwd |-> Pwd(m), fingerprint |-> d0.fingerprint]
      <4>1. \A u, p, f, q : [[ufrag |-> u, pwd |-> p, fingerprint |-> f] EXCEPT !.pwd = q]
                                = [ufrag |-> u, pwd |-> q, fingerprint |-> f]
        OBVIOUS
      <4>2. td3[m] = [[ufrag |-> Ufrag(m), pwd |-> d0.pwd, fingerprint |-> d0.fingerprint]
                         EXCEPT !.pwd = Pwd(m)]
        BY <3>1, <3>3, Zenon
      <4> QED
        BY <4>1, <4>2, Zenon
    <3> QED
      BY <3>1, <3>4 DEF Credentials
  <2>5. td4 = [x \in Media |-> IF x = m THEN Credentials(m) ELSE td[x]]
    BY <2>3, <2>4
  <2> HIDE DEF td4
  <2> QED
    BY <1>11, <2>5
<1> QED
  BY <1>6, <1>10, <1>12

WithSource(S, m, l) == [S EXCEPT ![m] = ParseSsrcInfo(S[m], l)]

LEMMA SsrcStep ==
    ASSUME NEW o, NEW m \in Media, NEW F, NEW td, NEW S, NEW h, NEW r, Says(o, m, F, td, S, h, r),
           NEW n \in Nat, NEW t \in {"a", "v"}
    PROVE  Says(ParseLine(o, SsrcLine(n, t)), m, F, td, WithSource(S, m, SsrcLine(n, t)), h, r)
<1> DEFINE l == SsrcLine(n, t)
<1>1. o \in Offers /\ o.media = m /\ o.ok /\ o.ssrcs = S
  BY DEF Says, Listing
<1>2. Listing(ParseLine(o, l))
  BY BrowserLines, ParseLineKeeps DEF Says
<1>3. ParseLine(o, l) = [o EXCEPT !.ssrcs[m] = ParseSsrcInfo(o.ssrcs[m], l)]
  <2>1. l.k = "ssrc"
    BY DEF SsrcLine
  <2> HIDE DEF l
  <2> QED
    BY <1>1, <2>1 DEF ParseLine, ParseMediaLine, Offers
<1> HIDE DEF l
<1>4. ParseLine(o, l).ssrcs = WithSource(S, m, l)
  BY <1>1, <1>3 DEF WithSource, Offers
<1>5. /\ ParseLine(o, l).ok = o.ok /\ ParseLine(o, l).media = o.media
      /\ ParseLine(o, l).offered = o.offered /\ ParseLine(o, l).td = o.td
      /\ ParseLine(o, l).h264 = o.h264 /\ ParseLine(o, l).rtx = o.rtx
  BY <1>1, <1>3 DEF Offers
<1> QED
  BY <1>1, <1>2, <1>4, <1>5 DEF Says, l

LEMMA PayloadStep ==
    ASSUME NEW o, NEW F, NEW td, NEW S, NEW h \in Nat, NEW r \in Nat, Says(o, "video", F, td, S, h, r),
           NEW n \in Nat, NEW g \in Seq(Nat)
    PROVE  /\ h = 0 => Says(ParseLine(o, FmtpLine(n)), "video", F, td, S, n, r)
           /\ h # 0 => Says(ParseLine(o, RtxMapLine(n)), "video", F, td, S, h, IF r = 0 THEN n ELSE r)
           /\ Says(ParseLine(o, GroupLine(g)), "video", F, td, S, h, r)
<1>1. o \in Offers /\ o.media = "video" /\ o.ok /\ o.h264 = h /\ o.rtx = r /\ "video" \in Media
  BY DEF Says, Listing, Media
<1>2. /\ Listing(ParseLine(o, FmtpLine(n))) /\ Listing(ParseLine(o, RtxMapLine(n)))
      /\ Listing(ParseLine(o, GroupLine(g)))
  BY <1>1, BrowserLines, ParseLineKeeps DEF Says
<1>3. ASSUME h = 0 PROVE ParseLine(o, FmtpLine(n)) = [o EXCEPT !.h264 = n]
  BY <1>1, <1>3 DEF ParseLine, ParseMediaLine, FmtpLine
<1>4. ASSUME h # 0
      PROVE  ParseLine(o, RtxMapLine(n)) = IF r = 0 THEN [o EXCEPT !.rtx = n] ELSE o
  BY <1>1, <1>4 DEF ParseLine, ParseMediaLine, RtxMapLine
<1>5. ParseLine(o, GroupLine(g)) = [o EXCEPT !.groups = Append(o.groups, g)]
  BY <1>1 DEF ParseLine, ParseMediaLine, GroupLine
<1>6. h = 0 => Says(ParseLine(o, FmtpLine(n)), "video", F, td, S, n, r)
  BY <1>1, <1>2, <1>3 DEF Says, Offers
<1>7. h # 0 => Says(ParseLine(o, RtxMapLine(n)), "video", F, td, S, h, IF r = 0 THEN n ELSE r)
  BY <1>1, <1>2, <1>4 DEF Says, Offers
<1>8. Says(ParseLine(o, GroupLine(g)), "video", F, td, S, h, r)
  BY <1>1, <1>2, <1>5 DEF Says, Offers
<1> QED
  BY <1>6, <1>7, <1>8

AudioSource == [id |-> 10, track |-> "a"]
VideoSource(n) == [id |-> n, track |-> "v"]

LEMMA SourcesListed ==
    /\ ParseSsrcInfo(<<>>, SsrcLine(10, "a")) = <<AudioSource>>
    /\ ParseSsrcInfo(<<AudioSource>>, SsrcLine(10, "a")) = <<AudioSource>>
    /\ \A x \in Nat : ParseSsrcInfo(<<>>, SsrcLine(x, "v")) = <<VideoSource(x)>>
    /\ \A x, y \in Nat : x # y =>
           ParseSsrcInfo(<<VideoSource(x)>>, SsrcLine(y, "v")) = <<VideoSource(x), VideoSource(y)>>
<1>1. ASSUME NEW n, NEW t
      PROVE  ParseSsrcInfo(<<>>, SsrcLine(n, t)) = <<[id |-> n, track |-> t]>>
  <2>1. {i \in DOMAIN <<>> : <<>>[i].id = SsrcLine(n, t).id} = {}
    OBVIOUS
  <2>2. ParseSsrcInfo(<<>>, SsrcLine(n, t)) = Append(<<>>, [id |-> n, track |-> t])
    BY <2>1 DEF ParseSsrcInfo, SsrcLine
  <2>3. PICK e : e = [id |-> n, track |-> t]
    OBVIOUS
  <2>4. Append(<<>>, e) = <<e>>
    OBVIOUS
  <2> QED
    BY <2>2, <2>3, <2>4
<1>2. ParseSsrcInfo(<<AudioSource>>, SsrcLine(10, "a")) = <<AudioSource>>
  <2> DEFINE infos == <<AudioSource>>
             l == SsrcLine(10, "a")
  <2>1. DOMAIN infos = {1} /\ infos[1] = AudioSource /\ AudioSource.id = 10 /\ l.id = 10 /\ l.track = "a"
    BY DEF AudioSource, SsrcLine
  <2>2. [AudioSource EXCEPT !.track = "a"] = AudioSource
    BY DEF AudioSource
  <2> HIDE DEF infos, l
  <2>3. {i \in DOMAIN infos : infos[i].id = l.id} = {1}
    BY <2>1
  <2>4. ParseSsrcInfo(infos, l) = [i \in {1} |-> AudioSource]
    BY <2>1, <2>2, <2>3 DEF ParseSsrcInfo
  <2>5. [i \in {1} |-> AudioSource] = <<AudioSource>>
    OBVIOUS
  <2> QED
    BY <2>4, <2>5 DEF infos, l
<1>3. ASSUME NEW x \in Nat, NEW y \in Nat, x # y
      PROVE  ParseSsrcInfo(<<VideoSource(x)>>, SsrcLine(y, "v")) = <<VideoSource(x), VideoSource(y)>>
  <2> DEFINE infos == <<VideoSource(x)>>
             l == SsrcLine(y, "v")
  <2>1. DOMAIN infos = {1} /\ infos[1] = VideoSource(x) /\ VideoSource(x).id = x /\ l.id = y /\ l.track = "v"
    BY DEF VideoSource, SsrcLine
  <2> HIDE DEF infos, l
  <2>2. {i \in DOMAIN infos : infos[i].id = l.id} = {}
    BY <1>3, <2>1
  <2>3. ParseSsrcInfo(infos, l) = Append(infos, VideoSource(y))
    BY <2>1, <2>2 DEF ParseSsrcInfo, VideoSource
  <2> QED
    BY <2>3, Pairing, Zenon DEF infos, l
<1> QED
  BY <1>1, <1>2, <1>3 DEF AudioSource, VideoSource

LEMMA LinesGrouped ==
    \A a, b, c \in Seq(Lines) : a \o (b \o c) = (a \o b) \o c
BY ConcatAssociative

LEMMA LinesAppended ==
    \A s \in Seq(Lines), a, b, c, d \in Lines :
        s \o <<a, b, c, d>> = Append(Append(Append(Append(s, a), b), c), d)
BY Appending

(* The lines of a section in the order of its kinds.                       *)
LEMMA SectionLines ==
    ASSUME NEW s \in Seq(Lines), NEW order \in Orders
    PROVE  /\ Section("audio", order) \in Seq(Lines) /\ Section("video", order) \in Seq(Lines)
           /\ s \o Section("audio", order) = (s \o SectionHead("audio")) \o <<SsrcLine(10, "a"), SsrcLine(10, "a")>>
           /\ s \o Section("video", order) =
                  ((s \o SectionHead("video")) \o <<FmtpLine(107), RtxMapLine(99), RtxMapLine(100), GroupLine(order)>>)
                      \o SsrcLines(order)
<1>1. \A m \in Media : SectionHead(m) \in Seq(Lines)
  <2> TAKE m \in Media
  <2>1. PICK a \in Lines, b \in Lines, c \in Lines, d \in Lines :
            a = MLine(m, 4) /\ b = UfragLine(Ufrag(m)) /\ c = PwdLine(Pwd(m)) /\ d = FingerprintLine(TRUE)
    BY BrowserLines
  <2>2. <<a, b, c, d>> \in Seq(Lines)
    OBVIOUS
  <2> QED
    BY <2>1, <2>2 DEF SectionHead
<1>2. "audio" \in Media /\ "video" \in Media
  BY DEF Media
<1>3. \A n \in Nat : SsrcLine(n, "a") \in Lines /\ SsrcLine(n, "v") \in Lines
  BY <1>2, BrowserLines
<1>4. <<SsrcLine(10, "a"), SsrcLine(10, "a")>> \in Seq(Lines)
  <2>1. PICK a \in Lines : a = SsrcLine(10, "a")
    BY <1>3
  <2>2. <<a, a>> \in Seq(Lines)
    OBVIOUS
  <2> QED
    BY <2>1, <2>2
<1>5. order \in Seq(Nat)
  <2>1. order \in Seq(Nat \ {0, 10})
    BY OrdersAssumption
  <2> QED
    BY <2>1
<1>6. SsrcLines(order) \in Seq(Lines)
  <2>1. \A i \in 1 .. Len(order) : SsrcLine(order[i], "v") \in Lines
    BY <1>3, <1>5
  <2>2. SsrcLines(order) = [i \in 1 .. Len(order) |-> SsrcLine(order[i], "v")]
    BY <1>5 DEF SsrcLines
  <2>3. Len(order) \in Nat
    BY <1>5
  <2> QED
    BY <2>1, <2>2, <2>3
<1>7. <<FmtpLine(107), RtxMapLine(99), RtxMapLine(100), GroupLine(order)>> \in Seq(Lines)
  <2>1. PICK a \in Lines, b \in Lines, c \in Lines, d \in Lines :
            a = FmtpLine(107) /\ b = RtxMapLine(99) /\ c = RtxMapLine(100) /\ d = GroupLine(order)
    <3>1. 107 \in Nat /\ 99 \in Nat /\ 100 \in Nat
      OBVIOUS
    <3>2. /\ FmtpLine(107) \in Lines /\ RtxMapLine(99) \in Lines /\ RtxMapLine(100) \in Lines
          /\ GroupLine(order) \in Lines
      BY <1>2, <1>5, <3>1, BrowserLines
    <3> QED
      BY <3>2
  <2>2. <<a, b, c, d>> \in Seq(Lines)
    OBVIOUS
  <2> QED
    BY <2>1, <2>2
<1>8. /\ Section("audio", order) \in Seq(Lines)
      /\ s \o Section("audio", order) = (s \o SectionHead("audio")) \o <<SsrcLine(10, "a"), SsrcLine(10, "a")>>
  <2> DEFINE H == SectionHead("audio")
             t == <<SsrcLine(10, "a"), SsrcLine(10, "a")>>
  <2>1. Section("audio", order) = H \o t
    BY DEF Section, SectionHead
  <2>2. H \in Seq(Lines) /\ t \in Seq(Lines)
    BY <1>1, <1>2, <1>4
  <2> HIDE DEF H, t
  <2>3. s \o (H \o t) = (s \o H) \o t /\ H \o t \in Seq(Lines)
    BY <2>2, ConcatAssociative, ConcatProperties
  <2> QED
    BY <2>1, <2>3 DEF H, t
<1>9. /\ Section("video", order) \in Seq(Lines)
      /\ s \o Section("video", order) =
             ((s \o SectionHead("video")) \o <<FmtpLine(107), RtxMapLine(99), RtxMapLine(100), GroupLine(order)>>)
                 \o SsrcLines(order)
  <2> DEFINE H == SectionHead("video")
             t == <<FmtpLine(107), RtxMapLine(99), RtxMapLine(100), GroupLine(order)>>
             u == SsrcLines(order)
  <2>1. Section("video", order) = H \o (t \o u)
    <3>1. "video" # "audio"
      OBVIOUS
    <3> QED
      BY <3>1 DEF Section, SectionHead
  <2>2. H \in Seq(Lines) /\ t \in Seq(Lines) /\ u \in Seq(Lines)
    BY <1>1, <1>2, <1>6, <1>7
  <2> HIDE DEF H, t, u
  <2>3. PICK v \in Seq(Lines), w \in Seq(Lines) : v = t \o u /\ w = s \o H
    BY <2>2, ConcatProperties
  <2>4. s \o (H \o v) = (s \o H) \o v
    BY <2>2, LinesGrouped, Zenon
  <2>5. w \o (t \o u) = (w \o t) \o u
    BY <2>2, LinesGrouped, Zenon
  <2>6. H \o v \in Seq(Lines)
    BY <2>2, ConcatProperties
  <2> QED
    BY <2>1, <2>3, <2>4, <2>5, <2>6, Zenon DEF H, t, u
<1> QED
  BY <1>8, <1>9

WithCredentials(td, m) == [td EXCEPT ![m] = Credentials(m)]
WithSources(S, m, infos) == [S EXCEPT ![m] = infos]

(* An audio section brings its credentials and its source, one of video    *)
(* also the payload types.                                                 *)
LEMMA AudioParsed ==
    ASSUME NEW s \in Seq(Lines), NEW n, NEW F, NEW td, NEW S, NEW h, NEW r, NEW order \in Orders,
           Says(ParseLines(s), n, F, td, S, h, r), S["audio"] = <<>>
    PROVE  /\ s \o Section("audio", order) \in Seq(Lines)
           /\ Says(ParseLines(s \o Section("audio", order)), "audio", F \cup {"audio"},
                   WithCredentials(td, "audio"), WithSources(S, "audio", <<AudioSource>>), h, r)
<1>0. "audio" \in Media
  BY DEF Media
<1> DEFINE td2 == WithCredentials(td, "audio")
           F2 == F \cup {"audio"}
<1>1. PICK t \in Seq(Lines) : t = s \o SectionHead("audio") /\ Says(ParseLines(t), "audio", F2, td2, S, h, r)
  BY <1>0, HeadParsed DEF WithCredentials
<1>2. PICK l \in Lines : l = SsrcLine(10, "a")
  BY <1>0, BrowserLines
<1>3. PICK t1 \in Seq(Lines) : t1 = Append(t, l)
  BY AppendProperties
<1>4. PICK t2 \in Seq(Lines) : t2 = Append(t1, l)
  BY AppendProperties
<1>5. s \o Section("audio", order) = t2
  <2>1. s \o Section("audio", order) = t \o <<l, l>>
    BY <1>1, <1>2, SectionLines
  <2>2. t \o <<l, l>> = Append(Append(t, l), l)
    BY Appending
  <2> QED
    BY <1>3, <1>4, <2>1, <2>2, Zenon
<1> HIDE DEF td2, F2
<1> DEFINE S1 == WithSource(S, "audio", SsrcLine(10, "a"))
           S2 == WithSource(S1, "audio", SsrcLine(10, "a"))
<1>6. Says(ParseLines(t1), "audio", F2, td2, S1, h, r)
  <2>1. ParseLines(t1) = ParseLine(ParseLines(t), SsrcLine(10, "a"))
    BY <1>2, <1>3, ParseLinesFacts
  <2> QED
    BY <1>0, <1>1, <2>1, SsrcStep
<1>7. Says(ParseLines(t2), "audio", F2, td2, S2, h, r)
  <2>1. ParseLines(t2) = ParseLine(ParseLines(t1), SsrcLine(10, "a"))
    BY <1>2, <1>4, ParseLinesFacts
  <2> HIDE DEF S1
  <2> QED
    BY <1>0, <1>6, <2>1, SsrcStep
<1>8. S \in [Media -> Seq(Sources)]
  BY DEF Says, Listing, Offers
<1>9. S2 = WithSources(S, "audio", <<AudioSource>>)
  <2>1. S1 = [S EXCEPT !["audio"] = <<AudioSource>>]
    BY <1>8, SourcesListed DEF WithSource
  <2>2. S1["audio"] = <<AudioSource>>
    BY <1>0, <1>8, <2>1
  <2>3. S2 = [S1 EXCEPT !["audio"] = <<AudioSource>>]
    BY <2>2, SourcesListed DEF WithSource
  <2> HIDE DEF S1, S2
  <2> QED
    BY <1>8, <2>1, <2>3 DEF WithSources
<1> QED
  BY <1>5, <1>7, <1>9 DEF td2, F2

VideoSources(order) == [i \in DOMAIN order |-> VideoSource(order[i])]

(* An order has no source, one, or one and that of its retransmissions.    *)
LEMMA OrderCases ==
    ASSUME NEW order \in Orders
    PROVE  \/ order = <<>> /\ SsrcLines(order) = <<>> /\ VideoSources(order) = <<>>
           \/ \E x \in Nat \ {0, 10} :
                  /\ order = <<x>> /\ SsrcLines(order) = <<SsrcLine(x, "v")>>
                  /\ VideoSources(order) = <<VideoSource(x)>>
           \/ \E x, y \in Nat \ {0, 10} :
                  /\ x # y /\ order = <<x, y>>
                  /\ SsrcLines(order) = <<SsrcLine(x, "v"), SsrcLine(y, "v")>>
                  /\ VideoSources(order) = <<VideoSource(x), VideoSource(y)>>
<1>1. /\ order \in Seq(Nat \ {0, 10}) /\ Len(order) <= 2 /\ Len(order) \in Nat
      /\ Len(order) = 2 => order[1] # order[2]
  BY OrdersAssumption
<1>2. Len(order) = 0 \/ Len(order) = 1 \/ Len(order) = 2
  <2>1. \A n \in Nat : n <= 2 => n = 0 \/ n = 1 \/ n = 2
    OBVIOUS
  <2> QED
    BY <1>1, <2>1, Zenon
<1>3. CASE Len(order) = 0
  <2>1. order = <<>>
    BY <1>1, <1>3
  <2> QED
    BY <2>1 DEF SsrcLines, VideoSources
<1>4. CASE Len(order) = 1
  <2>1. PICK x \in Nat \ {0, 10} : order = <<x>>
    BY <1>1, <1>4
  <2>2. DOMAIN order = {1} /\ order[1] = x
    BY <2>1
  <2>3. PICK l, v : l = SsrcLine(x, "v") /\ v = VideoSource(x)
    OBVIOUS
  <2>4. SsrcLines(order) = <<l>> /\ VideoSources(order) = <<v>>
    BY <2>2, <2>3 DEF SsrcLines, VideoSources
  <2> QED
    BY <2>1, <2>3, <2>4
<1>5. CASE Len(order) = 2
  <2>0. PICK x \in Nat \ {0, 10}, y \in Nat \ {0, 10} : x = order[1] /\ y = order[2]
    BY <1>1, <1>5
  <2>1. order = <<x, y>> /\ x # y
    BY <1>1, <1>5, <2>0
  <2>2. DOMAIN order = {1, 2} /\ order[1] = x /\ order[2] = y
    BY <2>1
  <2>3. PICK l, v, k, w : /\ l = SsrcLine(x, "v") /\ v = VideoSource(x)
                          /\ k = SsrcLine(y, "v") /\ w = VideoSource(y)
    OBVIOUS
  <2>4. SsrcLines(order) = <<l, k>> /\ VideoSources(order) = <<v, w>>
    BY <2>2, <2>3 DEF SsrcLines, VideoSources
  <2> QED
    BY <2>1, <2>3, <2>4
<1> QED
  BY <1>2, <1>3, <1>4, <1>5

(* The sources of a video section, parsed behind its other lines.          *)
LEMMA SourcesParsed ==
    ASSUME NEW s \in Seq(Lines), NEW F, NEW td, NEW S, NEW h, NEW r, NEW order \in Orders,
           Says(ParseLines(s), "video", F, td, S, h, r), S["video"] = <<>>
    PROVE  /\ s \o SsrcLines(order) \in Seq(Lines)
           /\ Says(ParseLines(s \o SsrcLines(order)), "video", F, td,
                   WithSources(S, "video", VideoSources(order)), h, r)
<1>0. "video" \in Media
  BY DEF Media
<1>1. S \in [Media -> Seq(Sources)]
  BY DEF Says, Listing, Offers
<1>2. CASE order = <<>> /\ SsrcLines(order) = <<>> /\ VideoSources(order) = <<>>
  <2>1. s \o SsrcLines(order) = s
    BY <1>2, ConcatEmptySeq
  <2>2. WithSources(S, "video", VideoSources(order)) = S
    BY <1>1, <1>2 DEF WithSources
  <2> QED
    BY <2>1, <2>2
<1>3. ASSUME NEW x \in Nat
      PROVE  \E l \in Lines, t \in Seq(Lines) :
                /\ l = SsrcLine(x, "v") /\ t = Append(s, l) /\ s \o <<SsrcLine(x, "v")>> = t
                /\ Says(ParseLines(t), "video", F, td, WithSources(S, "video", <<VideoSource(x)>>), h, r)
  <2>1. PICK l \in Lines : l = SsrcLine(x, "v")
    BY <1>0, BrowserLines
  <2>2. PICK t \in Seq(Lines) : t = Append(s, l)
    BY AppendProperties
  <2>3. s \o <<l>> = t
    BY <2>2, Appending
  <2>4. ParseLines(t) = ParseLine(ParseLines(s), SsrcLine(x, "v"))
    BY <2>1, <2>2, ParseLinesFacts
  <2>5. Says(ParseLines(t), "video", F, td, WithSource(S, "video", SsrcLine(x, "v")), h, r)
    BY <1>0, <2>4, SsrcStep
  <2>6. WithSource(S, "video", SsrcLine(x, "v")) = WithSources(S, "video", <<VideoSource(x)>>)
    BY SourcesListed DEF WithSource, WithSources
  <2> QED
    BY <2>1, <2>2, <2>3, <2>5, <2>6
<1>4. ASSUME NEW x \in Nat, SsrcLines(order) = <<SsrcLine(x, "v")>>, VideoSources(order) = <<VideoSource(x)>>
      PROVE  /\ s \o SsrcLines(order) \in Seq(Lines)
             /\ Says(ParseLines(s \o SsrcLines(order)), "video", F, td,
                     WithSources(S, "video", VideoSources(order)), h, r)
  BY <1>3, <1>4
<1>5. ASSUME NEW x \in Nat, NEW y \in Nat, x # y, SsrcLines(order) = <<SsrcLine(x, "v"), SsrcLine(y, "v")>>,
             VideoSources(order) = <<VideoSource(x), VideoSource(y)>>
      PROVE  /\ s \o SsrcLines(order) \in Seq(Lines)
             /\ Says(ParseLines(s \o SsrcLines(order)), "video", F, td,
                     WithSources(S, "video", VideoSources(order)), h, r)
  <2> DEFINE S1 == WithSources(S, "video", <<VideoSource(x)>>)
             S2 == WithSource(S1, "video", SsrcLine(y, "v"))
  <2>1. PICK l \in Lines, t \in Seq(Lines) :
            l = SsrcLine(x, "v") /\ t = Append(s, l) /\ Says(ParseLines(t), "video", F, td, S1, h, r)
    BY <1>3
  <2>2. PICK k \in Lines : k = SsrcLine(y, "v")
    BY <1>0, BrowserLines
  <2>3. PICK u \in Seq(Lines) : u = Append(t, k)
    BY AppendProperties
  <2>4. s \o SsrcLines(order) = u
    <3>1. s \o <<l, k>> = Append(Append(s, l), k)
      BY Appending
    <3> QED
      BY <1>5, <2>1, <2>2, <2>3, <3>1, Zenon
  <2>5. ParseLines(u) = ParseLine(ParseLines(t), SsrcLine(y, "v"))
    BY <2>2, <2>3, ParseLinesFacts
  <2>6. S1["video"] = <<VideoSource(x)>>
    BY <1>0, <1>1 DEF WithSources
  <2>7. S2 = WithSources(S, "video", VideoSources(order))
    <3>1. S2 = [S1 EXCEPT !["video"] = VideoSources(order)]
      BY <1>5, <2>6, SourcesListed DEF WithSource
    <3>2. \A a, b : [[S EXCEPT !["video"] = a] EXCEPT !["video"] = b] = [S EXCEPT !["video"] = b]
      BY <1>1
    <3> QED
      BY <3>1, <3>2, Zenon DEF WithSources
  <2> HIDE DEF S1
  <2>8. Says(ParseLines(u), "video", F, td, S2, h, r)
    BY <1>0, <2>1, <2>5, SsrcStep
  <2> HIDE DEF S2
  <2> QED
    BY <2>4, <2>7, <2>8
<1> QED
  BY <1>2, <1>4, <1>5, OrderCases

LEMMA VideoParsed ==
    ASSUME NEW s \in Seq(Lines), NEW n, NEW F, NEW td, NEW S, NEW order \in Orders,
           Says(ParseLines(s), n, F, td, S, 0, 0), S["video"] = <<>>
    PROVE  /\ s \o Section("video", order) \in Seq(Lines)
           /\ Says(ParseLines(s \o Section("video", order)), "video", F \cup {"video"},
                   WithCredentials(td, "video"), WithSources(S, "video", VideoSources(order)), 107, 99)
<1>0. "video" \in Media /\ 107 \in Nat /\ 99 \in Nat /\ 100 \in Nat /\ 0 \in Nat /\ 107 # 0 /\ 99 # 0
  BY DEF Media
<1> DEFINE td2 == WithCredentials(td, "video")
           F2 == F \cup {"video"}
<1>1. PICK t \in Seq(Lines) : t = s \o SectionHead("video") /\ Says(ParseLines(t), "video", F2, td2, S, 0, 0)
  BY <1>0, HeadParsed DEF WithCredentials
<1> HIDE DEF td2, F2
<1>2. order \in Seq(Nat)
  <2>1. order \in Seq(Nat \ {0, 10})
    BY OrdersAssumption
  <2> QED
    BY <2>1
<1>3. PICK a \in Lines, b \in Lines, c \in Lines, d \in Lines :
          a = FmtpLine(107) /\ b = RtxMapLine(99) /\ c = RtxMapLine(100) /\ d = GroupLine(order)
  <2>1. /\ FmtpLine(107) \in Lines /\ RtxMapLine(99) \in Lines /\ RtxMapLine(100) \in Lines
        /\ GroupLine(order) \in Lines
    BY <1>0, <1>2, BrowserLines
  <2> QED
    BY <2>1
<1>4. PICK t1 \in Seq(Lines) : t1 = Append(t, a)
  BY AppendProperties
<1>5. PICK t2 \in Seq(Lines) : t2 = Append(t1, b)
  BY AppendProperties
<1>6. PICK t3 \in Seq(Lines) : t3 = Append(t2, c)
  BY AppendProperties
<1>7. PICK t4 \in Seq(Lines) : t4 = Append(t3, d)
  BY AppendProperties
<1>8. Says(ParseLines(t1), "video", F2, td2, S, 107, 0)
  <2>1. ParseLines(t1) = ParseLine(ParseLines(t), FmtpLine(107))
    BY <1>3, <1>4, ParseLinesFacts
  <2>2. Says(ParseLine(ParseLines(t), FmtpLine(107)), "video", F2, td2, S, 107, 0)
    BY <1>0, <1>1, <1>2, PayloadStep
  <2> QED
    BY <2>1, <2>2, Zenon
<1>9. Says(ParseLines(t2), "video", F2, td2, S, 107, 99)
  <2>1. ParseLines(t2) = ParseLine(ParseLines(t1), RtxMapLine(99))
    BY <1>3, <1>5, ParseLinesFacts
  <2>2. Says(ParseLine(ParseLines(t1), RtxMapLine(99)), "video", F2, td2, S, 107, 99)
    BY <1>0, <1>2, <1>8, PayloadStep
  <2> QED
    BY <2>1, <2>2, Zenon
<1>10. Says(ParseLines(t3), "video", F2, td2, S, 107, 99)
  <2>1. ParseLines(t3) = ParseLine(ParseLines(t2), RtxMapLine(100))
    BY <1>3, <1>6, ParseLinesFacts
  <2>2. Says(ParseLine(ParseLines(t2), RtxMapLine(100)), "video", F2, td2, S, 107, 99)
    BY <1>0, <1>2, <1>9, PayloadStep
  <2> QED
    BY <2>1, <2>2, Zenon
<1>11. Says(ParseLines(t4), "video", F2, td2, S, 107, 99)
  <2>1. ParseLines(t4) = ParseLine(ParseLines(t3), GroupLine(order))
    BY <1>3, <1>7, ParseLinesFacts
  <2>2. Says(ParseLine(ParseLines(t3), GroupLine(order)), "video", F2, td2, S, 107, 99)
    BY <1>0, <1>2, <1>10, PayloadStep
  <2> QED
    BY <2>1, <2>2, Zenon
<1>12. t \o <<FmtpLine(107), RtxMapLine(99), RtxMapLine(100), GroupLine(order)>> = t4
  <2>1. t \o <<a, b, c, d>> = Append(Append(Append(Append(t, a), b), c), d)
    BY LinesAppended
  <2> QED
    BY <1>3, <1>4, <1>5, <1>6, <1>7, <2>1, Zenon
<1>13. s \o Section("video", order) = t4 \o SsrcLines(order)
  BY <1>1, <1>12, SectionLines, Zenon
<1>14. /\ t4 \o SsrcLines(order) \in Seq(Lines)
       /\ Says(ParseLines(t4 \o SsrcLines(order)), "video", F2, td2,
               WithSources(S, "video", VideoSources(order)), 107, 99)
  BY <1>11, SourcesParsed
<1> QED
  BY <1>13, <1>14 DEF td2, F2

Browsers == {<<"audio">>, <<"video">>, <<"audio", "video">>, <<"video", "audio">>}
NoSources == [m \in Media |-> <<>>]
NoTransports == [m \in Media |-> NoTransport]

LEMMA NothingParsed ==
    <<>> \in Seq(Lines) /\ Says(ParseLines(<<>>), Empty, {}, NoTransports, NoSources, 0, 0)
<1>1. <<>> \in Seq(Lines)
  OBVIOUS
<1>2. ParseLines(<<>>) = NewOffer
  <2>1. FmtpLine(0) \in Lines
    BY BrowserLines DEF Media
  <2> QED
    BY <1>1, <2>1, ParseLinesFacts
<1>3. Listing(NewOffer)
  BY <1>1, <1>2, ParseLinesListing
<1>4. /\ NewOffer.ok /\ NewOffer.media = Empty /\ NewOffer.offered = {}
      /\ NewOffer.td = NoTransports /\ NewOffer.ssrcs = NoSources
      /\ NewOffer.h264 = 0 /\ NewOffer.rtx = 0
  BY DEF NewOffer, NoSources, NoTransports
<1>5. Says(NewOffer, Empty, {}, NoTransports, NoSources, 0, 0)
  BY <1>3, <1>4, Zenon DEF Says
<1> QED
  BY <1>1, <1>2, <1>5, Zenon

(* The offer of a browser says what was put into it.                       *)
OfferSays(o, F, order) ==
    /\ Listing(o) /\ o.ok /\ o.offered = F
    /\ \A m \in F : o.td[m] = Credentials(m)
    /\ o.ssrcs["audio"] = IF "audio" \in F THEN <<AudioSource>> ELSE <<>>
    /\ o.ssrcs["video"] = IF "video" \in F THEN VideoSources(order) ELSE <<>>
    /\ "video" \in F => o.h264 = 107 /\ o.rtx = 99

LEMMA OfferParsed ==
    ASSUME NEW ms \in Browsers, NEW order \in Orders
    PROVE  OfferSays(ParseLines(Offer(ms, order)), ToSet(ms), order)
<1> DEFINE A == Section("audio", order)
           V == Section("video", order)
           vs == VideoSources(order)
           T0 == NoTransports
           S0 == NoSources
           TA == WithCredentials(T0, "audio")
           SA == WithSources(S0, "audio", <<AudioSource>>)
           TV == WithCredentials(T0, "video")
           SV == WithSources(S0, "video", vs)
           TAV == WithCredentials(TA, "video")
           SAV == WithSources(SA, "video", vs)
           TVA == WithCredentials(TV, "audio")
           SVA == WithSources(SV, "audio", <<AudioSource>>)
<1>0. "audio" \in Media /\ "video" \in Media /\ "audio" # "video"
  BY DEF Media
<1>1. A \in Seq(Lines) /\ V \in Seq(Lines) /\ <<>> \o A = A /\ <<>> \o V = V
  <2>1. A \in Seq(Lines) /\ V \in Seq(Lines)
    BY NothingParsed, SectionLines
  <2> HIDE DEF A, V
  <2> QED
    BY <2>1, ConcatEmptySeq
<1>2. S0["audio"] = <<>> /\ S0["video"] = <<>> /\ SA["video"] = <<>> /\ SV["audio"] = <<>>
  BY <1>0 DEF NoSources, WithSources
<1> HIDE DEF T0, S0, TA, SA, TV, SV, TAV, SAV, TVA, SVA
<1>3. Says(ParseLines(<<>>), Empty, {}, T0, S0, 0, 0) /\ <<>> \in Seq(Lines)
  BY NothingParsed DEF T0, S0
<1>4. Says(ParseLines(A), "audio", {} \cup {"audio"}, TA, SA, 0, 0)
  <2>1. Says(ParseLines(<<>> \o A), "audio", {} \cup {"audio"}, TA, SA, 0, 0)
    BY <1>2, <1>3, AudioParsed DEF TA, SA
  <2> HIDE DEF A
  <2> QED
    BY <1>1, <2>1, Zenon
<1>5. Says(ParseLines(V), "video", {} \cup {"video"}, TV, SV, 107, 99)
  <2>1. Says(ParseLines(<<>> \o V), "video", {} \cup {"video"}, TV, SV, 107, 99)
    BY <1>2, <1>3, VideoParsed DEF TV, SV
  <2> HIDE DEF V
  <2> QED
    BY <1>1, <2>1, Zenon
<1>6. Says(ParseLines(A \o V), "video", ({} \cup {"audio"}) \cup {"video"}, TAV, SAV, 107, 99)
  BY <1>1, <1>2, <1>4, VideoParsed DEF TAV, SAV
<1>7. Says(ParseLines(V \o A), "audio", ({} \cup {"video"}) \cup {"audio"}, TVA, SVA, 107, 99)
  BY <1>1, <1>2, <1>5, AudioParsed DEF TVA, SVA
<1>8. TA["audio"] = Credentials("audio") /\ TV["video"] = Credentials("video")
  BY <1>0 DEF TA, TV, WithCredentials, T0, NoTransports
<1>9. /\ TAV["audio"] = Credentials("audio") /\ TAV["video"] = Credentials("video")
      /\ TVA["audio"] = Credentials("audio") /\ TVA["video"] = Credentials("video")
  BY <1>0 DEF TAV, TVA, TA, TV, WithCredentials, T0, NoTransports
<1>10. SA["audio"] = <<AudioSource>> /\ SV["video"] = vs
  BY <1>0 DEF SA, SV, WithSources, S0, NoSources
<1>11. /\ SAV["audio"] = <<AudioSource>> /\ SAV["video"] = vs
       /\ SVA["audio"] = <<AudioSource>> /\ SVA["video"] = vs
  BY <1>0 DEF SAV, SVA, SA, SV, WithSources, S0, NoSources
<1>12. CASE ms = <<"audio">>
  <2>1. Offer(ms, order) = A /\ ToSet(ms) = {"audio"}
    <3>1. ms[1] = "audio" /\ Len(ms) = 1 /\ DOMAIN ms = {1}
      BY <1>12
    <3>2. A \o <<>> = A
      <4> HIDE DEF A
      <4> QED
        BY <1>1, ConcatEmptySeq
    <3> QED
      BY <3>1, <3>2 DEF Offer, ToSet
  <2> HIDE DEF A
  <2> QED
    BY <1>0, <1>2, <1>4, <1>8, <1>10, <2>1 DEF Says, OfferSays
<1>13. CASE ms = <<"video">>
  <2>1. Offer(ms, order) = V /\ ToSet(ms) = {"video"}
    <3>1. ms[1] = "video" /\ Len(ms) = 1 /\ DOMAIN ms = {1}
      BY <1>13
    <3>2. V \o <<>> = V
      <4> HIDE DEF V
      <4> QED
        BY <1>1, ConcatEmptySeq
    <3> QED
      BY <3>1, <3>2 DEF Offer, ToSet
  <2> HIDE DEF V, vs
  <2> QED
    BY <1>0, <1>2, <1>5, <1>8, <1>10, <2>1 DEF Says, OfferSays, vs
<1>14. CASE ms = <<"audio", "video">>
  <2>1. Offer(ms, order) = A \o V /\ ToSet(ms) = {"audio", "video"}
    <3>1. ms[1] = "audio" /\ ms[2] = "video" /\ Len(ms) = 2 /\ DOMAIN ms = {1, 2}
      BY <1>14
    <3> QED
      BY <3>1 DEF Offer, ToSet
  <2> HIDE DEF A, V, vs
  <2> QED
    BY <1>0, <1>6, <1>9, <1>11, <2>1 DEF Says, OfferSays, vs
<1>15. CASE ms = <<"video", "audio">>
  <2>1. Offer(ms, order) = V \o A /\ ToSet(ms) = {"audio", "video"}
    <3>1. ms[1] = "video" /\ ms[2] = "audio" /\ Len(ms) = 2 /\ DOMAIN ms = {1, 2}
      BY <1>15
    <3> QED
      BY <3>1 DEF Offer, ToSet
  <2> HIDE DEF A, V, vs
  <2> QED
    BY <1>0, <1>7, <1>9, <1>11, <2>1 DEF Says, OfferSays, vs
<1> QED
  BY <1>12, <1>13, <1>14, <1>15 DEF Browsers

-----------------------------------------------------------------------------
(* The receive streams of a browser's offer.                               *)

VideoTrack(x) == [id |-> "v", ssrcs |-> <<x>>, groups |-> <<>>]

(* Two sources of one track are one track, with both sources in order.     *)
LEMMA TwoSources ==
    ASSUME NEW x \in Nat, NEW y \in Nat
    PROVE  LET tracks == CreateTracks(<<VideoSource(x), VideoSource(y)>>) IN
           Len(tracks) = 1 /\ tracks[1].ssrcs = <<x, y>>
<1>1. PICK a \in Sources, b \in Sources : a = VideoSource(x) /\ b = VideoSource(y)
  BY DEF VideoSource, Sources, Texts
<1>2. a.id = x /\ a.track = "v" /\ b.id = y /\ b.track = "v"
  BY <1>1 DEF VideoSource
<1>3. PICK s1 \in Seq(Sources) : s1 = Append(<<>>, a)
  <2>1. <<>> \in Seq(Sources)
    OBVIOUS
  <2> QED
    BY <2>1, AppendProperties
<1>4. <<a, b>> = Append(s1, b)
  BY <1>3, Pairing, Zenon
<1>5. CreateTracks(s1) = <<VideoTrack(x)>>
  <2>1. <<>> \in Seq(Sources)
    OBVIOUS
  <2>2. CreateTracks(<<>>) = <<>> /\ CreateTracks(s1) = AddToTrack(CreateTracks(<<>>), a)
    BY <1>3, <2>1, CreateTracksFacts
  <2>3. AddToTrack(<<>>, a) = <<VideoTrack(x)>>
    <3>1. {i \in DOMAIN <<>> : <<>>[i].id = a.track} = {}
      OBVIOUS
    <3>2. AddToTrack(<<>>, a) = Append(<<>>, VideoTrack(x))
      BY <1>2, <3>1 DEF AddToTrack, VideoTrack
    <3> QED
      BY <3>2, Pairing, Zenon
  <2> QED
    BY <2>2, <2>3, Zenon
<1>6. CreateTracks(Append(s1, b)) = AddToTrack(CreateTracks(s1), b)
  BY CreateTracksFacts
<1> DEFINE one == <<VideoTrack(x)>>
<1>7. DOMAIN one = {1} /\ one[1] = VideoTrack(x) /\ VideoTrack(x).id = "v" /\ VideoTrack(x).ssrcs = <<x>>
  BY DEF VideoTrack
<1> HIDE DEF one
<1>8. {i \in DOMAIN one : one[i].id = b.track} = {1}
  BY <1>2, <1>7
<1>9. AddToTrack(one, b) = [i \in {1} |-> [VideoTrack(x) EXCEPT !.ssrcs = <<x, y>>]]
  <2>1. AddToTrack(one, b) = [i \in {1} |-> [one[i] EXCEPT !.ssrcs = Append(@, b.id)]]
    BY <1>7, <1>8 DEF AddToTrack
  <2>2. \A e : e.ssrcs = <<x>> => [e EXCEPT !.ssrcs = Append(@, y)] = [e EXCEPT !.ssrcs = <<x, y>>]
    <3> TAKE e
    <3> HAVE e.ssrcs = <<x>>
    <3>1. Append(e.ssrcs, y) = <<x, y>>
      BY Pairing, Zenon
    <3> QED
      BY <3>1, Zenon
  <2>3. [one[1] EXCEPT !.ssrcs = Append(@, b.id)] = [VideoTrack(x) EXCEPT !.ssrcs = <<x, y>>]
    BY <1>2, <1>7, <2>2, Zenon
  <2>4. \A f, e : f[1] = e => [i \in {1} |-> f[i]] = [i \in {1} |-> e]
    OBVIOUS
  <2> DEFINE f == [i \in {1} |-> [one[i] EXCEPT !.ssrcs = Append(@, b.id)]]
  <2>5. f[1] = [one[1] EXCEPT !.ssrcs = Append(@, b.id)] /\ f = [i \in {1} |-> f[i]]
    OBVIOUS
  <2> HIDE DEF f
  <2> QED
    BY <2>1, <2>3, <2>4, <2>5, Zenon DEF f
<1>11. [VideoTrack(x) EXCEPT !.ssrcs = <<x, y>>].ssrcs = <<x, y>>
  BY DEF VideoTrack
<1>12. \A e : LET f == [i \in {1} |-> e] IN Len(f) = 1 /\ f[1] = e
  <2> TAKE e
  <2> DEFINE f == [i \in {1} |-> e]
  <2>1. f = <<e>>
    OBVIOUS
  <2> QED
    BY <2>1
<1>13. CreateTracks(<<a, b>>) = [i \in {1} |-> [VideoTrack(x) EXCEPT !.ssrcs = <<x, y>>]]
  BY <1>4, <1>5, <1>6, <1>9, Zenon DEF one
<1> QED
  BY <1>1, <1>11, <1>12, <1>13, Zenon

LEMMA Retransmissions ==
    ASSUME NEW o, Listing(o), NEW x \in Nat, NEW y \in Nat,
           o.ssrcs["video"] = <<VideoSource(x), VideoSource(y)>>
    PROVE  PeerConnectionOf(o).receive.rtx = y
<1> DEFINE V == CreateTracks(o.ssrcs["video"])
           G == AddGroups(V, o.groups)
           tracks == RemoteTracks(o)
<1>1. Len(V) = 1 /\ V[1].ssrcs = <<x, y>>
  BY TwoSources
<1>2. V \in Seq(Tracks)
  <2>1. o.ssrcs["video"] \in Seq(Sources)
    BY DEF Listing, Offers, Media
  <2> QED
    BY <2>1, CreateTracksKeeps DEF TracksOf
<1>3. tracks["video"] = G
  BY DEF RemoteTracks, Media
<1> HIDE DEF V, tracks
<1>4. 1 \in DOMAIN G /\ G[1].ssrcs = <<x, y>>
  <2>0. 1 \in DOMAIN V /\ V[1] \in Tracks
    <3>1. DOMAIN V = 1 .. Len(V) /\ \A i \in 1 .. Len(V) : V[i] \in Tracks
      BY <1>2
    <3>2. Len(V) = 1
      BY <1>1
    <3>3. 1 \in 1 .. 1
      OBVIOUS
    <3> QED
      BY <3>1, <3>2, <3>3, Zenon
  <2>1. G[1] = [V[1] EXCEPT !.groups = GroupsOf(V[1], o.groups)] /\ V[1] \in Tracks /\ 1 \in DOMAIN G
    BY <2>0 DEF AddGroups
  <2> QED
    BY <1>1, <2>1 DEF Tracks
<1>5. G # <<>>
  BY <1>4
<1>6. Len(<<x, y>>) = 2 /\ <<x, y>>[2] = y
  OBVIOUS
<1> HIDE DEF G
<1>7. ReceiveSsrcs(tracks).rtx = IF G # <<>> /\ Len(G[1].ssrcs) >= 2 THEN G[1].ssrcs[2] ELSE 0
  BY <1>3 DEF ReceiveSsrcs
<1>8. PeerConnectionOf(o).receive = ReceiveSsrcs(tracks)
  BY DEF PeerConnectionOf, tracks
<1> QED
  BY <1>4, <1>5, <1>6, <1>7, <1>8

(* A browser's sources reach the stream of their medium.                   *)
LEMMA Reached ==
    ASSUME NEW o, NEW F \in SUBSET Media, NEW order \in Orders, OfferSays(o, F, order)
    PROVE  LET p == PeerConnectionOf(o) IN
           /\ "audio" \in F => Dispatch(p, 10) = "audio"
           /\ "video" \in F =>
                 /\ \A i \in DOMAIN order : Dispatch(p, order[i]) = "video"
                 /\ order # <<>> => p.receive.video = order[1]
                 /\ p.payload = [h264 |-> 107, rtx |-> 99]
<1> DEFINE p == PeerConnectionOf(o)
           R == p.receive
<1>1. Listing(o)
  BY DEF OfferSays
<1>2. R.audio = FirstSource(o, "audio") /\ R.video = FirstSource(o, "video")
  BY <1>1, Receiving DEF ReceivesFirst
<1>3. R.audio = IF "audio" \in F THEN 10 ELSE 0
  <2>1. /\ <<AudioSource>> # <<>> /\ <<AudioSource>>[1] = AudioSource /\ AudioSource.id = 10
    BY DEF AudioSource
  <2> QED
    BY <1>2, <2>1 DEF FirstSource, OfferSays
<1>4. p.payload = [h264 |-> o.h264, rtx |-> o.rtx]
  BY DEF PeerConnectionOf
<1>5. ASSUME "video" \in F, NEW x \in Nat \ {0, 10}, o.ssrcs["video"] # <<>>, o.ssrcs["video"][1] = VideoSource(x)
      PROVE  R.video = x
  <2>1. VideoSource(x).id = x
    BY DEF VideoSource
  <2> QED
    BY <1>2, <1>5, <2>1 DEF FirstSource
<1> HIDE DEF p, R
<1>6. \A n \in Nat \ {0, 10} : R.video # 0 /\ (n = R.video \/ n = R.rtx) => Dispatch(p, n) = "video"
  BY <1>3 DEF Dispatch, R
<1>7. "audio" \in F => Dispatch(p, 10) = "audio"
  BY <1>3 DEF Dispatch, R
<1>8. ASSUME "video" \in F
      PROVE  /\ \A i \in DOMAIN order : Dispatch(p, order[i]) = "video"
             /\ order # <<>> => R.video = order[1]
  <2>1. o.ssrcs["video"] = VideoSources(order)
    BY <1>8 DEF OfferSays
  <2>2. CASE order = <<>>
    BY <2>2
  <2>3. ASSUME NEW x \in Nat \ {0, 10}, order = <<x>>, VideoSources(order) = <<VideoSource(x)>>
        PROVE  /\ \A i \in DOMAIN order : Dispatch(p, order[i]) = "video"
               /\ order # <<>> => R.video = order[1]
    <3>1. \A e : <<e>> # <<>> /\ <<e>>[1] = e /\ DOMAIN <<e>> = {1}
      OBVIOUS
    <3>2. R.video = x
      BY <1>5, <1>8, <2>1, <2>3, <3>1
    <3>3. Dispatch(p, x) = "video"
      BY <1>6, <3>2
    <3> QED
      BY <2>3, <3>1, <3>2, <3>3
  <2>4. ASSUME NEW x \in Nat \ {0, 10}, NEW y \in Nat \ {0, 10}, order = <<x, y>>,
               VideoSources(order) = <<VideoSource(x), VideoSource(y)>>
        PROVE  /\ \A i \in DOMAIN order : Dispatch(p, order[i]) = "video"
               /\ order # <<>> => R.video = order[1]
    <3>1. \A e, f : <<e, f>> # <<>> /\ <<e, f>>[1] = e /\ <<e, f>>[2] = f /\ DOMAIN <<e, f>> = {1, 2}
      OBVIOUS
    <3>2. R.video = x
      BY <1>5, <1>8, <2>1, <2>4, <3>1
    <3>3. R.rtx = y
      BY <1>1, <2>1, <2>4, Retransmissions DEF R, p
    <3>4. Dispatch(p, x) = "video" /\ Dispatch(p, y) = "video"
      BY <1>6, <3>2, <3>3
    <3> QED
      BY <2>4, <3>1, <3>2, <3>4
  <2> QED
    BY <2>2, <2>3, <2>4, OrderCases
<1> QED
  BY <1>4, <1>7, <1>8 DEF OfferSays, p, R

(* Whatever an offer says, and whatever is wanted of it: no source is      *)
(* listed twice (parse_ssrc_info), the receive streams listen to the first *)
(* source of their medium and the one of retransmissions to another of the *)
(* video (the end of set_remote_sdp), and the answer has the sections that *)
(* were offered and are wanted (create_answer), all on one transport, that *)
(* of the first, which gets the parameters of the offer.                   *)
THEOREM AnyOffer ==
    ASSUME NEW lines \in Seq(Lines), NEW push \in BOOLEAN, NEW audio \in BOOLEAN, NEW video \in BOOLEAN
    PROVE  LET o == ParseLines(lines)
               p == PeerConnectionOf(o)
               opt == Options(push, audio, video)
               a == CreateAnswer(p, opt, p.tracks, "local")
               T == LocalTransports(a)
               W == p.offered \cap (opt.send \cup opt.recv)
           IN /\ \A m \in Media : Once(o.ssrcs[m])
              /\ ReceivesFirst(o)
              /\ {s.mid : s \in ToSet(a.sections)} = W
              /\ a.sections # <<>> =>
                    \E t \in W : /\ T = {t} /\ RemoteParams(p, T) = [x \in {t} |-> p.td[t]]
                                 /\ "audio" \in W => t = SendTransport
<1> DEFINE o == ParseLines(lines)
           p == PeerConnectionOf(o)
           opt == Options(push, audio, video)
           a == CreateAnswer(p, opt, p.tracks, "local")
           T == LocalTransports(a)
           W == p.offered \cap (opt.send \cup opt.recv)
<1>1. Listing(o)
  BY ParseLinesListing
<1>2. p.offered \in SUBSET Media
  BY <1>1 DEF PeerConnectionOf, Listing, Offers
<1>3. W = Taken(p, opt)
  BY DEF Taken
<1> HIDE DEF o, opt, W
<1>4. ReceivesFirst(o) /\ \A m \in Media : Once(o.ssrcs[m])
  BY <1>1, Receiving DEF Listing
<1> HIDE DEF p
<1>5. /\ {s.mid : s \in ToSet(a.sections)} = W
      /\ a.sections = <<>> <=> W = {}
      /\ W # {} => T = {FirstTaken(p, opt)}
  BY <1>2, <1>3, Answering
<1> HIDE DEF a, T
<1>6. ASSUME W # {}
      PROVE  \E t \in W : /\ T = {t} /\ RemoteParams(p, T) = [x \in {t} |-> p.td[t]]
                          /\ "audio" \in W => t = SendTransport
  <2> DEFINE t == FirstTaken(p, opt)
  <2>1. t \in W /\ ("audio" \in W => t = "audio")
    BY <1>2, <1>3, <1>6 DEF FirstTaken, Taken, Media
  <2>2. T = {t}
    BY <1>5, <1>6
  <2>3. t \in p.offered
    BY <2>1 DEF W
  <2> HIDE DEF t
  <2>4. p.offered \cap T = {t}
    BY <2>2, <2>3
  <2>5. RemoteParams(p, T) = [x \in {t} |-> p.td[x]]
    BY <2>4 DEF RemoteParams
  <2>6. RemoteParams(p, T) = [x \in {t} |-> p.td[t]]
    BY <2>5
  <2> QED
    BY <2>1, <2>2, <2>6 DEF SendTransport
<1> QED
  BY <1>4, <1>5, <1>6 DEF o, p, opt, a, T, W

(* What comes of every negotiation with a browser: AnswerSound, whatever   *)
(* the orders of its sources (set_remote_sdp, create_answer and the        *)
(* set_local_description and set_remote_description that follow).          *)
LEMMA BrowserAnswered ==
    ASSUME NEW order \in Orders, NEW ms \in Browsers,
           NEW push \in BOOLEAN, NEW audio \in BOOLEAN, NEW video \in BOOLEAN
    PROVE  LET p == PeerConnectionOf(ParseLines(Offer(ms, order)))
               opt == Options(push, audio, video)
               a == CreateAnswer(p, opt, p.tracks, "local")
               T == LocalTransports(a)
               W == opt.send \cup opt.recv
           IN /\ {s.mid : s \in ToSet(a.sections)} = ToSet(ms) \cap W
              /\ a.sections # <<>> =>
                    /\ Cardinality(T) = 1
                    /\ \A t \in T : /\ t \in DOMAIN RemoteParams(p, T)
                                    /\ RemoteParams(p, T)[t] = Credentials(t)
                    /\ "audio" \in W \cap ToSet(ms) => SendTransport \in T
              /\ "audio" \in ToSet(ms) => Dispatch(p, 10) = "audio"
              /\ "video" \in ToSet(ms) =>
                    /\ \A i \in DOMAIN order : Dispatch(p, order[i]) = "video"
                    /\ order # <<>> => p.receive.video = order[1]
                    /\ p.payload = [h264 |-> 107, rtx |-> 99]
<1> DEFINE o == ParseLines(Offer(ms, order))
           p == PeerConnectionOf(o)
           opt == Options(push, audio, video)
           a == CreateAnswer(p, opt, p.tracks, "local")
           T == LocalTransports(a)
           W == opt.send \cup opt.recv
           F == ToSet(ms)
<1>1. OfferSays(o, F, order)
  BY OfferParsed
<1>2. p.offered = F /\ p.td = o.td /\ F \in SUBSET Media
  BY <1>1 DEF PeerConnectionOf, OfferSays, Listing, Offers
<1> HIDE DEF o, opt, F
<1>3. /\ "audio" \in F => Dispatch(p, 10) = "audio"
      /\ "video" \in F =>
            /\ \A i \in DOMAIN order : Dispatch(p, order[i]) = "video"
            /\ order # <<>> => p.receive.video = order[1]
            /\ p.payload = [h264 |-> 107, rtx |-> 99]
  BY <1>1, <1>2, Reached
<1> HIDE DEF p
<1>4. Taken(p, opt) = F \cap W
  BY <1>2 DEF Taken
<1>5. /\ {s.mid : s \in ToSet(a.sections)} = F \cap W
      /\ a.sections = <<>> <=> F \cap W = {}
      /\ F \cap W # {} => T = {FirstTaken(p, opt)}
  BY <1>2, <1>4, Answering
<1> HIDE DEF a, T, W
<1>6. ASSUME F \cap W # {}
      PROVE  /\ Cardinality(T) = 1
             /\ \A t \in T : t \in DOMAIN RemoteParams(p, T) /\ RemoteParams(p, T)[t] = Credentials(t)
             /\ "audio" \in W \cap F => SendTransport \in T
  <2>1. Cardinality(T) = 1
    BY <1>5, <1>6, FS_Singleton
  <2>2. FirstTaken(p, opt) \in F /\ ("audio" \in W \cap F => FirstTaken(p, opt) = "audio")
    BY <1>2, <1>4, <1>6 DEF FirstTaken, Media
  <2>3. \A t \in T : t \in F \cap T
    BY <1>5, <1>6, <2>2
  <2>4. \A t \in F : o.td[t] = Credentials(t)
    BY <1>1 DEF OfferSays
  <2>5. RemoteParams(p, T) = [t \in F \cap T |-> o.td[t]]
    BY <1>2 DEF RemoteParams
  <2>6. \A t \in T : t \in DOMAIN RemoteParams(p, T) /\ RemoteParams(p, T)[t] = Credentials(t)
    BY <2>3, <2>4, <2>5
  <2>7. "audio" \in W \cap F => SendTransport \in T
    BY <1>5, <1>6, <2>2 DEF SendTransport
  <2> QED
    BY <2>1, <2>6, <2>7
<1> QED
  BY <1>3, <1>5, <1>6 DEF o, p, opt, a, T, W, F

LEMMA NegotiatedSound ==
    ASSUME Negotiated
    PROVE  AnswerSound'
<1>1. PICK order \in Orders, ms \in Browsers, push \in BOOLEAN, audio \in BOOLEAN, video \in BOOLEAN :
          LET p == PeerConnectionOf(ParseLines(Offer(ms, order)))
              opt == Options(push, audio, video)
          IN coded' = [kind |-> "sdp",
                       value |-> [ms |-> ms, order |-> order, push |-> push, wanted |-> opt.send \cup opt.recv],
                       wire |-> CreateAnswer(p, opt, p.tracks, "local"), parsed |-> p]
  BY DEF Negotiated, Browsers, Made
<1> DEFINE p == PeerConnectionOf(ParseLines(Offer(ms, order)))
           opt == Options(push, audio, video)
           a == CreateAnswer(p, opt, p.tracks, "local")
<1>2. /\ coded'.value.ms = ms /\ coded'.value.order = order /\ coded'.value.wanted = opt.send \cup opt.recv
      /\ coded'.wire = a /\ coded'.parsed = p
  <2> HIDE DEF p, opt, a
  <2>1. coded' = [kind |-> "sdp",
                  value |-> [ms |-> ms, order |-> order, push |-> push, wanted |-> opt.send \cup opt.recv],
                  wire |-> a, parsed |-> p]
    BY <1>1, Zenon DEF a, opt, p
  <2> QED
    BY <2>1
<1>3. /\ {s.mid : s \in ToSet(a.sections)} = ToSet(ms) \cap (opt.send \cup opt.recv)
      /\ a.sections # <<>> =>
            /\ Cardinality(LocalTransports(a)) = 1
            /\ \A t \in LocalTransports(a) :
                   /\ t \in DOMAIN RemoteParams(p, LocalTransports(a))
                   /\ RemoteParams(p, LocalTransports(a))[t] = Credentials(t)
            /\ "audio" \in (opt.send \cup opt.recv) \cap ToSet(ms) => SendTransport \in LocalTransports(a)
      /\ "audio" \in ToSet(ms) => Dispatch(p, 10) = "audio"
      /\ "video" \in ToSet(ms) =>
            /\ \A i \in DOMAIN order : Dispatch(p, order[i]) = "video"
            /\ order # <<>> => p.receive.video = order[1]
            /\ p.payload = [h264 |-> 107, rtx |-> 99]
  BY BrowserAnswered
<1> HIDE DEF p, opt, a
<1> QED
  BY <1>2, <1>3, Zenon DEF AnswerSound

(* Every answer the server makes to a browser is sound, for any orders of  *)
(* the sources in the offer: the offered sections that are wanted, one     *)
(* transport that knows the browser's credentials and that packets are     *)
(* sent on, and every source at the stream of its medium.                  *)
THEOREM AnswersSound ==
    NegotiationSpec => []AnswerSound
<1>1. NegotiationInit => AnswerSound
  BY DEF NegotiationInit, AnswerSound, Is, Nothing
<1>2. AnswerSound /\ [Negotiated]_coded => AnswerSound'
  <2>1. ASSUME AnswerSound, UNCHANGED coded
        PROVE  AnswerSound'
    BY <2>1 DEF AnswerSound, Is
  <2> QED
    BY <2>1, NegotiatedSound
<1> QED
  BY <1>1, <1>2, PTL DEF NegotiationSpec
================================================================================
