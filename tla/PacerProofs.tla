------------------------------- MODULE PacerProofs -------------------------------
(* What is proved about the pacer for any number of sources, any sizes of packets *)
(* and any pacing rate: its packet queue serves sources of one priority fairly    *)
(* from counters that are exact, what it sends keeps to the pacing rate, and the  *)
(* chain of tasks that drives it is never broken. The sums over packets and over  *)
(* sources come first, then the list of sources, the queue, the budget, and the   *)
(* inductive invariant Inv with one lemma for each action.                        *)
EXTENDS Pacer, FiniteSetTheorems, SequenceTheorems, TLAPS

--------------------------------------------------------------------------------
(* Induction and sums. *)

(* A set of naturals that is not empty has a least element. *)
LEMMA LeastNumber ==
  ASSUME NEW S \in SUBSET Nat, S # {}
  PROVE  \E x \in S : \A y \in S : x <= y
  <1> DEFINE R == {ss \in Nat \X Nat : ss[1] < ss[2]}
  <1>1. R = OpToRel(<, Nat)
    BY DEF OpToRel
  <1>2. IsWellFoundedOn(R, Nat)
    BY <1>1, NatLessThanWellFounded
  <1> HIDE DEF R
  <1>3. PICK x \in S : \A y \in S : ~ (<<y, x>> \in R)
    BY <1>2, WFMin
  <1>4. \A y \in S : x <= y
    <2> TAKE y \in S
    <2>1. ~ (<<y, x>> \in R) /\ x \in Nat /\ y \in Nat
      BY <1>3
    <2>2. ~ (y < x)
      BY <2>1 DEF R
    <2> QED
      BY <2>1, <2>2
  <1> QED
    BY <1>4

(* Induction up to n, for a property given as the set of numbers that have it. *)
LEMMA Induction ==
  ASSUME NEW n \in Nat, NEW T, 0 \in T, \A k \in 0 .. (n - 1) : k \in T => k + 1 \in T
  PROVE  \A k \in 0 .. n : k \in T
  <1> DEFINE C == {k \in 0 .. n : k \notin T}
  <1> SUFFICES ASSUME C # {} PROVE FALSE
    OBVIOUS
  <1>1. C \in SUBSET Nat
    OBVIOUS
  <1>2. PICK x \in C : \A y \in C : x <= y
    <2> HIDE DEF C
    <2> QED
      BY <1>1, LeastNumber
  <1>3. x \in 0 .. n /\ x \notin T /\ x # 0
    OBVIOUS
  <1>4. x - 1 \in 0 .. (n - 1) /\ x - 1 + 1 = x
    BY <1>3
  <1>5. ~ (x - 1 \in C)
    BY <1>2, <1>3
  <1>6. x - 1 \in T
    BY <1>4, <1>5
  <1> QED
    BY <1>3, <1>4, <1>6

\* g holds the sums of f[1] to f[i] for every i up to n.
IsSum(g, f, n) == g = [i \in 0 .. n |-> IF i = 0 THEN 0 ELSE g[i - 1] + f[i]]

LEMMA SumExists ==
  ASSUME NEW f, NEW n \in Nat
  PROVE  \E g : IsSum(g, f, n)
  <1> DEFINE T == {k \in Nat : \E g : IsSum(g, f, k)}
  <1>1. 0 \in T
    <2> DEFINE g == [i \in 0 .. 0 |-> 0]
    <2>1. g = [i \in 0 .. 0 |-> IF i = 0 THEN 0 ELSE g[i - 1] + f[i]]
      OBVIOUS
    <2>2. IsSum(g, f, 0)
      BY <2>1 DEF IsSum
    <2> HIDE DEF g
    <2> QED
      BY <2>2
  <1>2. ASSUME NEW k \in 0 .. (n - 1), k \in T
        PROVE  k + 1 \in T
    <2>1. PICK g : IsSum(g, f, k)
      BY <1>2
    <2> DEFINE h == [i \in 0 .. (k + 1) |-> IF i = k + 1 THEN g[k] + f[k + 1] ELSE g[i]]
    <2>2. \A i \in 0 .. k : g[i] = IF i = 0 THEN 0 ELSE g[i - 1] + f[i]
      BY <2>1 DEF IsSum
    <2>3. ASSUME NEW i \in 0 .. (k + 1)
          PROVE  h[i] = IF i = 0 THEN 0 ELSE h[i - 1] + f[i]
      <3>1. CASE i = k + 1
        <4>1. i # 0 /\ i - 1 \in 0 .. (k + 1) /\ i - 1 # k + 1 /\ i - 1 = k
          BY <3>1
        <4> QED
          BY <3>1, <4>1
      <3>2. CASE i # k + 1
        <4>1. i \in 0 .. k /\ h[i] = g[i]
          BY <3>2
        <4>2. i # 0 => i - 1 \in 0 .. (k + 1) /\ i - 1 # k + 1
          BY <3>2
        <4>3. i # 0 => h[i - 1] = g[i - 1]
          BY <4>2
        <4> HIDE DEF h
        <4> QED
          BY <2>2, <4>1, <4>3
      <3> QED
        BY <3>1, <3>2
    <2>4. h = [i \in 0 .. (k + 1) |-> h[i]]
      OBVIOUS
    <2> HIDE DEF h
    <2>5. IsSum(h, f, k + 1)
      BY <2>3, <2>4 DEF IsSum
    <2> QED
      BY <2>5
  <1> HIDE DEF T
  <1>3. n \in T
    BY <1>1, <1>2, Induction
  <1> QED
    BY <1>3 DEF T

LEMMA SumUnique ==
  ASSUME NEW f, NEW n \in Nat, NEW m \in Nat, n <= m, NEW g, NEW h, IsSum(g, f, n), IsSum(h, f, m)
  PROVE  \A i \in 0 .. n : g[i] = h[i]
  <1> DEFINE T == {i \in Nat : g[i] = h[i]}
  <1>1. /\ \A i \in 0 .. n : g[i] = IF i = 0 THEN 0 ELSE g[i - 1] + f[i]
        /\ \A i \in 0 .. m : h[i] = IF i = 0 THEN 0 ELSE h[i - 1] + f[i]
    BY DEF IsSum
  <1>2. 0 \in T
    BY <1>1
  <1>3. ASSUME NEW k \in 0 .. (n - 1), k \in T
        PROVE  k + 1 \in T
    <2>1. k + 1 \in 0 .. n /\ k + 1 \in 0 .. m /\ k + 1 # 0 /\ k + 1 - 1 = k
      OBVIOUS
    <2>2. g[k + 1] = g[k] + f[k + 1] /\ h[k + 1] = h[k] + f[k + 1]
      BY <1>1, <2>1
    <2> QED
      BY <1>3, <2>1, <2>2
  <1> HIDE DEF T
  <1>4. \A i \in 0 .. n : i \in T
    BY <1>2, <1>3, Induction
  <1> QED
    BY <1>4 DEF T

LEMMA SumRecursion ==
  ASSUME NEW f
  PROVE  /\ SumTo(f, 0) = 0
         /\ \A n \in Nat : SumTo(f, n + 1) = SumTo(f, n) + f[n + 1]
  <1> DEFINE G(n) == CHOOSE g : g = [i \in 0 .. n |-> IF i = 0 THEN 0 ELSE g[i - 1] + f[i]]
  <1>1. \A n \in Nat : SumTo(f, n) = G(n)[n]
    BY DEF SumTo
  <1>2. ASSUME NEW n \in Nat PROVE IsSum(G(n), f, n)
    <2>1. \E g : g = [i \in 0 .. n |-> IF i = 0 THEN 0 ELSE g[i - 1] + f[i]]
      BY SumExists DEF IsSum
    <2> QED
      BY <2>1 DEF IsSum
  <1> HIDE DEF G
  <1>3. SumTo(f, 0) = 0
    <2>1. G(0)[0] = 0
      BY <1>2 DEF IsSum
    <2> QED
      BY <1>1, <2>1
  <1>4. ASSUME NEW n \in Nat PROVE SumTo(f, n + 1) = SumTo(f, n) + f[n + 1]
    <2>1. PICK g : g = G(n)
      OBVIOUS
    <2>2. PICK h : h = G(n + 1)
      OBVIOUS
    <2>3. IsSum(g, f, n) /\ IsSum(h, f, n + 1)
      BY <1>2, <2>1, <2>2
    <2>4. g[n] = h[n]
      BY <2>3, SumUnique
    <2>5. h[n + 1] = h[n] + f[n + 1]
      BY <2>3 DEF IsSum
    <2> QED
      BY <1>1, <2>1, <2>2, <2>4, <2>5
  <1> QED
    BY <1>3, <1>4

LEMMA SumType ==
  ASSUME NEW n \in Nat, NEW f, \A i \in 1 .. n : f[i] \in Int
  PROVE  \A k \in 0 .. n : SumTo(f, k) \in Int
  <1> DEFINE T == {k \in Nat : SumTo(f, k) \in Int}
  <1>1. 0 \in T
    BY SumRecursion
  <1>2. ASSUME NEW k \in 0 .. (n - 1), k \in T
        PROVE  k + 1 \in T
    <2>1. SumTo(f, k + 1) = SumTo(f, k) + f[k + 1]
      BY SumRecursion
    <2>2. f[k + 1] \in Int
      OBVIOUS
    <2> QED
      BY <1>2, <2>1, <2>2
  <1> HIDE DEF T
  <1>3. \A k \in 0 .. n : k \in T
    BY <1>1, <1>2, Induction
  <1> QED
    BY <1>3 DEF T

(* What is added to every term, c times a term of another sum, adds up. *)
LEMMA SumScaled ==
  ASSUME NEW n \in Nat, NEW f, NEW g, NEW h, NEW c \in Int,
         \A i \in 1 .. n : f[i] \in Int /\ h[i] \in Int /\ g[i] = f[i] + c * h[i]
  PROVE  SumTo(g, n) = SumTo(f, n) + c * SumTo(h, n)
  <1> DEFINE T == {k \in Nat : SumTo(g, k) = SumTo(f, k) + c * SumTo(h, k)}
  <1>1. 0 \in T
    <2>1. SumTo(g, 0) = 0 /\ SumTo(f, 0) = 0 /\ SumTo(h, 0) = 0
      BY SumRecursion
    <2> QED
      BY <2>1
  <1>2. ASSUME NEW k \in 0 .. (n - 1), k \in T
        PROVE  k + 1 \in T
    <2>1. PICK a : a = SumTo(f, k)
      OBVIOUS
    <2>2. PICK b : b = SumTo(h, k)
      OBVIOUS
    <2>3. PICK x : x = f[k + 1]
      OBVIOUS
    <2>4. PICK y : y = h[k + 1]
      OBVIOUS
    <2>5. k \in 0 .. n /\ k + 1 \in 1 .. n
      OBVIOUS
    <2>6. a \in Int /\ b \in Int
      BY <2>1, <2>2, <2>5, SumType
    <2>7. x \in Int /\ y \in Int /\ g[k + 1] = x + c * y
      BY <2>3, <2>4, <2>5
    <2>8. /\ SumTo(g, k + 1) = SumTo(g, k) + g[k + 1]
          /\ SumTo(f, k + 1) = a + x
          /\ SumTo(h, k + 1) = b + y
      BY <2>1, <2>2, <2>3, <2>4, SumRecursion
    <2>9. SumTo(g, k) = a + c * b
      BY <1>2, <2>1, <2>2
    <2>10. c * (b + y) = c * b + c * y /\ c * b \in Int /\ c * y \in Int
      BY <2>6, <2>7
    <2>11. SumTo(g, k + 1) = (a + x) + c * (b + y)
      BY <2>6, <2>7, <2>8, <2>9, <2>10
    <2> QED
      BY <2>8, <2>11
  <1> HIDE DEF T
  <1>3. n \in 0 .. n
    OBVIOUS
  <1>4. n \in T
    BY <1>1, <1>2, <1>3, Induction
  <1> QED
    BY <1>4 DEF T

LEMMA SumEqual ==
  ASSUME NEW n \in Nat, NEW f, NEW g, \A i \in 1 .. n : g[i] = f[i]
  PROVE  SumTo(g, n) = SumTo(f, n)
  <1> DEFINE T == {k \in Nat : SumTo(g, k) = SumTo(f, k)}
  <1>1. 0 \in T
    BY SumRecursion
  <1>2. ASSUME NEW k \in 0 .. (n - 1), k \in T
        PROVE  k + 1 \in T
    <2>1. /\ SumTo(g, k + 1) = SumTo(g, k) + g[k + 1]
          /\ SumTo(f, k + 1) = SumTo(f, k) + f[k + 1]
      BY SumRecursion
    <2> QED
      BY <1>2, <2>1
  <1> HIDE DEF T
  <1>3. n \in 0 .. n
    OBVIOUS
  <1>4. n \in T
    BY <1>1, <1>2, <1>3, Induction
  <1> QED
    BY <1>4 DEF T

LEMMA SumOnes ==
  ASSUME NEW n \in Nat, NEW f, \A i \in 1 .. n : f[i] = 1
  PROVE  SumTo(f, n) = n
  <1> DEFINE T == {k \in Nat : SumTo(f, k) = k}
  <1>1. 0 \in T
    BY SumRecursion
  <1>2. ASSUME NEW k \in 0 .. (n - 1), k \in T
        PROVE  k + 1 \in T
    <2>1. SumTo(f, k + 1) = SumTo(f, k) + f[k + 1] /\ f[k + 1] = 1
      BY SumRecursion
    <2> QED
      BY <1>2, <2>1
  <1> HIDE DEF T
  <1>3. n \in 0 .. n
    OBVIOUS
  <1>4. n \in T
    BY <1>1, <1>2, <1>3, Induction
  <1> QED
    BY <1>4 DEF T

(* A sum without its first term. *)
LEMMA SumTail ==
  ASSUME NEW n \in Nat, NEW f, NEW h, \A i \in 1 .. (n + 1) : h[i] \in Int,
         \A i \in 1 .. n : f[i] = h[i + 1]
  PROVE  SumTo(h, n + 1) = h[1] + SumTo(f, n)
  <1> DEFINE T == {k \in Nat : SumTo(h, k + 1) = h[1] + SumTo(f, k)}
  <1>1. \A k \in 0 .. n : SumTo(f, k) \in Int
    <2>1. \A i \in 1 .. n : f[i] \in Int
      OBVIOUS
    <2> QED
      BY <2>1, SumType
  <1>2. 0 \in T
    <2>1. SumTo(h, 0 + 1) = SumTo(h, 0) + h[0 + 1] /\ SumTo(h, 0) = 0 /\ SumTo(f, 0) = 0
      BY SumRecursion
    <2>2. h[1] \in Int
      OBVIOUS
    <2> QED
      BY <2>1, <2>2
  <1>3. ASSUME NEW k \in 0 .. (n - 1), k \in T
        PROVE  k + 1 \in T
    <2>1. /\ SumTo(h, (k + 1) + 1) = SumTo(h, k + 1) + h[(k + 1) + 1]
          /\ SumTo(f, k + 1) = SumTo(f, k) + f[k + 1]
      BY SumRecursion
    <2>2. f[k + 1] = h[(k + 1) + 1] /\ f[k + 1] \in Int /\ h[1] \in Int
      OBVIOUS
    <2>3. SumTo(f, k) \in Int
      BY <1>1
    <2>4. SumTo(h, k + 1) = h[1] + SumTo(f, k)
      BY <1>3
    <2> QED
      BY <2>1, <2>2, <2>3, <2>4
  <1> HIDE DEF T
  <1>4. n \in 0 .. n
    OBVIOUS
  <1>5. n \in T
    BY <1>2, <1>3, <1>4, Induction
  <1> QED
    BY <1>5 DEF T

(* A sum of which one term changes. *)
LEMMA SumChange ==
  ASSUME NEW n \in Nat, NEW f, NEW g, NEW j \in 1 .. n,
         \A i \in 1 .. n : f[i] \in Int /\ g[i] \in Int /\ (i # j => g[i] = f[i])
  PROVE  SumTo(g, n) = SumTo(f, n) + (g[j] - f[j])
  <1> DEFINE x == g[j] - f[j]
             T == {k \in Nat : SumTo(g, k) = SumTo(f, k) + (IF k < j THEN 0 ELSE x)}
  <1>1. x \in Int
    OBVIOUS
  <1>2. \A k \in 0 .. n : SumTo(f, k) \in Int
    BY SumType
  <1>3. 0 \in T
    BY SumRecursion
  <1>4. ASSUME NEW k \in 0 .. (n - 1), k \in T
        PROVE  k + 1 \in T
    <2>1. /\ SumTo(g, k + 1) = SumTo(g, k) + g[k + 1]
          /\ SumTo(f, k + 1) = SumTo(f, k) + f[k + 1]
      BY SumRecursion
    <2>2. /\ SumTo(f, k) \in Int /\ f[k + 1] \in Int /\ g[k + 1] \in Int
          /\ SumTo(g, k) = SumTo(f, k) + (IF k < j THEN 0 ELSE x)
      BY <1>2, <1>4
    <2>3. CASE k + 1 = j
      <3>1. g[k + 1] = f[k + 1] + x
        BY <2>2, <2>3
      <3> HIDE DEF x
      <3>2. SumTo(g, k + 1) = SumTo(f, k + 1) + x
        BY <1>1, <2>1, <2>2, <2>3, <3>1
      <3> QED
        BY <2>3, <3>2
    <2>4. CASE k + 1 # j
      <3>1. g[k + 1] = f[k + 1]
        BY <2>4
      <3>2. k < j <=> k + 1 < j
        BY <2>4
      <3> HIDE DEF x
      <3> QED
        BY <1>1, <2>1, <2>2, <3>1, <3>2
    <2> QED
      BY <2>3, <2>4
  <1> HIDE DEF T, x
  <1>5. n \in 0 .. n /\ ~ (n < j)
    OBVIOUS
  <1>6. n \in T
    BY <1>3, <1>4, <1>5, Induction
  <1> QED
    BY <1>5, <1>6 DEF T, x

--------------------------------------------------------------------------------
(* Sums over the sources. *)

LEMMA NumberingFacts ==
  /\ Cardinality(Ssrcs) \in Nat
  /\ Numbering \in [1 .. Cardinality(Ssrcs) -> Ssrcs]
  /\ \A i, j \in 1 .. Cardinality(Ssrcs) : Numbering[i] = Numbering[j] => i = j
  /\ \A s \in Ssrcs : \E i \in 1 .. Cardinality(Ssrcs) : Numbering[i] = s
  <1>1. Cardinality(Ssrcs) \in Nat /\ ExistsBijection(1 .. Cardinality(Ssrcs), Ssrcs)
    BY LeadAssumption, FS_CardinalityType
  <1>2. PICK n : n = Cardinality(Ssrcs)
    OBVIOUS
  <1>3. PICK e : e \in Bijection(1 .. n, Ssrcs)
    BY <1>1, <1>2 DEF ExistsBijection
  <1>4. e \in [1 .. n -> Ssrcs] /\ \A i, j \in 1 .. n : e[i] = e[j] => i = j
    BY <1>3 DEF Bijection, Injection, IsInjective
  <1>5. /\ Numbering \in [1 .. n -> Ssrcs]
        /\ \A i, j \in 1 .. n : Numbering[i] = Numbering[j] => i = j
    <2>1. \E f \in [1 .. Cardinality(Ssrcs) -> Ssrcs] :
              \A i, j \in 1 .. Cardinality(Ssrcs) : f[i] = f[j] => i = j
      BY <1>2, <1>4
    <2>2. /\ Numbering \in [1 .. Cardinality(Ssrcs) -> Ssrcs]
          /\ \A i, j \in 1 .. Cardinality(Ssrcs) : Numbering[i] = Numbering[j] => i = j
      BY <2>1, Zenon DEF Numbering
    <2> QED
      BY <1>2, <2>2
  <1>6. Numbering \in Injection(1 .. n, Ssrcs)
    BY <1>5 DEF Injection, IsInjective
  <1>7. Cardinality(1 .. n) = n
    BY <1>1, <1>2, FS_Interval
  <1>8. Numbering \in Surjection(1 .. n, Ssrcs)
    <2>1. PICK m : m = Numbering
      OBVIOUS
    <2>2. m \in Injection(1 .. n, Ssrcs)
      BY <1>6, <2>1
    <2>3. Cardinality(1 .. n) = Cardinality(Ssrcs) <=> m \in Surjection(1 .. n, Ssrcs)
      BY <2>2, LeadAssumption, FS_Injection
    <2> QED
      BY <1>2, <1>7, <2>1, <2>3
  <1>9. \A s \in Ssrcs : \E i \in 1 .. n : Numbering[i] = s
    BY <1>8 DEF Surjection
  <1> QED
    BY <1>1, <1>2, <1>5, <1>9

LEMMA SumOverEqual ==
  ASSUME NEW f, NEW g, \A s \in Ssrcs : g[s] = f[s]
  PROVE  SumOver(g) = SumOver(f)
  <1>1. PICK n \in Nat : n = Cardinality(Ssrcs)
    BY NumberingFacts
  <1> DEFINE F == [i \in 1 .. n |-> f[Numbering[i]]]
             G == [i \in 1 .. n |-> g[Numbering[i]]]
  <1>2. \A i \in 1 .. n : G[i] = F[i]
    BY <1>1, NumberingFacts
  <1>3. SumOver(f) = SumTo(F, n) /\ SumOver(g) = SumTo(G, n)
    BY <1>1 DEF SumOver
  <1> HIDE DEF F, G
  <1> QED
    BY <1>2, <1>3, SumEqual

LEMMA SumOverScaled ==
  ASSUME NEW f, NEW g, NEW h, NEW c \in Int,
         \A s \in Ssrcs : f[s] \in Int /\ h[s] \in Int /\ g[s] = f[s] + c * h[s]
  PROVE  SumOver(g) = SumOver(f) + c * SumOver(h)
  <1>1. PICK n \in Nat : n = Cardinality(Ssrcs)
    BY NumberingFacts
  <1> DEFINE F == [i \in 1 .. n |-> f[Numbering[i]]]
             G == [i \in 1 .. n |-> g[Numbering[i]]]
             H == [i \in 1 .. n |-> h[Numbering[i]]]
  <1>2. ASSUME NEW i \in 1 .. n
        PROVE  F[i] \in Int /\ H[i] \in Int /\ G[i] = F[i] + c * H[i]
    <2>1. PICK s \in Ssrcs : s = Numbering[i]
      BY <1>1, NumberingFacts
    <2>2. F[i] = f[s] /\ G[i] = g[s] /\ H[i] = h[s]
      BY <2>1
    <2> HIDE DEF F, G, H
    <2> QED
      BY <2>2
  <1>3. SumOver(f) = SumTo(F, n) /\ SumOver(g) = SumTo(G, n) /\ SumOver(h) = SumTo(H, n)
    BY <1>1 DEF SumOver
  <1> HIDE DEF F, G, H
  <1>4. SumTo(G, n) = SumTo(F, n) + c * SumTo(H, n)
    BY <1>2, SumScaled
  <1> QED
    BY <1>3, <1>4

LEMMA SumOverType ==
  ASSUME NEW f, \A s \in Ssrcs : f[s] \in Int
  PROVE  SumOver(f) \in Int
  <1>1. PICK n \in Nat : n = Cardinality(Ssrcs)
    BY NumberingFacts
  <1> DEFINE F == [i \in 1 .. n |-> f[Numbering[i]]]
  <1>2. \A i \in 1 .. n : F[i] \in Int
    BY <1>1, NumberingFacts
  <1>3. SumOver(f) = SumTo(F, n)
    BY <1>1 DEF SumOver
  <1> HIDE DEF F
  <1>4. n \in 0 .. n
    OBVIOUS
  <1> QED
    BY <1>2, <1>3, <1>4, SumType

LEMMA SumOverZero ==
  ASSUME NEW f, \A s \in Ssrcs : f[s] = 0
  PROVE  SumOver(f) = 0
  <1>1. \A s \in Ssrcs : f[s] \in Int /\ f[s] = f[s] + 1 * f[s]
    OBVIOUS
  <1>2. SumOver(f) = SumOver(f) + 1 * SumOver(f)
    BY <1>1, SumOverScaled
  <1>3. SumOver(f) \in Int
    BY SumOverType
  <1>4. \A x \in Int : x = x + 1 * x => x = 0
    OBVIOUS
  <1> QED
    BY <1>2, <1>3, <1>4

(* One source's share changes. *)
LEMMA SumOverChange ==
  ASSUME NEW f, NEW g, NEW x \in Ssrcs,
         \A s \in Ssrcs : f[s] \in Int /\ g[s] \in Int /\ (s # x => g[s] = f[s])
  PROVE  SumOver(g) = SumOver(f) + (g[x] - f[x])
  <1>1. PICK n \in Nat : n = Cardinality(Ssrcs)
    BY NumberingFacts
  <1> DEFINE F == [i \in 1 .. n |-> f[Numbering[i]]]
             G == [i \in 1 .. n |-> g[Numbering[i]]]
  <1>2. PICK j \in 1 .. n : Numbering[j] = x
    BY <1>1, NumberingFacts
  <1>3. ASSUME NEW i \in 1 .. n
        PROVE  F[i] \in Int /\ G[i] \in Int /\ (i # j => G[i] = F[i])
    <2>1. PICK s \in Ssrcs : s = Numbering[i]
      BY <1>1, NumberingFacts
    <2>2. F[i] = f[s] /\ G[i] = g[s]
      BY <2>1
    <2>3. i # j => s # x
      BY <1>1, <1>2, <2>1, NumberingFacts
    <2> HIDE DEF F, G
    <2> QED
      BY <2>2, <2>3
  <1>4. SumOver(f) = SumTo(F, n) /\ SumOver(g) = SumTo(G, n)
    BY <1>1 DEF SumOver
  <1>5. F[j] = f[x] /\ G[j] = g[x]
    BY <1>2
  <1> HIDE DEF F, G
  <1>6. SumTo(G, n) = SumTo(F, n) + (G[j] - F[j])
    BY <1>3, SumChange
  <1> QED
    BY <1>4, <1>5, <1>6

--------------------------------------------------------------------------------
(* The packets of one source: their bytes and the time they have waited. *)

PacketsOf(s) == [ssrc : {s}, priority : {PriorityOf[s]}, size : {SizeOf[s]}, enqueue_time : Nat]

LEMMA PacketFacts ==
  ASSUME NEW s \in Ssrcs, NEW p \in PacketsOf(s)
  PROVE  /\ p.ssrc = s /\ p.priority = PriorityOf[s] /\ p.size = SizeOf[s]
         /\ p.enqueue_time \in Nat /\ p.size \in Nat \ {0} /\ p.priority \in 1 .. 4
  BY PacerAssumption DEF PacketsOf

LEMMA TotalsOfNone ==
  ASSUME NEW t
  PROVE  Bytes(<<>>) = 0 /\ Waited(<<>>, t) = 0 /\ Len(<<>>) = 0
  BY SumRecursion DEF Bytes, Waited

LEMMA TotalsType ==
  ASSUME NEW s \in Ssrcs, NEW packets \in Seq(PacketsOf(s)), NEW t \in Int
  PROVE  Bytes(packets) \in Int /\ Waited(packets, t) \in Int /\ Len(packets) \in Nat
  <1>1. PICK n \in Nat : n = Len(packets) /\ DOMAIN packets = 1 .. n
    BY LenProperties
  <1>2. \A i \in 1 .. n : packets[i] \in PacketsOf(s)
    BY <1>1, ElementOfSeq
  <1> DEFINE B == [i \in 1 .. n |-> packets[i].size]
             W == [i \in 1 .. n |-> t - packets[i].enqueue_time]
  <1>3. \A i \in 1 .. n : B[i] \in Int /\ W[i] \in Int
    BY <1>2, PacketFacts
  <1>4. Bytes(packets) = SumTo(B, n) /\ Waited(packets, t) = SumTo(W, n)
    BY <1>1 DEF Bytes, Waited
  <1>5. n \in 0 .. n
    OBVIOUS
  <1> HIDE DEF B, W
  <1>6. SumTo(B, n) \in Int
    BY <1>3, <1>5, SumType
  <1>7. SumTo(W, n) \in Int
    BY <1>3, <1>5, SumType
  <1> QED
    BY <1>1, <1>4, <1>6, <1>7

LEMMA WaitedLater ==
  ASSUME NEW s \in Ssrcs, NEW packets \in Seq(PacketsOf(s)), NEW t \in Int, NEW u \in Int
  PROVE  Waited(packets, u) = Waited(packets, t) + (u - t) * Len(packets)
  <1>1. PICK n \in Nat : n = Len(packets) /\ DOMAIN packets = 1 .. n
    BY LenProperties
  <1>2. \A i \in 1 .. n : packets[i] \in PacketsOf(s)
    BY <1>1, ElementOfSeq
  <1> DEFINE W == [i \in 1 .. n |-> t - packets[i].enqueue_time]
             X == [i \in 1 .. n |-> u - packets[i].enqueue_time]
             O == [i \in 1 .. n |-> 1]
  <1>3. Waited(packets, t) = SumTo(W, n) /\ Waited(packets, u) = SumTo(X, n)
    BY <1>1 DEF Waited
  <1>4. u - t \in Int
    OBVIOUS
  <1>5. \A i \in 1 .. n : W[i] \in Int /\ O[i] \in Int /\ X[i] = W[i] + (u - t) * O[i]
    BY <1>2, PacketFacts
  <1>6. \A i \in 1 .. n : O[i] = 1
    OBVIOUS
  <1> HIDE DEF W, X, O
  <1>7. SumTo(O, n) = n
    BY <1>6, SumOnes
  <1>8. SumTo(X, n) = SumTo(W, n) + (u - t) * SumTo(O, n)
    BY <1>4, <1>5, SumScaled
  <1> QED
    BY <1>1, <1>3, <1>7, <1>8

LEMMA TotalsOfAppend ==
  ASSUME NEW s \in Ssrcs, NEW packets \in Seq(PacketsOf(s)), NEW p \in PacketsOf(s), NEW t \in Int
  PROVE  /\ Bytes(Append(packets, p)) = Bytes(packets) + SizeOf[s]
         /\ Waited(Append(packets, p), t) = Waited(packets, t) + (t - p.enqueue_time)
         /\ Len(Append(packets, p)) = Len(packets) + 1
  <1>1. PICK n \in Nat : n = Len(packets) /\ DOMAIN packets = 1 .. n
    BY LenProperties
  <1>2. PICK r : r = Append(packets, p)
    OBVIOUS
  <1>3. /\ r \in Seq(PacketsOf(s)) /\ Len(r) = n + 1
        /\ \A i \in 1 .. n : r[i] = packets[i]
        /\ r[n + 1] = p
    BY <1>1, <1>2, AppendProperties
  <1>4. DOMAIN r = 1 .. (n + 1)
    BY <1>3, LenProperties
  <1> DEFINE B == [i \in 1 .. n |-> packets[i].size]
             W == [i \in 1 .. n |-> t - packets[i].enqueue_time]
             C == [i \in 1 .. (n + 1) |-> r[i].size]
             X == [i \in 1 .. (n + 1) |-> t - r[i].enqueue_time]
  <1>5. Bytes(packets) = SumTo(B, n) /\ Waited(packets, t) = SumTo(W, n)
    BY <1>1 DEF Bytes, Waited
  <1>6. Bytes(r) = SumTo(C, n + 1) /\ Waited(r, t) = SumTo(X, n + 1)
    BY <1>3, <1>4 DEF Bytes, Waited
  <1>7. \A i \in 1 .. n : C[i] = B[i] /\ X[i] = W[i]
    BY <1>3
  <1>8. C[n + 1] = p.size /\ X[n + 1] = t - p.enqueue_time
    BY <1>3
  <1> HIDE DEF B, W, C, X
  <1>9. SumTo(C, n) = SumTo(B, n) /\ SumTo(X, n) = SumTo(W, n)
    BY <1>7, SumEqual
  <1>10. SumTo(C, n + 1) = SumTo(C, n) + C[n + 1] /\ SumTo(X, n + 1) = SumTo(X, n) + X[n + 1]
    BY SumRecursion
  <1>11. p.size = SizeOf[s]
    BY PacketFacts
  <1> QED
    BY <1>1, <1>2, <1>3, <1>5, <1>6, <1>8, <1>9, <1>10, <1>11

LEMMA TotalsOfTail ==
  ASSUME NEW s \in Ssrcs, NEW packets \in Seq(PacketsOf(s)), packets # <<>>, NEW t \in Int
  PROVE  /\ Bytes(Tail(packets)) = Bytes(packets) - SizeOf[s]
         /\ Waited(Tail(packets), t) = Waited(packets, t) - (t - Head(packets).enqueue_time)
         /\ Len(Tail(packets)) = Len(packets) - 1
         /\ Tail(packets) \in Seq(PacketsOf(s)) /\ Head(packets) \in PacketsOf(s)
  <1>1. PICK r : r = Tail(packets)
    OBVIOUS
  <1>2. /\ r \in Seq(PacketsOf(s)) /\ Len(r) = Len(packets) - 1 /\ Head(packets) \in PacketsOf(s)
        /\ \A i \in 1 .. Len(r) : r[i] = packets[i + 1]
    BY <1>1, HeadTailProperties
  <1>3. PICK n \in Nat : n = Len(r) /\ DOMAIN r = 1 .. n
    BY <1>2, LenProperties
  <1>4. Len(packets) = n + 1 /\ DOMAIN packets = 1 .. (n + 1)
    BY <1>2, <1>3, LenProperties
  <1>5. Head(packets) = packets[1]
    BY <1>4
  <1>6. \A i \in 1 .. (n + 1) : packets[i] \in PacketsOf(s)
    BY <1>4, ElementOfSeq
  <1> DEFINE B == [i \in 1 .. n |-> r[i].size]
             W == [i \in 1 .. n |-> t - r[i].enqueue_time]
             C == [i \in 1 .. (n + 1) |-> packets[i].size]
             X == [i \in 1 .. (n + 1) |-> t - packets[i].enqueue_time]
  <1>7. Bytes(r) = SumTo(B, n) /\ Waited(r, t) = SumTo(W, n)
    BY <1>3 DEF Bytes, Waited
  <1>8. Bytes(packets) = SumTo(C, n + 1) /\ Waited(packets, t) = SumTo(X, n + 1)
    BY <1>4 DEF Bytes, Waited
  <1>9. \A i \in 1 .. (n + 1) : C[i] \in Int /\ X[i] \in Int
    BY <1>6, PacketFacts
  <1>10. \A i \in 1 .. n : B[i] = C[i + 1] /\ W[i] = X[i + 1]
    BY <1>2, <1>3
  <1>11. C[1] = Head(packets).size /\ X[1] = t - Head(packets).enqueue_time
    BY <1>5
  <1>12. Head(packets).size = SizeOf[s] /\ Head(packets).enqueue_time \in Nat /\ SizeOf[s] \in Nat
    BY <1>2, PacketFacts
  <1>13. \A i \in 1 .. n : B[i] \in Int /\ W[i] \in Int
    <2> TAKE i \in 1 .. n
    <2>1. i + 1 \in 1 .. (n + 1)
      OBVIOUS
    <2> HIDE DEF B, W, C, X
    <2> QED
      BY <1>9, <1>10, <2>1
  <1> HIDE DEF B, W, C, X
  <1>14. SumTo(C, n + 1) = C[1] + SumTo(B, n)
    BY <1>9, <1>10, SumTail
  <1>15. SumTo(X, n + 1) = X[1] + SumTo(W, n)
    BY <1>9, <1>10, SumTail
  <1>16. SumTo(B, n) \in Int
    <2>1. n \in 0 .. n
      OBVIOUS
    <2> QED
      BY <1>13, <2>1, SumType
  <1>17. SumTo(W, n) \in Int
    <2>1. n \in 0 .. n
      OBVIOUS
    <2> QED
      BY <1>13, <2>1, SumType
  <1>18. Bytes(r) = Bytes(packets) - SizeOf[s]
    BY <1>7, <1>8, <1>11, <1>12, <1>14, <1>16
  <1>19. Waited(r, t) = Waited(packets, t) - (t - Head(packets).enqueue_time)
    BY <1>7, <1>8, <1>11, <1>12, <1>15, <1>17
  <1> QED
    BY <1>1, <1>2, <1>18, <1>19

--------------------------------------------------------------------------------
(* stream_priorities_: the multimap of the sources that have a packet waiting. *)

Keys == [priority : 1 .. 4, size : Nat, ssrc : Ssrcs]

Sorted(list) == \A i, j \in DOMAIN list : i < j => ~KeyBefore(list[j], list[i])
Distinct(list) == \A i, j \in DOMAIN list : list[i].ssrc = list[j].ssrc => i = j

\* list holds the sources of W in order, each once and under its key in K.
ListOf(list, W, K) ==
    /\ list \in Seq(Keys)
    /\ Sorted(list)
    /\ Distinct(list)
    /\ \A i \in DOMAIN list : list[i].ssrc \in W /\ list[i] = K[list[i].ssrc]
    /\ \A s \in W : \E i \in DOMAIN list : list[i].ssrc = s

\* r is list with e put in after its first m elements.
Inserted(r, list, m, e) ==
    /\ Len(r) = Len(list) + 1
    /\ \A i \in 1 .. (Len(list) + 1) :
           r[i] = IF i <= m THEN list[i] ELSE IF i = m + 1 THEN e ELSE list[i - 1]

(* A set of places that goes on down to the first one is counted by its last.   *)
LEMMA PrefixCount ==
  ASSUME NEW n \in Nat, NEW S \in SUBSET (1 .. n),
         \A i \in S : \A j \in 1 .. n : j < i => j \in S
  PROVE  \E m \in 0 .. n : S = 1 .. m /\ Cardinality(S) = m
  <1> DEFINE C == {i \in 1 .. (n + 1) : i \notin S}
  <1>1. C \in SUBSET Nat /\ n + 1 \in C
    OBVIOUS
  <1>2. PICK x \in C : \A y \in C : x <= y
    <2> HIDE DEF C
    <2>1. C # {}
      BY <1>1
    <2> QED
      BY <1>1, <2>1, LeastNumber
  <1>3. x \in 1 .. (n + 1) /\ x \notin S
    OBVIOUS
  <1>4. PICK m \in 0 .. n : m = x - 1
    BY <1>3
  <1>5. ASSUME NEW i \in S PROVE i \in 1 .. m
    <2>1. i \in 1 .. n /\ (x < i => x \in 1 .. n)
      BY <1>3
    <2>2. ~ (x < i)
      BY <1>3, <2>1
    <2> QED
      BY <1>3, <1>4, <2>1, <2>2
  <1>6. ASSUME NEW i \in 1 .. m PROVE i \in S
    <2>1. i \in 1 .. (n + 1) /\ ~ (x <= i)
      BY <1>3, <1>4
    <2> QED
      BY <1>2, <2>1
  <1>7. S = 1 .. m
    BY <1>5, <1>6
  <1>8. Cardinality(1 .. m) = m
    BY FS_Interval
  <1> QED
    BY <1>7, <1>8

LEMMA InsertAtFacts ==
  ASSUME NEW S, NEW list \in Seq(S), NEW m \in 0 .. Len(list), NEW e \in S
  PROVE  /\ InsertAt(list, m + 1, e) \in Seq(S)
         /\ Inserted(InsertAt(list, m + 1, e), list, m, e)
  <1>1. PICK n \in Nat : n = Len(list) /\ DOMAIN list = 1 .. n
    BY LenProperties
  <1>2. \A i \in 1 .. n : list[i] \in S
    BY <1>1, ElementOfSeq
  <1>3. PICK a : a = SubSeq(list, 1, m)
    OBVIOUS
  <1>4. PICK c : c = SubSeq(list, m + 1, n)
    OBVIOUS
  <1>5. a \in Seq(S) /\ Len(a) = m /\ \A i \in 1 .. m : a[i] = list[i]
    <2>1. 1 \in Int /\ m \in Int /\ \A i \in 1 .. m : list[i] \in S
      BY <1>1, <1>2
    <2>2. /\ a \in Seq(S) /\ Len(a) = (IF 1 <= m THEN m - 1 + 1 ELSE 0)
          /\ \A i \in 1 .. m - 1 + 1 : a[i] = list[1 + i - 1]
      BY <1>3, <2>1, SubSeqProperties
    <2> QED
      BY <1>1, <2>2
  <1>6. c \in Seq(S) /\ Len(c) = n - m /\ \A i \in 1 .. (n - m) : c[i] = list[m + i]
    <2>1. m + 1 \in Int /\ n \in Int /\ \A i \in m + 1 .. n : list[i] \in S
      BY <1>1, <1>2
    <2>2. /\ c \in Seq(S) /\ Len(c) = (IF m + 1 <= n THEN n - (m + 1) + 1 ELSE 0)
          /\ \A i \in 1 .. n - (m + 1) + 1 : c[i] = list[(m + 1) + i - 1]
      BY <1>4, <2>1, SubSeqProperties
    <2>3. \A i \in 1 .. (n - m) : (m + 1) + i - 1 = m + i /\ i \in 1 .. n - (m + 1) + 1
      BY <1>1
    <2> QED
      BY <1>1, <2>2, <2>3
  <1>7. PICK b : b = <<e>>
    OBVIOUS
  <1>8. b \in Seq(S) /\ Len(b) = 1 /\ b[1] = e
    BY <1>7
  <1>9. PICK ab : ab = a \o b
    OBVIOUS
  <1>10. /\ ab \in Seq(S) /\ Len(ab) = m + 1
         /\ \A i \in 1 .. (m + 1) : ab[i] = IF i <= m THEN a[i] ELSE b[i - m]
    <2>1. /\ ab \in Seq(S) /\ Len(ab) = Len(a) + Len(b)
          /\ \A i \in 1 .. Len(a) + Len(b) : ab[i] = IF i <= Len(a) THEN a[i] ELSE b[i - Len(a)]
      BY <1>5, <1>8, <1>9, ConcatProperties
    <2> QED
      BY <1>5, <1>8, <2>1
  <1>11. PICK r : r = ab \o c
    OBVIOUS
  <1>12. /\ r \in Seq(S) /\ Len(r) = (m + 1) + (n - m)
         /\ \A i \in 1 .. (m + 1) + (n - m) : r[i] = IF i <= m + 1 THEN ab[i] ELSE c[i - (m + 1)]
    <2>1. /\ r \in Seq(S) /\ Len(r) = Len(ab) + Len(c)
          /\ \A i \in 1 .. Len(ab) + Len(c) : r[i] = IF i <= Len(ab) THEN ab[i] ELSE c[i - Len(ab)]
      BY <1>6, <1>10, <1>11, ConcatProperties
    <2> QED
      BY <1>6, <1>10, <2>1
  <1>13. InsertAt(list, m + 1, e) = r
    <2>1. (m + 1) - 1 = m
      BY <1>1
    <2> QED
      BY <1>1, <1>3, <1>4, <1>7, <1>9, <1>11, <2>1 DEF InsertAt
  <1>14. ASSUME NEW i \in 1 .. (n + 1)
         PROVE  r[i] = IF i <= m THEN list[i] ELSE IF i = m + 1 THEN e ELSE list[i - 1]
    <2>1. i \in 1 .. (m + 1) + (n - m)
      BY <1>1
    <2>2. CASE i <= m
      <3>1. i \in 1 .. m /\ i \in 1 .. (m + 1) /\ i <= m + 1
        BY <1>1, <2>2
      <3> QED
        BY <1>5, <1>10, <1>12, <2>1, <2>2, <3>1
    <2>3. CASE i = m + 1
      <3>1. ~ (i <= m) /\ i \in 1 .. (m + 1) /\ i <= m + 1 /\ i - m = 1
        BY <1>1, <2>3
      <3> QED
        BY <1>8, <1>10, <1>12, <2>1, <2>3, <3>1
    <2>4. CASE i > m + 1
      <3>1. ~ (i <= m + 1) /\ ~ (i <= m) /\ i # m + 1
        BY <1>1, <2>4
      <3>2. i - (m + 1) \in 1 .. (n - m) /\ m + (i - (m + 1)) = i - 1
        BY <1>1, <2>4
      <3> QED
        BY <1>6, <1>12, <2>1, <3>1, <3>2
    <2> QED
      BY <1>1, <2>2, <2>3, <2>4
  <1>15. (m + 1) + (n - m) = n + 1
    BY <1>1
  <1>16. Inserted(r, list, m, e)
    BY <1>1, <1>12, <1>14, <1>15 DEF Inserted
  <1> QED
    BY <1>12, <1>13, <1>16

LEMMA EmplaceFacts ==
  ASSUME NEW list \in Seq(Keys), Sorted(list), NEW key \in Keys, NEW r, r = Emplace(list, key)
  PROVE  /\ r \in Seq(Keys) /\ Sorted(r)
         /\ \E m \in 0 .. Len(list) : Inserted(r, list, m, key)
  <1>1. PICK n \in Nat : n = Len(list) /\ DOMAIN list = 1 .. n
    BY LenProperties
  <1>2. \A i \in 1 .. n : list[i] \in Keys
    BY <1>1, ElementOfSeq
  <1>3. \A a, b, c \in Keys : KeyBefore(c, a) /\ ~KeyBefore(b, a) => KeyBefore(c, b)
    BY DEF KeyBefore, Keys
  <1>4. PICK S : S = {i \in DOMAIN list : ~KeyBefore(key, list[i])}
    OBVIOUS
  <1>5. S \in SUBSET (1 .. n)
    BY <1>1, <1>4
  <1>6. ASSUME NEW i \in S, NEW j \in 1 .. n, j < i
        PROVE  j \in S
    <2>1. i \in 1 .. n /\ ~KeyBefore(list[i], list[j])  /\ ~KeyBefore(key, list[i])
      BY <1>1, <1>4, <1>6 DEF Sorted
    <2>2. list[i] \in Keys /\ list[j] \in Keys
      BY <1>2, <2>1
    <2>3. ~KeyBefore(key, list[j])
      BY <1>3, <2>1, <2>2
    <2> QED
      BY <1>1, <1>4, <2>3
  <1>7. PICK m \in 0 .. n : S = 1 .. m /\ Cardinality(S) = m
    BY <1>5, <1>6, PrefixCount
  <1>8. r = InsertAt(list, m + 1, key)
    BY <1>4, <1>7 DEF Emplace
  <1>9. /\ r \in Seq(Keys) /\ Len(r) = n + 1
        /\ \A i \in 1 .. (n + 1) :
               r[i] = IF i <= m THEN list[i] ELSE IF i = m + 1 THEN key ELSE list[i - 1]
    <2>1. m \in 0 .. Len(list)
      BY <1>1
    <2>2. r \in Seq(Keys) /\ Inserted(r, list, m, key)
      BY <1>8, <2>1, InsertAtFacts
    <2> QED
      BY <1>1, <2>2 DEF Inserted
  <1>10. DOMAIN r = 1 .. (n + 1)
    BY <1>9, LenProperties
  <1>11. \A i \in 1 .. n : i <= m <=> ~KeyBefore(key, list[i])
    BY <1>1, <1>4, <1>7
  <1>12. \A a, b \in Keys : KeyBefore(a, b) => ~KeyBefore(b, a)
    BY DEF KeyBefore, Keys
  <1>13. ASSUME NEW i \in 1 .. (n + 1), NEW j \in 1 .. (n + 1), i < j
         PROVE  ~KeyBefore(r[j], r[i])
    <2>1. CASE j <= m
      <3>1. i \in 1 .. n /\ j \in 1 .. n /\ i <= m
        BY <1>13, <2>1
      <3>2. r[i] = list[i] /\ r[j] = list[j]
        BY <1>9, <2>1, <3>1
      <3> QED
        BY <1>1, <1>13, <3>1, <3>2 DEF Sorted
    <2>2. CASE j = m + 1
      <3>1. i \in 1 .. n /\ i <= m /\ ~ (j <= m)
        BY <1>13, <2>2
      <3>2. r[i] = list[i] /\ r[j] = key
        BY <1>9, <2>2, <3>1
      <3> QED
        BY <1>11, <3>1, <3>2
    <2>3. CASE j > m + 1 /\ i <= m
      <3>1. i \in 1 .. n /\ j - 1 \in 1 .. n /\ i < j - 1 /\ ~ (j <= m) /\ j # m + 1
        BY <1>13, <2>3
      <3>2. r[i] = list[i] /\ r[j] = list[j - 1]
        BY <1>9, <2>3, <3>1
      <3> QED
        BY <1>1, <1>13, <3>1, <3>2 DEF Sorted
    <2>4. CASE j > m + 1 /\ i = m + 1
      <3>1. j - 1 \in 1 .. n /\ ~ (j - 1 <= m) /\ ~ (j <= m) /\ j # m + 1 /\ ~ (i <= m)
        BY <1>13, <2>4
      <3>2. r[i] = key /\ r[j] = list[j - 1]
        BY <1>9, <2>4, <3>1
      <3>3. KeyBefore(key, list[j - 1]) /\ list[j - 1] \in Keys
        BY <1>2, <1>11, <3>1
      <3> QED
        BY <1>12, <3>2, <3>3
    <2>5. CASE j > m + 1 /\ i > m + 1
      <3>1. /\ i - 1 \in 1 .. n /\ j - 1 \in 1 .. n /\ i - 1 < j - 1
            /\ ~ (j <= m) /\ j # m + 1 /\ ~ (i <= m) /\ i # m + 1
        BY <1>13, <2>5
      <3>2. r[i] = list[i - 1] /\ r[j] = list[j - 1]
        BY <1>9, <3>1
      <3> QED
        BY <1>1, <1>13, <3>1, <3>2 DEF Sorted
    <2>6. j <= m \/ j = m + 1 \/ j > m + 1
      OBVIOUS
    <2>7. i <= m \/ i = m + 1 \/ i > m + 1
      OBVIOUS
    <2> QED
      BY <2>1, <2>2, <2>3, <2>4, <2>5, <2>6, <2>7
  <1>14. Sorted(r)
    BY <1>10, <1>13 DEF Sorted
  <1>15. Inserted(r, list, m, key)
    BY <1>1, <1>9 DEF Inserted
  <1> QED
    BY <1>1, <1>9, <1>14, <1>15

(* A source that gets its first packet, or keeps packets after it has sent one. *)
LEMMA ListOfEmplace ==
  ASSUME NEW list, NEW W \in SUBSET Ssrcs, NEW K, NEW L, ListOf(list, W, K),
         NEW s \in Ssrcs, s \notin W, NEW key \in Keys, key.ssrc = s, L[s] = key,
         \A x \in W : L[x] = K[x]
  PROVE  ListOf(Emplace(list, key), W \cup {s}, L)
  <1>1. PICK r : r = Emplace(list, key)
    OBVIOUS
  <1>2. list \in Seq(Keys) /\ Sorted(list) /\ Distinct(list)
    BY DEF ListOf
  <1>3. PICK n \in Nat : n = Len(list) /\ DOMAIN list = 1 .. n
    BY <1>2, LenProperties
  <1>4. r \in Seq(Keys) /\ Sorted(r) /\ \E m \in 0 .. Len(list) : Inserted(r, list, m, key)
    BY <1>1, <1>2, EmplaceFacts
  <1>5. PICK m \in 0 .. n :
            /\ Len(r) = n + 1
            /\ \A i \in 1 .. (n + 1) :
                   r[i] = IF i <= m THEN list[i] ELSE IF i = m + 1 THEN key ELSE list[i - 1]
    BY <1>3, <1>4 DEF Inserted
  <1>6. DOMAIN r = 1 .. (n + 1)
    BY <1>4, <1>5, LenProperties
  <1>7. \A i \in 1 .. n : list[i].ssrc \in W /\ list[i] = K[list[i].ssrc]
    BY <1>3 DEF ListOf
  <1>8. \A i \in 1 .. (n + 1) : i < m + 1 => i \in 1 .. n /\ r[i] = list[i]
    BY <1>5
  <1>9. \A i \in 1 .. (n + 1) : i > m + 1 => i - 1 \in 1 .. n /\ r[i] = list[i - 1]
    BY <1>5
  <1>10. m + 1 \in 1 .. (n + 1) /\ r[m + 1] = key
    BY <1>5
  <1>11. ASSUME NEW i \in 1 .. (n + 1)
         PROVE  r[i].ssrc \in W \cup {s} /\ r[i] = L[r[i].ssrc] /\ (r[i].ssrc = s => i = m + 1)
    <2>1. CASE i < m + 1
      BY <1>7, <1>8, <2>1
    <2>2. CASE i = m + 1
      BY <1>10, <2>2
    <2>3. CASE i > m + 1
      BY <1>7, <1>9, <2>3
    <2> QED
      BY <2>1, <2>2, <2>3
  <1>12. ASSUME NEW i \in 1 .. (n + 1), NEW j \in 1 .. (n + 1), r[i].ssrc = r[j].ssrc
         PROVE  i = j
    <2>1. CASE r[i].ssrc = s
      BY <1>11, <1>12, <2>1
    <2>2. CASE r[i].ssrc # s
      <3>1. i # m + 1 /\ j # m + 1
        BY <1>10, <1>12, <2>2
      <3>2. \A x, y \in 1 .. n : list[x].ssrc = list[y].ssrc => x = y
        BY <1>2, <1>3 DEF Distinct
      <3>3. CASE i < m + 1 /\ j < m + 1
        BY <1>8, <1>12, <3>2, <3>3
      <3>4. CASE i > m + 1 /\ j > m + 1
        <4>1. i - 1 = j - 1
          BY <1>9, <1>12, <3>2, <3>4
        <4> QED
          BY <4>1
      <3>5. CASE i < m + 1 /\ j > m + 1
        <4>1. i = j - 1
          BY <1>8, <1>9, <1>12, <3>2, <3>5
        <4> QED
          BY <3>5, <4>1
      <3>6. CASE i > m + 1 /\ j < m + 1
        <4>1. j = i - 1
          BY <1>8, <1>9, <1>12, <3>2, <3>6
        <4> QED
          BY <3>6, <4>1
      <3>7. (i < m + 1 \/ i > m + 1) /\ (j < m + 1 \/ j > m + 1)
        BY <3>1
      <3> QED
        BY <3>3, <3>4, <3>5, <3>6, <3>7
    <2> QED
      BY <2>1, <2>2
  <1>13. ASSUME NEW x \in W \cup {s}
         PROVE  \E i \in 1 .. (n + 1) : r[i].ssrc = x
    <2>1. CASE x = s
      BY <1>10, <2>1
    <2>2. CASE x \in W
      <3>1. PICK i \in 1 .. n : list[i].ssrc = x
        BY <1>3, <2>2 DEF ListOf
      <3>2. CASE i <= m
        <4>1. i \in 1 .. (n + 1) /\ i < m + 1
          BY <3>2
        <4> QED
          BY <1>8, <3>1, <4>1
      <3>3. CASE i > m
        <4>1. i + 1 \in 1 .. (n + 1) /\ i + 1 > m + 1 /\ (i + 1) - 1 = i
          BY <3>3
        <4>2. r[i + 1] = list[i]
          BY <1>9, <4>1
        <4> QED
          BY <3>1, <4>1, <4>2
      <3> QED
        BY <3>2, <3>3
    <2> QED
      BY <2>1, <2>2
  <1>14. Distinct(r)
    BY <1>6, <1>12 DEF Distinct
  <1>15. ListOf(r, W \cup {s}, L)
    BY <1>4, <1>6, <1>11, <1>13, <1>14 DEF ListOf
  <1> QED
    BY <1>1, <1>15

(* The first entry is the source that has sent least of the most urgent ones;   *)
(* Pop takes it out.                                                             *)
LEMMA ListOfTail ==
  ASSUME NEW list, NEW W \in SUBSET Ssrcs, NEW K, ListOf(list, W, K), list # <<>>,
         NEW s, s = Head(list).ssrc
  PROVE  /\ s \in W
         /\ ListOf(Tail(list), W \ {s}, K)
         /\ \A x \in W : ~KeyBefore(K[x], K[s])
  <1>1. list \in Seq(Keys) /\ Sorted(list) /\ Distinct(list)
    BY DEF ListOf
  <1>2. PICK r : r = Tail(list)
    OBVIOUS
  <1>3. /\ r \in Seq(Keys) /\ Len(r) = Len(list) - 1
        /\ \A i \in 1 .. Len(r) : r[i] = list[i + 1]
    BY <1>1, <1>2, HeadTailProperties
  <1>4. PICK n \in Nat : n = Len(r) /\ DOMAIN r = 1 .. n
    BY <1>3, LenProperties
  <1>5. DOMAIN list = 1 .. (n + 1) /\ Len(list) = n + 1
    BY <1>1, <1>3, <1>4, LenProperties
  <1>6. Head(list) = list[1] /\ 1 \in 1 .. (n + 1)
    BY <1>5
  <1>7. list[1].ssrc = s /\ s \in W /\ list[1] = K[s]
    BY <1>5, <1>6 DEF ListOf
  <1>8. \A i \in 1 .. n : r[i] = list[i + 1] /\ i + 1 \in 1 .. (n + 1) /\ i + 1 # 1
    BY <1>3, <1>4
  <1>9. Sorted(r)
    <2>1. ASSUME NEW i \in 1 .. n, NEW j \in 1 .. n, i < j
          PROVE  ~KeyBefore(r[j], r[i])
      <3>1. i + 1 < j + 1
        BY <2>1
      <3> QED
        BY <1>1, <1>5, <1>8, <3>1 DEF Sorted
    <2> QED
      BY <1>4, <2>1 DEF Sorted
  <1>10. Distinct(r)
    <2>1. ASSUME NEW i \in 1 .. n, NEW j \in 1 .. n, r[i].ssrc = r[j].ssrc
          PROVE  i = j
      <3>0. list[i + 1].ssrc = list[j + 1].ssrc /\ i + 1 \in DOMAIN list /\ j + 1 \in DOMAIN list
        BY <1>5, <1>8, <2>1
      <3>1. i + 1 = j + 1
        BY <1>1, <3>0 DEF Distinct
      <3> QED
        BY <3>1
    <2> QED
      BY <1>4, <2>1 DEF Distinct
  <1>11. ASSUME NEW i \in 1 .. n
         PROVE  r[i].ssrc \in W \ {s} /\ r[i] = K[r[i].ssrc]
    <2>0. r[i] = list[i + 1] /\ i + 1 \in DOMAIN list
      BY <1>5, <1>8
    <2>1. r[i].ssrc \in W /\ r[i] = K[r[i].ssrc]
      BY <2>0 DEF ListOf
    <2>2. r[i].ssrc # s
      BY <1>1, <1>5, <1>6, <1>7, <1>8 DEF Distinct
    <2> QED
      BY <2>1, <2>2
  <1>12. ASSUME NEW x \in W \ {s}
         PROVE  \E i \in 1 .. n : r[i].ssrc = x
    <2>1. PICK i \in 1 .. (n + 1) : list[i].ssrc = x
      BY <1>5 DEF ListOf
    <2>2. i # 1
      BY <1>7, <2>1
    <2>3. i - 1 \in 1 .. n /\ (i - 1) + 1 = i
      BY <2>2
    <2>4. r[i - 1] = list[i]
      BY <1>8, <2>3
    <2> QED
      BY <2>1, <2>3, <2>4
  <1>13. ListOf(r, W \ {s}, K)
    BY <1>3, <1>4, <1>9, <1>10, <1>11, <1>12 DEF ListOf
  <1>14. ASSUME NEW x \in W
         PROVE  ~KeyBefore(K[x], K[s])
    <2>1. PICK i \in 1 .. (n + 1) : list[i].ssrc = x
      BY <1>5 DEF ListOf
    <2>2. list[i] = K[x]
      BY <1>5, <2>1 DEF ListOf
    <2>3. CASE i = 1
      <3>1. K[x] = list[1] /\ list[1] \in Keys
        BY <1>1, <1>5, <2>2, <2>3, ElementOfSeq
      <3>2. \A a \in Keys : ~KeyBefore(a, a)
        BY DEF KeyBefore, Keys
      <3> QED
        BY <1>7, <2>2, <2>3, <3>1, <3>2
    <2>4. CASE i # 1
      <3>1. 1 < i
        BY <2>4
      <3> QED
        BY <1>1, <1>5, <1>6, <1>7, <2>2, <3>1 DEF Sorted
    <2> QED
      BY <2>3, <2>4
  <1> QED
    BY <1>2, <1>7, <1>13, <1>14

LEMMA ListOfSame ==
  ASSUME NEW list, NEW W, NEW K, NEW L, ListOf(list, W, K), \A x \in W : L[x] = K[x]
  PROVE  ListOf(list, W, L)
  BY DEF ListOf

LEMMA ListOfLength ==
  ASSUME NEW list, NEW W, NEW K, ListOf(list, W, K)
  PROVE  Len(list) = Cardinality(W)
  <1>1. list \in Seq(Keys)
    BY DEF ListOf
  <1>2. PICK n \in Nat : n = Len(list) /\ DOMAIN list = 1 .. n
    BY <1>1, LenProperties
  <1> DEFINE e == [i \in 1 .. n |-> list[i].ssrc]
  <1>3. e \in [1 .. n -> W]
    BY <1>2 DEF ListOf
  <1>4. \A i, j \in 1 .. n : e[i] = e[j] => i = j
    BY <1>2 DEF ListOf, Distinct
  <1>5. \A s \in W : \E i \in 1 .. n : e[i] = s
    BY <1>2 DEF ListOf
  <1> HIDE DEF e
  <1>6. e \in Bijection(1 .. n, W)
    BY <1>3, <1>4, <1>5 DEF Bijection, Injection, IsInjective, Surjection
  <1>7. ExistsBijection(1 .. n, W)
    BY <1>6 DEF ExistsBijection
  <1>8. IsFiniteSet(1 .. n) /\ Cardinality(1 .. n) = n
    BY FS_Interval
  <1> QED
    BY <1>2, <1>7, <1>8, FS_Bijection

--------------------------------------------------------------------------------
(* The packet queue. *)

PacketQueue(q, s) == IF s \in DOMAIN q.streams_ THEN q.streams_[s].packet_queue ELSE <<>>
SentBytes(q, s) == IF s \in DOMAIN q.streams_ THEN q.streams_[s].size ELSE 0
WaitingIn(q) == {s \in Ssrcs : PacketQueue(q, s) # <<>>}
KeysOf(q) == [s \in Ssrcs |-> Key(PriorityOf[s], SentBytes(q, s), s)]

QueueRecord(q) ==
    q = [streams_ |-> q.streams_, stream_priorities_ |-> q.stream_priorities_,
         size_packets_ |-> q.size_packets_, size_ |-> q.size_, max_size_ |-> q.max_size_,
         queue_time_sum_ |-> q.queue_time_sum_, last_time_updated_ |-> q.last_time_updated_,
         freed |-> q.freed]

\* A source's packets are its own, and priority_it is set while there are any.
StreamMap(f) ==
    /\ f = [s \in DOMAIN f |-> f[s]]
    /\ DOMAIN f \subseteq Ssrcs
    /\ \A s \in DOMAIN f :
           /\ f[s] = [size |-> f[s].size, packet_queue |-> f[s].packet_queue, listed |-> f[s].listed]
           /\ f[s].size \in Nat
           /\ f[s].packet_queue \in Seq(PacketsOf(s))
           /\ f[s].listed = (f[s].packet_queue # <<>>)

QueueTyped(q) ==
    /\ QueueRecord(q)
    /\ StreamMap(q.streams_)
    /\ q.max_size_ \in Nat
    /\ q.last_time_updated_ \in Nat
    /\ q.freed = {}

Counted(q) ==
    /\ q.size_packets_ = SumOver([s \in Ssrcs |-> Len(PacketQueue(q, s))])
    /\ q.size_ = SumOver([s \in Ssrcs |-> Bytes(PacketQueue(q, s))])
    /\ q.queue_time_sum_ =
           SumOver([s \in Ssrcs |-> Waited(PacketQueue(q, s), q.last_time_updated_)])

Reached(q) == \A s \in Ssrcs : SentBytes(q, s) <= q.max_size_

\* The queue's inductive invariant.
QueueInv(q) ==
    /\ QueueTyped(q)
    /\ Counted(q)
    /\ Reached(q)
    /\ ListOf(q.stream_priorities_, WaitingIn(q), KeysOf(q))

LEMMA StreamFacts ==
  ASSUME NEW q, StreamMap(q.streams_), NEW s \in Ssrcs
  PROVE  /\ PacketQueue(q, s) \in Seq(PacketsOf(s))
         /\ SentBytes(q, s) \in Nat
         /\ (s \in DOMAIN q.streams_ /\ q.streams_[s].listed) <=> PacketQueue(q, s) # <<>>
         /\ KeysOf(q)[s] \in Keys
         /\ KeysOf(q)[s].ssrc = s /\ KeysOf(q)[s].priority = PriorityOf[s]
         /\ KeysOf(q)[s].size = SentBytes(q, s)
  <1>1. PriorityOf[s] \in 1 .. 4
    BY PacerAssumption
  <1>2. CASE s \in DOMAIN q.streams_
    <2>1. /\ q.streams_[s].size \in Nat
          /\ q.streams_[s].packet_queue \in Seq(PacketsOf(s))
          /\ q.streams_[s].listed = (q.streams_[s].packet_queue # <<>>)
      BY <1>2 DEF StreamMap
    <2>2. PacketQueue(q, s) = q.streams_[s].packet_queue /\ SentBytes(q, s) = q.streams_[s].size
      BY <1>2 DEF PacketQueue, SentBytes
    <2> QED
      BY <1>1, <1>2, <2>1, <2>2 DEF KeysOf, Key, Keys
  <1>3. CASE s \notin DOMAIN q.streams_
    <2>1. PacketQueue(q, s) = <<>> /\ SentBytes(q, s) = 0
      BY <1>3 DEF PacketQueue, SentBytes
    <2>2. <<>> \in Seq(PacketsOf(s))
      BY EmptySeq
    <2> QED
      BY <1>1, <1>3, <2>1, <2>2 DEF KeysOf, Key, Keys
  <1> QED
    BY <1>2, <1>3

LEMMA EnlistAppends ==
  ASSUME NEW s \in Ssrcs, NEW packets \in Seq(PacketsOf(s)), NEW p \in PacketsOf(s)
  PROVE  Enlist(packets, p) = Append(packets, p)
  <1>1. PICK n \in Nat : n = Len(packets) /\ DOMAIN packets = 1 .. n
    BY LenProperties
  <1>2. \A i \in 1 .. n : packets[i] \in PacketsOf(s)
    BY <1>1, ElementOfSeq
  <1>3. \A i \in 1 .. n : packets[i].priority <= p.priority
    BY <1>2, PacketFacts
  <1>4. {i \in DOMAIN packets : packets[i].priority <= p.priority} = 1 .. n
    BY <1>1, <1>3
  <1>5. Cardinality(1 .. n) = n
    BY FS_Interval
  <1>6. Enlist(packets, p) = InsertAt(packets, n + 1, p)
    BY <1>4, <1>5 DEF Enlist
  <1>7. PICK r : r = InsertAt(packets, n + 1, p)
    OBVIOUS
  <1>8. n \in 0 .. Len(packets)
    BY <1>1
  <1>9. r \in Seq(PacketsOf(s)) /\ Inserted(r, packets, n, p)
    BY <1>7, <1>8, InsertAtFacts
  <1>10. PICK t : t = Append(packets, p)
    OBVIOUS
  <1>11. /\ t \in Seq(PacketsOf(s)) /\ Len(t) = n + 1
         /\ \A i \in 1 .. n : t[i] = packets[i]
         /\ t[n + 1] = p
    BY <1>1, <1>10, AppendProperties
  <1>12. Len(r) = n + 1 /\ \A i \in 1 .. (n + 1) : r[i] = t[i]
    BY <1>1, <1>9, <1>11 DEF Inserted
  <1>13. r = t
    BY <1>9, <1>11, <1>12, SeqEqual
  <1> QED
    BY <1>6, <1>7, <1>10, <1>13

LEMMA FindOrCreateFacts ==
  ASSUME NEW q, QueueTyped(q), NEW s \in Ssrcs, NEW c, c = FindOrCreate(q, s)
  PROVE  /\ StreamMap(c.streams_) /\ s \in DOMAIN c.streams_
         /\ \A x \in Ssrcs : PacketQueue(c, x) = PacketQueue(q, x) /\ SentBytes(c, x) = SentBytes(q, x)
         /\ c = [streams_ |-> c.streams_, stream_priorities_ |-> q.stream_priorities_,
                 size_packets_ |-> q.size_packets_, size_ |-> q.size_, max_size_ |-> q.max_size_,
                 queue_time_sum_ |-> q.queue_time_sum_,
                 last_time_updated_ |-> q.last_time_updated_, freed |-> q.freed]
  <1>1. CASE s \in DOMAIN q.streams_
    <2>1. c = q
      BY <1>1 DEF FindOrCreate
    <2> QED
      BY <1>1, <2>1 DEF QueueTyped, QueueRecord
  <1>2. CASE s \notin DOMAIN q.streams_
    <2>1. PICK D : D = DOMAIN q.streams_ \cup {s}
      OBVIOUS
    <2>2. PICK f : f = [x \in D |-> IF x = s THEN NewStream ELSE q.streams_[x]]
      OBVIOUS
    <2>3. c = [q EXCEPT !.streams_ = f]
      BY <1>2, <2>1, <2>2 DEF FindOrCreate
    <2>4. c = [streams_ |-> f, stream_priorities_ |-> q.stream_priorities_,
                 size_packets_ |-> q.size_packets_, size_ |-> q.size_, max_size_ |-> q.max_size_,
                 queue_time_sum_ |-> q.queue_time_sum_,
                 last_time_updated_ |-> q.last_time_updated_, freed |-> q.freed]
      BY <2>3 DEF QueueTyped, QueueRecord
    <2>5. c.streams_ = f /\ DOMAIN f = D /\ s \in D
      BY <2>1, <2>2, <2>4
    <2>6. \A x \in D : f[x] = IF x = s THEN NewStream ELSE q.streams_[x]
      BY <2>2
    <2>7. f = [x \in D |-> f[x]]
      BY <2>2
    <2>8. StreamMap(q.streams_)
      BY DEF QueueTyped
    <2>9. D \subseteq Ssrcs
      BY <2>1, <2>8 DEF StreamMap
    <2>10. ASSUME NEW x \in D
           PROVE  /\ f[x] = [size |-> f[x].size, packet_queue |-> f[x].packet_queue,
                             listed |-> f[x].listed]
                  /\ f[x].size \in Nat
                  /\ f[x].packet_queue \in Seq(PacketsOf(x))
                  /\ f[x].listed = (f[x].packet_queue # <<>>)
      <3>1. CASE x = s
        <4>1. f[x] = NewStream
          BY <2>6, <3>1
        <4>2. <<>> \in Seq(PacketsOf(x))
          BY EmptySeq
        <4>3. f[x].size = 0 /\ f[x].packet_queue = <<>> /\ f[x].listed = FALSE
          BY <4>1 DEF NewStream
        <4>4. f[x] = [size |-> f[x].size, packet_queue |-> f[x].packet_queue,
                      listed |-> f[x].listed]
          BY <4>1 DEF NewStream
        <4>5. f[x].listed = (f[x].packet_queue # <<>>)
          BY <4>3, Zenon
        <4> QED
          BY <4>2, <4>3, <4>4, <4>5
      <3>2. CASE x # s
        <4>1. x \in DOMAIN q.streams_ /\ f[x] = q.streams_[x]
          BY <2>1, <2>6, <3>2
        <4> QED
          BY <2>8, <4>1 DEF StreamMap
      <3> QED
        BY <3>1, <3>2
    <2>11. StreamMap(f)
      BY <2>5, <2>7, <2>9, <2>10 DEF StreamMap
    <2>12. ASSUME NEW x \in Ssrcs
           PROVE  PacketQueue(c, x) = PacketQueue(q, x) /\ SentBytes(c, x) = SentBytes(q, x)
      <3>1. CASE x = s
        <4>1. f[x].packet_queue = <<>> /\ f[x].size = 0
          BY <2>5, <2>6, <3>1 DEF NewStream
        <4> QED
          BY <1>2, <2>5, <3>1, <4>1 DEF PacketQueue, SentBytes
      <3>2. CASE x # s
        BY <2>1, <2>5, <2>6, <3>2 DEF PacketQueue, SentBytes
      <3> QED
        BY <3>1, <3>2
    <2> QED
      BY <2>4, <2>5, <2>11, <2>12
  <1> QED
    BY <1>1, <1>2

(* While each source has one priority no packet is more urgent than the entry   *)
(* of its stream.                                                                *)
LEMMA ListedPriorityOwn ==
  ASSUME NEW q, StreamMap(q.streams_), NEW s \in WaitingIn(q),
         ListOf(q.stream_priorities_, WaitingIn(q), KeysOf(q))
  PROVE  ListedPriority(q, s) = PriorityOf[s]
  <1>1. PICK list : list = q.stream_priorities_
    OBVIOUS
  <1>2. \E j \in DOMAIN list : list[j].ssrc = s
    BY <1>1 DEF ListOf
  <1>3. PICK i : i = CHOOSE j \in DOMAIN list : list[j].ssrc = s
    OBVIOUS
  <1>4. i \in DOMAIN list /\ list[i].ssrc = s
    BY <1>2, <1>3
  <1>5. list[i] = KeysOf(q)[s]
    BY <1>1, <1>4 DEF ListOf
  <1>6. s \in Ssrcs
    BY DEF WaitingIn
  <1>7. list[i].priority = PriorityOf[s]
    BY <1>5, <1>6, StreamFacts
  <1>8. ListedPriority(q, s) = list[i].priority
    BY <1>1, <1>3 DEF ListedPriority
  <1> QED
    BY <1>7, <1>8

PacketOf(s, t) == [ssrc |-> s, priority |-> PriorityOf[s], size |-> SizeOf[s], enqueue_time |-> t]

LEMMA PushFacts ==
  ASSUME NEW q, QueueInv(q), NEW s \in Ssrcs, NEW t \in Nat, NEW r, r = Push(q, PacketOf(s, t))
  PROVE  /\ QueueTyped(r)
         /\ PacketQueue(r, s) = Append(PacketQueue(q, s), PacketOf(s, t))
         /\ \A x \in Ssrcs : x # s => PacketQueue(r, x) = PacketQueue(q, x)
         /\ \A x \in Ssrcs : SentBytes(r, x) = SentBytes(q, x)
         /\ r.stream_priorities_ = IF s \in WaitingIn(q) THEN q.stream_priorities_
                                   ELSE Emplace(q.stream_priorities_, KeysOf(q)[s])
         /\ r.size_packets_ = q.size_packets_ + 1
         /\ r.size_ = q.size_ + SizeOf[s]
         /\ r.max_size_ = q.max_size_
         /\ r.queue_time_sum_ = q.queue_time_sum_ + (t - q.last_time_updated_) * q.size_packets_
         /\ r.last_time_updated_ = t
  <1>1. QueueTyped(q) /\ ListOf(q.stream_priorities_, WaitingIn(q), KeysOf(q))
    BY DEF QueueInv
  <1>2. PICK c : c = FindOrCreate(q, s)
    OBVIOUS
  <1>3. PICK f : f = c.streams_
    OBVIOUS
  <1>4. /\ StreamMap(f) /\ s \in DOMAIN f
        /\ \A x \in Ssrcs : PacketQueue(c, x) = PacketQueue(q, x) /\ SentBytes(c, x) = SentBytes(q, x)
        /\ c = [streams_ |-> f, stream_priorities_ |-> q.stream_priorities_,
                 size_packets_ |-> q.size_packets_, size_ |-> q.size_, max_size_ |-> q.max_size_,
                 queue_time_sum_ |-> q.queue_time_sum_,
                 last_time_updated_ |-> q.last_time_updated_, freed |-> q.freed]
    BY <1>1, <1>2, <1>3, FindOrCreateFacts
  <1>5. PICK p : p = PacketOf(s, t)
    OBVIOUS
  <1>6. /\ p \in PacketsOf(s) /\ p.ssrc = s /\ p.priority = PriorityOf[s] /\ p.size = SizeOf[s]
        /\ p.enqueue_time = t
    BY <1>5 DEF PacketOf, PacketsOf
  <1>7. /\ f[s] = [size |-> f[s].size, packet_queue |-> f[s].packet_queue, listed |-> f[s].listed]
        /\ f[s].packet_queue \in Seq(PacketsOf(s)) /\ f[s].size \in Nat
        /\ f[s].listed = (f[s].packet_queue # <<>>)
    BY <1>4 DEF StreamMap
  <1>8. f[s].packet_queue = PacketQueue(q, s) /\ f[s].size = SentBytes(q, s)
    <2>1. PacketQueue(c, s) = f[s].packet_queue /\ SentBytes(c, s) = f[s].size
      BY <1>3, <1>4 DEF PacketQueue, SentBytes
    <2> QED
      BY <1>4, <2>1
  <1>9. f[s].listed <=> s \in WaitingIn(q)
    BY <1>7, <1>8 DEF WaitingIn
  <1>10. WaitingIn(c) = WaitingIn(q) /\ KeysOf(c) = KeysOf(q)
    BY <1>4 DEF WaitingIn, KeysOf
  <1>11. c.stream_priorities_ = q.stream_priorities_
    BY <1>4
  <1>12. ~ (f[s].listed /\ p.priority < ListedPriority(c, s))
    <2>1. SUFFICES ASSUME f[s].listed PROVE ~ (p.priority < ListedPriority(c, s))
      OBVIOUS
    <2>2. s \in WaitingIn(c)
      BY <1>9, <1>10, <2>1
    <2>3. ListedPriority(c, s) = PriorityOf[s]
      BY <1>1, <1>3, <1>4, <1>10, <1>11, <2>2, ListedPriorityOwn
    <2>4. PriorityOf[s] \in 1 .. 4
      BY PacerAssumption
    <2> QED
      BY <1>6, <2>3, <2>4
  <1>13. PICK l : l = IF f[s].listed THEN q.stream_priorities_
                      ELSE Emplace(q.stream_priorities_, Key(p.priority, f[s].size, s))
    OBVIOUS
  <1>14. PICK st : st = [size |-> f[s].size, packet_queue |-> Append(f[s].packet_queue, p),
                         listed |-> TRUE]
    OBVIOUS
  <1>15. st = [f[s] EXCEPT !.listed = TRUE, !.packet_queue = Enlist(@, p)]
    <2>1. Enlist(f[s].packet_queue, p) = Append(f[s].packet_queue, p)
      BY <1>6, <1>7, EnlistAppends
    <2>2. PICK a : a = f[s]
      OBVIOUS
    <2>3. PICK w : w = a.packet_queue
      OBVIOUS
    <2>4. PICK v : v = Append(w, p)
      OBVIOUS
    <2>5. PICK y : y = TRUE
      OBVIOUS
    <2>6. PICK e : e = [a EXCEPT !.listed = y]
      OBVIOUS
    <2>7. [a EXCEPT !.listed = y, !.packet_queue = v] =
              [size |-> a.size, packet_queue |-> v, listed |-> y]
      <3>1. e = [size |-> a.size, packet_queue |-> w, listed |-> y]
        BY <1>7, <2>2, <2>3, <2>6
      <3>2. [e EXCEPT !.packet_queue = v] = [size |-> a.size, packet_queue |-> v, listed |-> y]
        BY <3>1
      <3> QED
        BY <2>6, <3>2
    <2> QED
      BY <1>14, <2>1, <2>2, <2>3, <2>4, <2>5, <2>7
  <1>16. PICK g : g = [f EXCEPT ![s] = st]
    OBVIOUS
  <1>17. PICK u : u = q.queue_time_sum_ + (t - q.last_time_updated_) * q.size_packets_
    OBVIOUS
  <1>18. UpdateQueueTime(c, t) =
             [streams_ |-> f, stream_priorities_ |-> q.stream_priorities_,
              size_packets_ |-> q.size_packets_, size_ |-> q.size_, max_size_ |-> q.max_size_,
              queue_time_sum_ |-> u, last_time_updated_ |-> t, freed |-> q.freed]
    <2>1. /\ c.queue_time_sum_ = q.queue_time_sum_ /\ c.size_packets_ = q.size_packets_
          /\ c.last_time_updated_ = q.last_time_updated_
      BY <1>4
    <2>2. UpdateQueueTime(c, t) = [c EXCEPT !.queue_time_sum_ = u, !.last_time_updated_ = t]
      BY <1>17, <2>1 DEF UpdateQueueTime
    <2> QED
      BY <1>4, <2>2
  <1>19. PICK d : d = UpdateQueueTime(c, t)
    OBVIOUS
  <1>20. r = [d EXCEPT
                !.stream_priorities_ =
                    IF f[s].listed THEN @ ELSE Emplace(@, Key(p.priority, f[s].size, s)),
                !.streams_[s] = [f[s] EXCEPT !.listed = TRUE, !.packet_queue = Enlist(@, p)],
                !.size_packets_ = @ + 1,
                !.size_ = @ + p.size]
    BY <1>2, <1>3, <1>5, <1>6, <1>12, <1>19 DEF Push
  <1>21. r = [streams_ |-> g, stream_priorities_ |-> l,
              size_packets_ |-> q.size_packets_ + 1, size_ |-> q.size_ + p.size,
              max_size_ |-> q.max_size_,
              queue_time_sum_ |-> u, last_time_updated_ |-> t, freed |-> q.freed]
    <2>1. /\ d.streams_ = f /\ d.stream_priorities_ = q.stream_priorities_
          /\ d.size_packets_ = q.size_packets_ /\ d.size_ = q.size_
      BY <1>18, <1>19
    <2>2. r = [d EXCEPT !.stream_priorities_ = l, !.streams_ = g,
                        !.size_packets_ = q.size_packets_ + 1, !.size_ = q.size_ + p.size]
      BY <1>13, <1>15, <1>16, <1>20, <2>1
    <2>3. PICK k : k = q.size_packets_ + 1
      OBVIOUS
    <2>4. PICK b : b = q.size_ + p.size
      OBVIOUS
    <2>5. r = [d EXCEPT !.stream_priorities_ = l, !.streams_ = g,
                        !.size_packets_ = k, !.size_ = b]
      BY <2>2, <2>3, <2>4
    <2>6. PICK d1 : d1 = [d EXCEPT !.stream_priorities_ = l]
      OBVIOUS
    <2>7. PICK d2 : d2 = [d1 EXCEPT !.streams_ = g]
      OBVIOUS
    <2>8. PICK d3 : d3 = [d2 EXCEPT !.size_packets_ = k]
      OBVIOUS
    <2>9. r = [d3 EXCEPT !.size_ = b]
      BY <2>5, <2>6, <2>7, <2>8
    <2>10. d1 = [streams_ |-> f, stream_priorities_ |-> l, size_packets_ |-> q.size_packets_,
                 size_ |-> q.size_, max_size_ |-> q.max_size_,
                 queue_time_sum_ |-> u, last_time_updated_ |-> t, freed |-> q.freed]
      BY <1>18, <1>19, <2>6
    <2>11. d2 = [streams_ |-> g, stream_priorities_ |-> l, size_packets_ |-> q.size_packets_,
                 size_ |-> q.size_, max_size_ |-> q.max_size_,
                 queue_time_sum_ |-> u, last_time_updated_ |-> t, freed |-> q.freed]
      BY <2>7, <2>10
    <2>12. d3 = [streams_ |-> g, stream_priorities_ |-> l, size_packets_ |-> k,
                 size_ |-> q.size_, max_size_ |-> q.max_size_,
                 queue_time_sum_ |-> u, last_time_updated_ |-> t, freed |-> q.freed]
      BY <2>8, <2>11
    <2>13. r = [streams_ |-> g, stream_priorities_ |-> l, size_packets_ |-> k, size_ |-> b,
               max_size_ |-> q.max_size_,
               queue_time_sum_ |-> u, last_time_updated_ |-> t, freed |-> q.freed]
      BY <2>9, <2>12
    <2> QED
      BY <2>3, <2>4, <2>13
  <1>22. /\ r.streams_ = g /\ r.stream_priorities_ = l /\ r.size_packets_ = q.size_packets_ + 1
         /\ r.size_ = q.size_ + p.size /\ r.max_size_ = q.max_size_ /\ r.queue_time_sum_ = u
         /\ r.last_time_updated_ = t /\ r.freed = q.freed
    BY <1>21
  <1>23. QueueRecord(r)
    BY <1>21, <1>22 DEF QueueRecord
  <1>24. /\ DOMAIN g = DOMAIN f /\ g = [x \in DOMAIN g |-> g[x]]
         /\ g[s] = st /\ \A x \in DOMAIN f : x # s => g[x] = f[x]
    BY <1>4, <1>16
  <1>25. StreamMap(g)
    <2>1. DOMAIN g \subseteq Ssrcs
      BY <1>4, <1>24 DEF StreamMap
    <2>2. ASSUME NEW x \in DOMAIN g
          PROVE  /\ g[x] = [size |-> g[x].size, packet_queue |-> g[x].packet_queue,
                            listed |-> g[x].listed]
                 /\ g[x].size \in Nat
                 /\ g[x].packet_queue \in Seq(PacketsOf(x))
                 /\ g[x].listed = (g[x].packet_queue # <<>>)
      <3>1. CASE x = s
        <4>1. /\ Append(f[s].packet_queue, p) \in Seq(PacketsOf(s))
              /\ Append(f[s].packet_queue, p) # <<>>
          BY <1>6, <1>7, AppendProperties
        <4>2. /\ st.size = f[s].size /\ st.packet_queue = Append(f[s].packet_queue, p)
              /\ st.listed = TRUE
          BY <1>14
        <4>3. g[x] = st
          BY <1>24, <3>1
        <4> QED
          BY <1>7, <1>14, <3>1, <4>1, <4>2, <4>3
      <3>2. CASE x # s
        <4>1. x \in DOMAIN f /\ g[x] = f[x]
          BY <1>24, <3>2
        <4> QED
          BY <1>4, <4>1 DEF StreamMap
      <3> QED
        BY <3>1, <3>2
    <2> QED
      BY <1>24, <2>1, <2>2 DEF StreamMap
  <1>26. QueueTyped(r)
    BY <1>1, <1>22, <1>23, <1>25 DEF QueueTyped
  <1>27. PacketQueue(r, s) = Append(PacketQueue(q, s), p) /\ SentBytes(r, s) = SentBytes(q, s)
    <2>1. g[s].packet_queue = Append(f[s].packet_queue, p) /\ g[s].size = f[s].size
      BY <1>14, <1>24
    <2>2. s \in DOMAIN r.streams_ /\ r.streams_[s] = g[s]
      BY <1>4, <1>22, <1>24
    <2> QED
      BY <1>8, <2>1, <2>2 DEF PacketQueue, SentBytes
  <1>28. ASSUME NEW x \in Ssrcs, x # s
         PROVE  PacketQueue(r, x) = PacketQueue(q, x) /\ SentBytes(r, x) = SentBytes(q, x)
    <2>1. PacketQueue(r, x) = PacketQueue(c, x) /\ SentBytes(r, x) = SentBytes(c, x)
      BY <1>3, <1>22, <1>24, <1>28 DEF PacketQueue, SentBytes
    <2> QED
      BY <1>4, <2>1
  <1>29. l = IF s \in WaitingIn(q) THEN q.stream_priorities_
             ELSE Emplace(q.stream_priorities_, KeysOf(q)[s])
    <2>1. KeysOf(q)[s] = Key(p.priority, f[s].size, s)
      BY <1>6, <1>8 DEF KeysOf
    <2> QED
      BY <1>9, <1>13, <2>1
  <1> QED
    BY <1>5, <1>6, <1>17, <1>22, <1>26, <1>27, <1>28, <1>29

LEMMA TotalsOfQueue ==
  ASSUME NEW q, StreamMap(q.streams_), Counted(q), q.last_time_updated_ \in Nat, NEW u \in Nat
  PROVE  /\ q.size_packets_ \in Int /\ q.size_ \in Int /\ q.queue_time_sum_ \in Int
         /\ SumOver([s \in Ssrcs |-> Waited(PacketQueue(q, s), u)]) =
                q.queue_time_sum_ + (u - q.last_time_updated_) * q.size_packets_
  <1>1. PICK t \in Int : t = q.last_time_updated_
    OBVIOUS
  <1> DEFINE N == [s \in Ssrcs |-> Len(PacketQueue(q, s))]
             B == [s \in Ssrcs |-> Bytes(PacketQueue(q, s))]
             F == [s \in Ssrcs |-> Waited(PacketQueue(q, s), t)]
             G == [s \in Ssrcs |-> Waited(PacketQueue(q, s), u)]
  <1>2. \A s \in Ssrcs : PacketQueue(q, s) \in Seq(PacketsOf(s))
    BY StreamFacts
  <1>3. \A s \in Ssrcs : N[s] \in Int /\ B[s] \in Int /\ F[s] \in Int
    <2> TAKE s \in Ssrcs
    <2>1. /\ Bytes(PacketQueue(q, s)) \in Int /\ Waited(PacketQueue(q, s), t) \in Int
          /\ Len(PacketQueue(q, s)) \in Nat
      BY <1>2, TotalsType
    <2> QED
      BY <2>1
  <1>4. \A s \in Ssrcs : G[s] = F[s] + (u - t) * N[s]
    <2> TAKE s \in Ssrcs
    <2>1. Waited(PacketQueue(q, s), u) =
              Waited(PacketQueue(q, s), t) + (u - t) * Len(PacketQueue(q, s))
      BY <1>2, WaitedLater
    <2> QED
      BY <2>1
  <1>5. q.size_packets_ = SumOver(N) /\ q.size_ = SumOver(B) /\ q.queue_time_sum_ = SumOver(F)
    BY <1>1 DEF Counted
  <1> HIDE DEF N, B, F, G
  <1>6. SumOver(N) \in Int
    BY <1>3, SumOverType
  <1>7. SumOver(B) \in Int
    BY <1>3, SumOverType
  <1>8. SumOver(F) \in Int
    BY <1>3, SumOverType
  <1>9. u - t \in Int
    OBVIOUS
  <1>10. SumOver(G) = SumOver(F) + (u - t) * SumOver(N)
    BY <1>3, <1>4, <1>9, SumOverScaled
  <1> QED
    BY <1>1, <1>5, <1>6, <1>7, <1>8, <1>10 DEF G

(* The counters follow when the packets of one source change. *)
LEMMA CountedChange ==
  ASSUME NEW q, StreamMap(q.streams_), Counted(q), q.last_time_updated_ \in Nat,
         NEW r, StreamMap(r.streams_), r.last_time_updated_ \in Nat, NEW s \in Ssrcs,
         \A x \in Ssrcs : x # s => PacketQueue(r, x) = PacketQueue(q, x),
         NEW n \in Int, NEW b \in Int, NEW w \in Int,
         Len(PacketQueue(r, s)) = Len(PacketQueue(q, s)) + n,
         Bytes(PacketQueue(r, s)) = Bytes(PacketQueue(q, s)) + b,
         Waited(PacketQueue(r, s), r.last_time_updated_) =
             Waited(PacketQueue(q, s), r.last_time_updated_) + w,
         r.size_packets_ = q.size_packets_ + n,
         r.size_ = q.size_ + b,
         r.queue_time_sum_ =
             q.queue_time_sum_ + (r.last_time_updated_ - q.last_time_updated_) * q.size_packets_ + w
  PROVE  Counted(r)
  <1>1. PICK u \in Nat : u = r.last_time_updated_
    OBVIOUS
  <1> DEFINE N == [x \in Ssrcs |-> Len(PacketQueue(q, x))]
             B == [x \in Ssrcs |-> Bytes(PacketQueue(q, x))]
             F == [x \in Ssrcs |-> Waited(PacketQueue(q, x), u)]
             P == [x \in Ssrcs |-> Len(PacketQueue(r, x))]
             C == [x \in Ssrcs |-> Bytes(PacketQueue(r, x))]
             G == [x \in Ssrcs |-> Waited(PacketQueue(r, x), u)]
  <1>2. ASSUME NEW x \in Ssrcs
        PROVE  /\ N[x] \in Int /\ B[x] \in Int /\ F[x] \in Int
               /\ P[x] \in Int /\ C[x] \in Int /\ G[x] \in Int
    <2>1. PacketQueue(q, x) \in Seq(PacketsOf(x)) /\ PacketQueue(r, x) \in Seq(PacketsOf(x))
      BY StreamFacts
    <2>2. /\ Bytes(PacketQueue(q, x)) \in Int /\ Waited(PacketQueue(q, x), u) \in Int
          /\ Len(PacketQueue(q, x)) \in Nat
      BY <2>1, TotalsType
    <2>3. /\ Bytes(PacketQueue(r, x)) \in Int /\ Waited(PacketQueue(r, x), u) \in Int
          /\ Len(PacketQueue(r, x)) \in Nat
      BY <2>1, TotalsType
    <2> QED
      BY <2>2, <2>3
  <1>3. \A x \in Ssrcs : x # s => P[x] = N[x] /\ C[x] = B[x] /\ G[x] = F[x]
    OBVIOUS
  <1>4. P[s] = N[s] + n /\ C[s] = B[s] + b /\ G[s] = F[s] + w
    BY <1>1
  <1>5. q.size_packets_ = SumOver(N) /\ q.size_ = SumOver(B)
    BY DEF Counted
  <1>6. /\ q.size_packets_ \in Int /\ q.size_ \in Int /\ q.queue_time_sum_ \in Int
        /\ SumOver(F) = q.queue_time_sum_ + (u - q.last_time_updated_) * q.size_packets_
    BY TotalsOfQueue
  <1> HIDE DEF N, B, F, P, C, G
  <1>7. SumOver(P) = SumOver(N) + (P[s] - N[s])
    BY <1>2, <1>3, SumOverChange
  <1>8. SumOver(C) = SumOver(B) + (C[s] - B[s])
    BY <1>2, <1>3, SumOverChange
  <1>9. SumOver(G) = SumOver(F) + (G[s] - F[s])
    BY <1>2, <1>3, SumOverChange
  <1>10. P[s] - N[s] = n /\ C[s] - B[s] = b /\ G[s] - F[s] = w
    <2>1. N[s] \in Int /\ B[s] \in Int /\ F[s] \in Int
      BY <1>2
    <2>2. \A x, y \in Int : (x + y) - x = y
      OBVIOUS
    <2> QED
      BY <1>4, <2>1, <2>2
  <1>11. r.size_packets_ = SumOver(P) /\ r.size_ = SumOver(C) /\ r.queue_time_sum_ = SumOver(G)
    BY <1>1, <1>5, <1>6, <1>7, <1>8, <1>9, <1>10
  <1> QED
    BY <1>1, <1>11 DEF Counted, P, C, G

LEMMA PushKeeps ==
  ASSUME NEW q, QueueInv(q), NEW s \in Ssrcs, NEW t \in Nat, NEW r, r = Push(q, PacketOf(s, t))
  PROVE  QueueInv(r)
  <1>1. QueueTyped(q) /\ Counted(q) /\ Reached(q)
        /\ ListOf(q.stream_priorities_, WaitingIn(q), KeysOf(q))
    BY DEF QueueInv
  <1>2. PICK p : p = PacketOf(s, t)
    OBVIOUS
  <1>3. /\ QueueTyped(r)
        /\ PacketQueue(r, s) = Append(PacketQueue(q, s), p)
        /\ \A x \in Ssrcs : x # s => PacketQueue(r, x) = PacketQueue(q, x)
        /\ \A x \in Ssrcs : SentBytes(r, x) = SentBytes(q, x)
        /\ r.stream_priorities_ = IF s \in WaitingIn(q) THEN q.stream_priorities_
                                  ELSE Emplace(q.stream_priorities_, KeysOf(q)[s])
        /\ r.size_packets_ = q.size_packets_ + 1
        /\ r.size_ = q.size_ + SizeOf[s]
        /\ r.max_size_ = q.max_size_
        /\ r.queue_time_sum_ = q.queue_time_sum_ + (t - q.last_time_updated_) * q.size_packets_
        /\ r.last_time_updated_ = t
    BY <1>2, PushFacts
  <1>4. p \in PacketsOf(s) /\ p.enqueue_time = t
    BY <1>2 DEF PacketOf, PacketsOf
  <1>5. StreamMap(q.streams_) /\ StreamMap(r.streams_) /\ q.last_time_updated_ \in Nat
    BY <1>1, <1>3 DEF QueueTyped
  <1>6. PICK a : a = PacketQueue(q, s)
    OBVIOUS
  <1>7. a \in Seq(PacketsOf(s))
    BY <1>5, <1>6, StreamFacts
  <1>8. /\ Bytes(Append(a, p)) = Bytes(a) + SizeOf[s]
        /\ Waited(Append(a, p), t) = Waited(a, t) + (t - t)
        /\ Len(Append(a, p)) = Len(a) + 1
        /\ Append(a, p) # <<>>
    <2>1. t \in Int
      OBVIOUS
    <2>2. Append(a, p) # <<>>
      BY <1>4, <1>7, AppendProperties
    <2>3. /\ Bytes(Append(a, p)) = Bytes(a) + SizeOf[s]
          /\ Waited(Append(a, p), t) = Waited(a, t) + (t - p.enqueue_time)
          /\ Len(Append(a, p)) = Len(a) + 1
      BY <1>4, <1>7, <2>1, TotalsOfAppend
    <2> QED
      BY <1>4, <2>2, <2>3
  <1>9. t - t = 0
    OBVIOUS
  <1>10. SizeOf[s] \in Int /\ 1 \in Int /\ 0 \in Int
    BY PacerAssumption
  <1>11. q.size_packets_ \in Int /\ q.queue_time_sum_ \in Int
    BY <1>1, <1>5, TotalsOfQueue
  <1>12. r.queue_time_sum_ =
             q.queue_time_sum_ + (r.last_time_updated_ - q.last_time_updated_) * q.size_packets_ + 0
    <2>1. PICK y \in Int : y = (t - q.last_time_updated_) * q.size_packets_
      BY <1>5, <1>11
    <2>2. q.queue_time_sum_ + y = q.queue_time_sum_ + y + 0
      BY <1>11, <2>1
    <2> QED
      BY <1>3, <2>1, <2>2
  <1>13. r.last_time_updated_ \in Nat
    BY <1>3
  <1>14. /\ Len(PacketQueue(r, s)) = Len(PacketQueue(q, s)) + 1
         /\ Bytes(PacketQueue(r, s)) = Bytes(PacketQueue(q, s)) + SizeOf[s]
         /\ Waited(PacketQueue(r, s), r.last_time_updated_) =
                Waited(PacketQueue(q, s), r.last_time_updated_) + 0
    BY <1>3, <1>6, <1>8, <1>9
  <1>15. Counted(r)
    BY <1>1, <1>3, <1>5, <1>10, <1>12, <1>13, <1>14, CountedChange
  <1>16. Reached(r)
    BY <1>1, <1>3 DEF Reached
  <1>17. KeysOf(r) = KeysOf(q)
    BY <1>3 DEF KeysOf
  <1>18. WaitingIn(r) = WaitingIn(q) \cup {s}
    BY <1>3, <1>6, <1>8 DEF WaitingIn
  <1>19. ListOf(r.stream_priorities_, WaitingIn(r), KeysOf(r))
    <2>1. CASE s \in WaitingIn(q)
      <3>1. WaitingIn(r) = WaitingIn(q)
        BY <1>18, <2>1
      <3> QED
        BY <1>1, <1>3, <1>17, <2>1, <3>1
    <2>2. CASE s \notin WaitingIn(q)
      <3>1. PICK k : k = KeysOf(q)[s]
        OBVIOUS
      <3>2. k \in Keys /\ k.ssrc = s
        BY <1>5, <3>1, StreamFacts
      <3>3. WaitingIn(q) \in SUBSET Ssrcs
        BY DEF WaitingIn
      <3>4. PICK list : list = q.stream_priorities_
        OBVIOUS
      <3>5. PICK W : W = WaitingIn(q)
        OBVIOUS
      <3>6. PICK K : K = KeysOf(q)
        OBVIOUS
      <3>7. ListOf(Emplace(list, k), W \cup {s}, K)
        BY <1>1, <2>2, <3>1, <3>2, <3>3, <3>4, <3>5, <3>6, ListOfEmplace
      <3> QED
        BY <1>3, <1>17, <1>18, <2>2, <3>1, <3>4, <3>5, <3>6, <3>7
    <2> QED
      BY <2>1, <2>2
  <1> QED
    BY <1>3, <1>15, <1>16, <1>19 DEF QueueInv

LEMMA UpdateQueueTimeKeeps ==
  ASSUME NEW q, QueueInv(q), NEW t \in Nat, NEW r, r = UpdateQueueTime(q, t)
  PROVE  /\ QueueInv(r) /\ r.last_time_updated_ = t
         /\ \A x \in Ssrcs : PacketQueue(r, x) = PacketQueue(q, x) /\ SentBytes(r, x) = SentBytes(q, x)
  <1>1. QueueTyped(q) /\ Counted(q) /\ Reached(q)
        /\ ListOf(q.stream_priorities_, WaitingIn(q), KeysOf(q))
    BY DEF QueueInv
  <1>2. QueueRecord(q) /\ StreamMap(q.streams_) /\ q.last_time_updated_ \in Nat
    BY <1>1 DEF QueueTyped
  <1>3. PICK u : u = q.queue_time_sum_ + (t - q.last_time_updated_) * q.size_packets_
    OBVIOUS
  <1>4. r = [q EXCEPT !.queue_time_sum_ = u, !.last_time_updated_ = t]
    BY <1>3 DEF UpdateQueueTime
  <1>5. PICK d : d = [q EXCEPT !.queue_time_sum_ = u]
    OBVIOUS
  <1>6. d = [streams_ |-> q.streams_, stream_priorities_ |-> q.stream_priorities_,
         size_packets_ |-> q.size_packets_, size_ |-> q.size_, max_size_ |-> q.max_size_,
         queue_time_sum_ |-> u, last_time_updated_ |-> q.last_time_updated_,
         freed |-> q.freed]
    BY <1>2, <1>5 DEF QueueRecord
  <1>7. r = [streams_ |-> q.streams_, stream_priorities_ |-> q.stream_priorities_,
         size_packets_ |-> q.size_packets_, size_ |-> q.size_, max_size_ |-> q.max_size_,
         queue_time_sum_ |-> u, last_time_updated_ |-> t,
         freed |-> q.freed]
    BY <1>4, <1>5, <1>6
  <1>8. /\ r.streams_ = q.streams_ /\ r.stream_priorities_ = q.stream_priorities_
        /\ r.size_packets_ = q.size_packets_ /\ r.size_ = q.size_ /\ r.max_size_ = q.max_size_
        /\ r.queue_time_sum_ = u /\ r.last_time_updated_ = t /\ r.freed = q.freed
    BY <1>7
  <1>9. QueueTyped(r)
    BY <1>1, <1>7, <1>8 DEF QueueTyped, QueueRecord
  <1>10. \A x : PacketQueue(r, x) = PacketQueue(q, x) /\ SentBytes(r, x) = SentBytes(q, x)
    BY <1>8 DEF PacketQueue, SentBytes
  <1>11. WaitingIn(r) = WaitingIn(q) /\ KeysOf(r) = KeysOf(q)
    BY <1>10 DEF WaitingIn, KeysOf
  <1>12. Reached(r)
    BY <1>1, <1>8, <1>10 DEF Reached
  <1>13. Counted(r)
    <2>1. SumOver([s \in Ssrcs |-> Waited(PacketQueue(q, s), t)]) = u
      BY <1>1, <1>2, <1>3, TotalsOfQueue
    <2> QED
      BY <1>1, <1>8, <1>10, <2>1 DEF Counted
  <1> QED
    BY <1>1, <1>8, <1>9, <1>10, <1>11, <1>12, <1>13 DEF QueueInv

LEMMA SomeoneWaits ==
  ASSUME NEW q, QueueInv(q), ~Empty(q)
  PROVE  q.stream_priorities_ # <<>>
  <1>1. PICK N : N = [s \in Ssrcs |-> Len(PacketQueue(q, s))]
    OBVIOUS
  <1>2. q.size_packets_ = SumOver(N) /\ q.size_packets_ # 0
    BY <1>1 DEF QueueInv, Counted, Empty
  <1>3. PICK s \in Ssrcs : N[s] # 0
    BY <1>2, SumOverZero
  <1>4. Len(<<>>) = 0
    BY EmptySeq
  <1>5. s \in WaitingIn(q)
    BY <1>1, <1>3, <1>4 DEF WaitingIn
  <1>6. \E i \in DOMAIN q.stream_priorities_ : q.stream_priorities_[i].ssrc = s
    BY <1>5 DEF QueueInv, ListOf
  <1> QED
    BY <1>6

\* r is q after a packet of s has been popped.
Popped(q, r, s) ==
    /\ s \in WaitingIn(q)
    /\ Top(q).ssrc = s /\ Top(q).size = SizeOf[s]
    /\ \A x \in Ssrcs : x # s => PacketQueue(r, x) = PacketQueue(q, x) /\ SentBytes(r, x) = SentBytes(q, x)
    /\ SentBytes(r, s) >= SentBytes(q, s) + SizeOf[s]
    /\ SentBytes(r, s) >= q.max_size_ - MaxLeadingSize
    /\ \A x \in WaitingIn(q) :
           PriorityOf[x] = PriorityOf[s] => SentBytes(q, s) <= SentBytes(q, x)
    /\ r.last_time_updated_ = q.last_time_updated_

LEMMA PopKeeps ==
  ASSUME NEW q, QueueInv(q), ~Empty(q), NEW r, r = Pop(q)
  PROVE  QueueInv(r) /\ \E s \in Ssrcs : Popped(q, r, s)
  <1>1. QueueTyped(q) /\ Counted(q) /\ Reached(q)
        /\ ListOf(q.stream_priorities_, WaitingIn(q), KeysOf(q))
    BY DEF QueueInv
  <1>2. QueueRecord(q) /\ StreamMap(q.streams_) /\ q.last_time_updated_ \in Nat /\ q.max_size_ \in Nat
    BY <1>1 DEF QueueTyped
  <1>3. PICK list : list = q.stream_priorities_
    OBVIOUS
  <1>4. PICK W : W = WaitingIn(q)
    OBVIOUS
  <1>5. PICK K : K = KeysOf(q)
    OBVIOUS
  <1>6. W \in SUBSET Ssrcs /\ ListOf(list, W, K) /\ list # <<>>
    BY <1>1, <1>3, <1>4, <1>5, SomeoneWaits DEF WaitingIn
  <1>7. PICK s : s = Head(list).ssrc
    OBVIOUS
  <1>8. s \in W /\ ListOf(Tail(list), W \ {s}, K) /\ \A x \in W : ~KeyBefore(K[x], K[s])
    BY <1>6, <1>7, ListOfTail
  <1>9. s \in Ssrcs
    BY <1>6, <1>8
  <1>10. PICK f : f = q.streams_
    OBVIOUS
  <1>11. s \in DOMAIN f /\ f[s].packet_queue # <<>>
    BY <1>4, <1>8, <1>10 DEF WaitingIn, PacketQueue
  <1>12. PICK a : a = f[s].packet_queue
    OBVIOUS
  <1>13. a = PacketQueue(q, s) /\ f[s].size = SentBytes(q, s)
    BY <1>10, <1>11, <1>12 DEF PacketQueue, SentBytes
  <1>14. a \in Seq(PacketsOf(s)) /\ f[s].size \in Nat /\ a # <<>>
    BY <1>2, <1>10, <1>11, <1>12 DEF StreamMap
  <1>15. PICK t : t = Tail(a)
    OBVIOUS
  <1>16. PICK p : p = Head(a)
    OBVIOUS
  <1>17. /\ Bytes(t) = Bytes(a) - SizeOf[s]
         /\ Waited(t, q.last_time_updated_) =
                Waited(a, q.last_time_updated_) - (q.last_time_updated_ - p.enqueue_time)
         /\ Len(t) = Len(a) - 1
         /\ t \in Seq(PacketsOf(s)) /\ p \in PacketsOf(s)
    BY <1>2, <1>9, <1>14, <1>15, <1>16, TotalsOfTail
  <1>18. /\ p.ssrc = s /\ p.priority = PriorityOf[s] /\ p.size = SizeOf[s]
         /\ p.enqueue_time \in Nat /\ p.size \in Nat \ {0} /\ p.priority \in 1 .. 4
    BY <1>9, <1>17, PacketFacts
  <1>19. GetHighestPriorityStream(q) = s /\ Top(q) = p
    BY <1>3, <1>7, <1>10, <1>12, <1>16 DEF GetHighestPriorityStream, Top
  <1>20. PICK z : z = SentSize(q, f[s], p.size)
    OBVIOUS
  <1>21. /\ z \in Nat /\ z >= f[s].size + SizeOf[s] /\ z >= q.max_size_ - MaxLeadingSize
    <2>1. MaxLeadingSize \in Nat
      BY LeadAssumption
    <2>2. PICK y \in Nat : y = f[s].size + p.size
      BY <1>14, <1>18
    <2>3. z = IF y > q.max_size_ - MaxLeadingSize THEN y ELSE q.max_size_ - MaxLeadingSize
      BY <1>20, <2>2 DEF SentSize
    <2>4. z \in Nat /\ z >= y /\ z >= q.max_size_ - MaxLeadingSize
      BY <1>2, <2>1, <2>2, <2>3
    <2> QED
      BY <1>18, <2>2, <2>4
  <1>22. PICK h : h = (t # <<>>)
    OBVIOUS
  <1>23. PICK l : l = Relist(Tail(list), s, z, t)
    OBVIOUS
  <1>24. PICK st : st = [size |-> z, packet_queue |-> t, listed |-> h]
    OBVIOUS
  <1>25. PICK g : g = [f EXCEPT ![s] = st]
    OBVIOUS
  <1>26. PICK u : u = q.queue_time_sum_ - (q.last_time_updated_ - p.enqueue_time)
    OBVIOUS
  <1>27. PICK m : m = IF z > q.max_size_ THEN z ELSE q.max_size_
    OBVIOUS
  <1>28. PICK n : n = q.size_packets_ - 1
    OBVIOUS
  <1>29. PICK b : b = q.size_ - p.size
    OBVIOUS
  <1>30. r = [q EXCEPT !.stream_priorities_ = l, !.queue_time_sum_ = u, !.streams_ = g,
                       !.max_size_ = m, !.size_packets_ = n, !.size_ = b]
    <2>1. r = [q EXCEPT
            !.stream_priorities_ = Relist(Tail(@), s, z, t),
            !.queue_time_sum_ = @ - (q.last_time_updated_ - p.enqueue_time),
            !.streams_[s] = [size |-> z, packet_queue |-> t, listed |-> t # <<>>],
            !.max_size_ = IF z > @ THEN z ELSE @,
            !.size_packets_ = @ - 1,
            !.size_ = @ - p.size]
      BY <1>10, <1>12, <1>15, <1>19, <1>20 DEF Pop
    <2> QED
      BY <1>3, <1>10, <1>22, <1>23, <1>24, <1>25, <1>26, <1>27, <1>28, <1>29, <2>1
  <1>31. r = [streams_ |-> g, stream_priorities_ |-> l, size_packets_ |-> n, size_ |-> b,
              max_size_ |-> m, queue_time_sum_ |-> u,
              last_time_updated_ |-> q.last_time_updated_, freed |-> q.freed]
    <2>1. PICK d1 : d1 = [q EXCEPT !.stream_priorities_ = l]
      OBVIOUS
    <2>2. PICK d2 : d2 = [d1 EXCEPT !.queue_time_sum_ = u]
      OBVIOUS
    <2>3. PICK d3 : d3 = [d2 EXCEPT !.streams_ = g]
      OBVIOUS
    <2>4. PICK d4 : d4 = [d3 EXCEPT !.max_size_ = m]
      OBVIOUS
    <2>5. PICK d5 : d5 = [d4 EXCEPT !.size_packets_ = n]
      OBVIOUS
    <2>6. r = [d5 EXCEPT !.size_ = b]
      BY <1>30, <2>1, <2>2, <2>3, <2>4, <2>5
    <2>7. d1 = [streams_ |-> f, stream_priorities_ |-> l, size_packets_ |-> q.size_packets_,
                size_ |-> q.size_, max_size_ |-> q.max_size_, queue_time_sum_ |-> q.queue_time_sum_,
                last_time_updated_ |-> q.last_time_updated_, freed |-> q.freed]
      BY <1>2, <1>10, <2>1 DEF QueueRecord
    <2>8. d2 = [streams_ |-> f, stream_priorities_ |-> l, size_packets_ |-> q.size_packets_,
                size_ |-> q.size_, max_size_ |-> q.max_size_, queue_time_sum_ |-> u,
                last_time_updated_ |-> q.last_time_updated_, freed |-> q.freed]
      BY <2>2, <2>7
    <2>9. d3 = [streams_ |-> g, stream_priorities_ |-> l, size_packets_ |-> q.size_packets_,
                size_ |-> q.size_, max_size_ |-> q.max_size_, queue_time_sum_ |-> u,
                last_time_updated_ |-> q.last_time_updated_, freed |-> q.freed]
      BY <2>3, <2>8
    <2>10. d4 = [streams_ |-> g, stream_priorities_ |-> l, size_packets_ |-> q.size_packets_,
                size_ |-> q.size_, max_size_ |-> m, queue_time_sum_ |-> u,
                last_time_updated_ |-> q.last_time_updated_, freed |-> q.freed]
      BY <2>4, <2>9
    <2>11. d5 = [streams_ |-> g, stream_priorities_ |-> l, size_packets_ |-> n,
                size_ |-> q.size_, max_size_ |-> m, queue_time_sum_ |-> u,
                last_time_updated_ |-> q.last_time_updated_, freed |-> q.freed]
      BY <2>5, <2>10
    <2> QED
      BY <2>6, <2>11
  <1>32. /\ r.streams_ = g /\ r.stream_priorities_ = l /\ r.size_packets_ = n /\ r.size_ = b
         /\ r.max_size_ = m /\ r.queue_time_sum_ = u
         /\ r.last_time_updated_ = q.last_time_updated_ /\ r.freed = q.freed
    BY <1>31
  <1>33. /\ DOMAIN g = DOMAIN f /\ g = [x \in DOMAIN g |-> g[x]]
         /\ g[s] = st /\ \A x \in DOMAIN f : x # s => g[x] = f[x]
    <2>1. f = [x \in DOMAIN f |-> f[x]]
      BY <1>2, <1>10 DEF StreamMap
    <2> QED
      BY <1>11, <1>25, <2>1
  <1>34. StreamMap(g)
    <2>1. DOMAIN g \subseteq Ssrcs
      BY <1>2, <1>10, <1>33 DEF StreamMap
    <2>2. ASSUME NEW x \in DOMAIN g
          PROVE  /\ g[x] = [size |-> g[x].size, packet_queue |-> g[x].packet_queue,
                            listed |-> g[x].listed]
                 /\ g[x].size \in Nat
                 /\ g[x].packet_queue \in Seq(PacketsOf(x))
                 /\ g[x].listed = (g[x].packet_queue # <<>>)
      <3>1. CASE x = s
        <4>1. st.size = z /\ st.packet_queue = t /\ st.listed = h
          BY <1>24
        <4>2. g[x] = st
          BY <1>33, <3>1
        <4>3. g[x] = [size |-> g[x].size, packet_queue |-> g[x].packet_queue, listed |-> g[x].listed]
          BY <1>24, <4>1, <4>2
        <4>4. g[x].listed = (g[x].packet_queue # <<>>)
          BY <1>22, <4>1, <4>2, Zenon
        <4> QED
          BY <1>17, <1>21, <3>1, <4>1, <4>2, <4>3, <4>4
      <3>2. CASE x # s
        <4>1. x \in DOMAIN f /\ g[x] = f[x]
          BY <1>33, <3>2
        <4> QED
          BY <1>2, <1>10, <4>1 DEF StreamMap
      <3> QED
        BY <3>1, <3>2
    <2> QED
      BY <1>33, <2>1, <2>2 DEF StreamMap
  <1>35. m \in Nat /\ m >= z /\ m >= q.max_size_
    BY <1>2, <1>21, <1>27
  <1>36. QueueTyped(r)
    BY <1>1, <1>2, <1>31, <1>32, <1>34, <1>35 DEF QueueTyped, QueueRecord
  <1>37. PacketQueue(r, s) = t /\ SentBytes(r, s) = z
    <2>1. g[s].packet_queue = t /\ g[s].size = z
      BY <1>24, <1>33
    <2>2. s \in DOMAIN r.streams_ /\ r.streams_[s] = g[s]
      BY <1>11, <1>32, <1>33
    <2> QED
      BY <2>1, <2>2 DEF PacketQueue, SentBytes
  <1>38. \A x \in Ssrcs : x # s => PacketQueue(r, x) = PacketQueue(q, x) /\ SentBytes(r, x) = SentBytes(q, x)
    BY <1>10, <1>32, <1>33 DEF PacketQueue, SentBytes
  <1>39. Counted(r)
    <2>1. PICK w \in Int : w = - (q.last_time_updated_ - p.enqueue_time)
      BY <1>2, <1>18
    <2>2. PICK c \in Int : c = - SizeOf[s]
      BY <1>18
    <2>3. PICK e \in Int : e = -1
      OBVIOUS
    <2>4. q.size_packets_ \in Int /\ q.size_ \in Int /\ q.queue_time_sum_ \in Int
      BY <1>1, <1>2, TotalsOfQueue
    <2>5. Bytes(a) \in Int /\ Waited(a, q.last_time_updated_) \in Int /\ Len(a) \in Int
      BY <1>2, <1>9, <1>14, TotalsType
    <2>6. Len(PacketQueue(r, s)) = Len(PacketQueue(q, s)) + e
      BY <1>13, <1>17, <1>37, <2>3, <2>5
    <2>7. Bytes(PacketQueue(r, s)) = Bytes(PacketQueue(q, s)) + c
      BY <1>13, <1>17, <1>18, <1>37, <2>2, <2>5
    <2>8. Waited(PacketQueue(r, s), r.last_time_updated_) =
              Waited(PacketQueue(q, s), r.last_time_updated_) + w
      BY <1>2, <1>13, <1>17, <1>18, <1>32, <1>37, <2>1, <2>5
    <2>9. r.size_packets_ = q.size_packets_ + e
      BY <1>28, <1>32, <2>3, <2>4
    <2>10. r.size_ = q.size_ + c
      BY <1>18, <1>29, <1>32, <2>2, <2>4
    <2>11. r.queue_time_sum_ =
               q.queue_time_sum_ + (r.last_time_updated_ - q.last_time_updated_) * q.size_packets_ + w
      <3>1. (q.last_time_updated_ - q.last_time_updated_) * q.size_packets_ = 0
        <4>1. q.last_time_updated_ - q.last_time_updated_ = 0
          BY <1>2
        <4>2. 0 * q.size_packets_ = 0
          BY <2>4
        <4> QED
          BY <4>1, <4>2
      <3>2. u = q.queue_time_sum_ + 0 + w
        BY <1>2, <1>18, <1>26, <2>1, <2>4
      <3> QED
        BY <1>32, <3>1, <3>2
    <2>12. r.last_time_updated_ \in Nat
      BY <1>2, <1>32
    <2>13. StreamMap(r.streams_)
      BY <1>32, <1>34
    <2> QED
      BY <1>1, <1>2, <1>9, <1>38, <2>6, <2>7, <2>8, <2>9, <2>10, <2>11, <2>12, <2>13, CountedChange
  <1>40. Reached(r)
    <2>1. ASSUME NEW x \in Ssrcs PROVE SentBytes(r, x) <= r.max_size_
      <3>1. CASE x = s
        BY <1>21, <1>32, <1>35, <1>37, <3>1
      <3>2. CASE x # s
        <4>1. SentBytes(r, x) = SentBytes(q, x) /\ SentBytes(q, x) <= q.max_size_
          BY <1>1, <1>38, <3>2 DEF Reached
        <4>2. SentBytes(q, x) \in Nat
          BY <1>2, StreamFacts
        <4> QED
          BY <1>2, <1>32, <1>35, <4>1, <4>2
      <3> QED
        BY <3>1, <3>2
    <2> QED
      BY <2>1 DEF Reached
  <1>41. PICK L : L = KeysOf(r)
    OBVIOUS
  <1>42. /\ \A x \in W \ {s} : L[x] = K[x]
         /\ L[s] = Key(PriorityOf[s], z, s)
    BY <1>5, <1>6, <1>9, <1>37, <1>38, <1>41 DEF KeysOf
  <1>43. ListOf(Tail(list), W \ {s}, L)
    BY <1>8, <1>42, ListOfSame
  <1>44. ListOf(r.stream_priorities_, WaitingIn(r), KeysOf(r))
    <2>1. CASE t = <<>>
      <3>1. WaitingIn(r) = W \ {s}
        BY <1>4, <1>37, <1>38, <2>1 DEF WaitingIn
      <3>2. l = Tail(list)
        BY <1>23, <2>1 DEF Relist
      <3> QED
        BY <1>32, <1>41, <1>43, <3>1, <3>2
    <2>2. CASE t # <<>>
      <3>1. WaitingIn(r) = W
        BY <1>4, <1>8, <1>9, <1>37, <1>38, <2>2 DEF WaitingIn
      <3>2. Head(t) \in PacketsOf(s)
        BY <1>17, <2>2, HeadTailProperties
      <3>3. Head(t).priority = PriorityOf[s]
        BY <1>9, <3>2, PacketFacts
      <3>4. PICK k : k = Key(PriorityOf[s], z, s)
        OBVIOUS
      <3>5. k \in Keys /\ k.ssrc = s
        BY <1>9, <1>18, <1>21, <3>4 DEF Key, Keys
      <3>6. l = Emplace(Tail(list), k)
        BY <1>23, <2>2, <3>3, <3>4 DEF Relist
      <3>7. PICK V : V = W \ {s}
        OBVIOUS
      <3>8. PICK tl : tl = Tail(list)
        OBVIOUS
      <3>9. V \in SUBSET Ssrcs /\ s \notin V /\ V \cup {s} = W
        BY <1>6, <1>8, <3>7
      <3>10. L[s] = k /\ \A x \in V : L[x] = L[x]
        BY <1>42, <3>4
      <3>11. ListOf(Emplace(tl, k), V \cup {s}, L)
        BY <1>9, <1>43, <3>5, <3>7, <3>8, <3>9, <3>10, ListOfEmplace
      <3> QED
        BY <1>32, <1>41, <3>1, <3>6, <3>8, <3>9, <3>11
    <2> QED
      BY <2>1, <2>2
  <1>45. QueueInv(r)
    BY <1>36, <1>39, <1>40, <1>44 DEF QueueInv
  <1>46. ASSUME NEW x \in W, PriorityOf[x] = PriorityOf[s]
         PROVE  SentBytes(q, s) <= SentBytes(q, x)
    <2>1. x \in Ssrcs
      BY <1>6
    <2>2. /\ K[x].priority = PriorityOf[x] /\ K[x].size = SentBytes(q, x)
          /\ K[s].priority = PriorityOf[s] /\ K[s].size = SentBytes(q, s)
          /\ SentBytes(q, x) \in Nat /\ SentBytes(q, s) \in Nat
      BY <1>2, <1>5, <1>9, <2>1, StreamFacts
    <2>3. ~KeyBefore(K[x], K[s])
      BY <1>8
    <2> QED
      BY <1>46, <2>2, <2>3 DEF KeyBefore
  <1>47. Popped(q, r, s)
    BY <1>4, <1>8, <1>13, <1>18, <1>19, <1>21, <1>32, <1>37, <1>38, <1>46 DEF Popped
  <1> QED
    BY <1>9, <1>45, <1>47

LEMMA QueueInitially ==
  ASSUME NEW q, q = Queue(0)
  PROVE  /\ QueueInv(q) /\ q.last_time_updated_ = 0
         /\ \A x \in Ssrcs : PacketQueue(q, x) = <<>> /\ SentBytes(q, x) = 0
  <1>1. PICK f : f = [s \in {} |-> NewStream]
    OBVIOUS
  <1>2. q = [streams_ |-> f, stream_priorities_ |-> <<>>, size_packets_ |-> 0, size_ |-> 0,
             max_size_ |-> MaxLeadingSize, queue_time_sum_ |-> 0, last_time_updated_ |-> 0,
             freed |-> {}]
    BY <1>1 DEF Queue
  <1>3. /\ q.streams_ = f /\ q.stream_priorities_ = <<>> /\ q.size_packets_ = 0 /\ q.size_ = 0
        /\ q.max_size_ = MaxLeadingSize /\ q.queue_time_sum_ = 0 /\ q.last_time_updated_ = 0
        /\ q.freed = {}
    BY <1>2
  <1>4. DOMAIN f = {} /\ f = [s \in DOMAIN f |-> f[s]]
    BY <1>1
  <1>5. StreamMap(f)
    BY <1>4 DEF StreamMap
  <1>6. MaxLeadingSize \in Nat
    BY LeadAssumption
  <1>7. QueueTyped(q)
    BY <1>2, <1>3, <1>5, <1>6 DEF QueueTyped, QueueRecord
  <1>8. \A x \in Ssrcs : PacketQueue(q, x) = <<>> /\ SentBytes(q, x) = 0
    BY <1>3, <1>4 DEF PacketQueue, SentBytes
  <1>9. WaitingIn(q) = {}
    BY <1>8 DEF WaitingIn
  <1>10. ListOf(<<>>, {}, KeysOf(q))
    BY EmptySeq DEF ListOf, Sorted, Distinct
  <1>11. Reached(q)
    BY <1>3, <1>6, <1>8 DEF Reached
  <1>12. Counted(q)
    <2>1. PICK N : N = [s \in Ssrcs |-> Len(PacketQueue(q, s))]
      OBVIOUS
    <2>2. PICK B : B = [s \in Ssrcs |-> Bytes(PacketQueue(q, s))]
      OBVIOUS
    <2>3. PICK F : F = [s \in Ssrcs |-> Waited(PacketQueue(q, s), q.last_time_updated_)]
      OBVIOUS
    <2>4. \A s \in Ssrcs : N[s] = 0 /\ B[s] = 0 /\ F[s] = 0
      BY <1>8, <2>1, <2>2, <2>3, TotalsOfNone
    <2>5. SumOver(N) = 0
      BY <2>4, SumOverZero
    <2>6. SumOver(B) = 0
      BY <2>4, SumOverZero
    <2>7. SumOver(F) = 0
      BY <2>4, SumOverZero
    <2> QED
      BY <1>3, <2>1, <2>2, <2>3, <2>5, <2>6, <2>7 DEF Counted
  <1> QED
    BY <1>3, <1>7, <1>8, <1>9, <1>10, <1>11, <1>12 DEF QueueInv

--------------------------------------------------------------------------------
(* Fair shares. *)

(* What a sent while b waited is bounded, and so is how far a's bytes can still  *)
(* be behind b's: a goes on overtaking b only while it has sent less.            *)
FairInv(q, o) ==
    /\ o = [a \in Ssrcs |-> [b \in Ssrcs |-> o[a][b]]]
    /\ \A a, b \in Ssrcs : o[a][b] \in Nat
    /\ \A a, b \in Ssrcs : PriorityOf[a] = PriorityOf[b] =>
           \/ o[a][b] = 0
           \/ /\ b \in WaitingIn(q)
              /\ o[a][b] <= SizeOf[a] + MaxLeadingSize + SentBytes(q, a) - SentBytes(q, b)
              /\ o[a][b] <= MaxLeadingSize + 2 * SizeOf[a]

(* More packets waiting, and time passing, take nothing away. *)
LEMMA FairKept ==
  ASSUME NEW q, NEW r, NEW o, FairInv(q, o),
         \A x \in Ssrcs : SentBytes(r, x) = SentBytes(q, x), WaitingIn(q) \subseteq WaitingIn(r)
  PROVE  FairInv(r, o)
  BY DEF FairInv

LEMMA FairPop ==
  ASSUME NEW q, NEW r, NEW s \in Ssrcs, QueueInv(q), QueueInv(r), Popped(q, r, s),
         NEW o, FairInv(q, o), NEW n,
         n = [a \in Ssrcs |-> [b \in Ssrcs |->
                 IF b = s \/ b \notin WaitingIn(q) THEN 0
                 ELSE o[a][b] + (IF a = s THEN SizeOf[s] ELSE 0)]]
  PROVE  FairInv(r, n)
  <1>1. n = [a \in Ssrcs |-> [b \in Ssrcs |-> n[a][b]]]
    OBVIOUS
  <1>2. ASSUME NEW a \in Ssrcs, NEW b \in Ssrcs
        PROVE  n[a][b] = IF b = s \/ b \notin WaitingIn(q) THEN 0
                         ELSE o[a][b] + (IF a = s THEN SizeOf[s] ELSE 0)
    OBVIOUS
  <1>3. ASSUME NEW a \in Ssrcs, NEW b \in Ssrcs
        PROVE  /\ n[a][b] \in Nat
               /\ PriorityOf[a] = PriorityOf[b] =>
                      \/ n[a][b] = 0
                      \/ /\ b \in WaitingIn(r)
                         /\ n[a][b] <= SizeOf[a] + MaxLeadingSize + SentBytes(r, a) - SentBytes(r, b)
                         /\ n[a][b] <= MaxLeadingSize + 2 * SizeOf[a]
    <2>1. CASE b = s \/ b \notin WaitingIn(q)
      <3>1. n[a][b] = 0
        BY <1>2, <2>1
      <3> QED
        BY <3>1
    <2>2. CASE b # s /\ b \in WaitingIn(q)
      <3>1. o[a][b] \in Nat /\ SizeOf[a] \in Nat /\ SizeOf[s] \in Nat /\ MaxLeadingSize \in Nat
        BY PacerAssumption, LeadAssumption DEF FairInv
      <3>2. StreamMap(q.streams_) /\ StreamMap(r.streams_) /\ q.max_size_ \in Nat
        BY DEF QueueInv, QueueTyped
      <3>3. /\ SentBytes(q, a) \in Nat /\ SentBytes(q, b) \in Nat
            /\ SentBytes(r, a) \in Nat /\ SentBytes(r, b) \in Nat
        BY <3>2, StreamFacts
      <3>4. SentBytes(r, b) = SentBytes(q, b) /\ b \in WaitingIn(r)
        BY <2>2 DEF Popped, WaitingIn
      <3>5. CASE a # s
        <4>1. n[a][b] = o[a][b]
          BY <1>2, <2>2, <3>1, <3>5
        <4>2. SentBytes(r, a) = SentBytes(q, a)
          BY <3>5 DEF Popped
        <4>3. PriorityOf[a] = PriorityOf[b] =>
                  \/ o[a][b] = 0
                  \/ /\ o[a][b] <= SizeOf[a] + MaxLeadingSize + SentBytes(q, a) - SentBytes(q, b)
                     /\ o[a][b] <= MaxLeadingSize + 2 * SizeOf[a]
          BY DEF FairInv
        <4> QED
          BY <3>1, <3>4, <4>1, <4>2, <4>3
      <3>6. CASE a = s
        <4>1. n[a][b] = o[a][b] + SizeOf[a]
          BY <1>2, <2>2, <3>6
        <4>2. n[a][b] \in Nat
          BY <3>1, <4>1
        <4>3. SUFFICES ASSUME PriorityOf[a] = PriorityOf[b]
                       PROVE  /\ n[a][b] <= SizeOf[a] + MaxLeadingSize + SentBytes(r, a) - SentBytes(r, b)
                              /\ n[a][b] <= MaxLeadingSize + 2 * SizeOf[a]
          BY <3>4, <4>2
        <4>4. /\ SentBytes(r, a) >= SentBytes(q, a) + SizeOf[a]
              /\ SentBytes(r, a) >= q.max_size_ - MaxLeadingSize
              /\ SentBytes(q, a) <= SentBytes(q, b)
          BY <2>2, <3>6, <4>3 DEF Popped
        <4>5. SentBytes(q, b) <= q.max_size_
          BY DEF QueueInv, Reached
        <4>6. \/ o[a][b] = 0
              \/ o[a][b] <= SizeOf[a] + MaxLeadingSize + SentBytes(q, a) - SentBytes(q, b)
          BY <4>3 DEF FairInv
        <4> QED
          BY <3>1, <3>2, <3>3, <3>4, <4>1, <4>4, <4>5, <4>6
      <3> QED
        BY <3>5, <3>6
    <2> QED
      BY <2>1, <2>2
  <1> QED
    BY <1>1, <1>3 DEF FairInv

--------------------------------------------------------------------------------
(* The budget. *)

Budgets == [target_bitrate_kbps_ : Nat, bytes_remaining_ : Int]

(* What the meter holds and the budget still allows is within one round's grant, *)
(* or within two rounds' less what has leaked since the last round, tau ago.     *)
RateInv(b, m, tau) ==
    /\ b.target_bitrate_kbps_ \in {0, PacingBitrate}
    /\ b.target_bitrate_kbps_ = 0 => b.bytes_remaining_ = 0
    /\ 8 * b.bytes_remaining_ <= 30 * PacingBitrate
    /\ \E s \in Ssrcs : b.bytes_remaining_ > - SizeOf[s]
    /\ \/ m + 8 * b.bytes_remaining_ <= 30 * PacingBitrate
       \/ m + 8 * b.bytes_remaining_ + tau * PacingBitrate <= 60 * PacingBitrate

LEMMA Eighth ==
  ASSUME NEW x \in Nat
  PROVE  x \div 8 \in Nat /\ 8 * (x \div 8) <= x
  OBVIOUS

LEMMA ProductGrows ==
  ASSUME NEW x \in Nat, NEW y \in Nat, NEW c \in Nat, x <= y
  PROVE  x * c \in Nat /\ x * c <= y * c
  <1>1. PICK d \in Nat : y = x + d
    <2>1. y - x \in Nat /\ y = x + (y - x)
      OBVIOUS
    <2> QED
      BY <2>1
  <1>2. (x + d) * c = x * c + d * c /\ x * c \in Nat /\ d * c \in Nat
    OBVIOUS
  <1> QED
    BY <1>1, <1>2

LEMMA MaxBytesType ==
  ASSUME NEW k \in Nat
  PROVE  MaxBytesInBudget(k) \in Nat
  <1>1. k * 500 \in Nat
    OBVIOUS
  <1> QED
    BY <1>1, Eighth DEF MaxBytesInBudget, WindowMs

LEMMA SetTargetFacts ==
  ASSUME NEW b \in Budgets, NEW k \in Nat, NEW c, c = SetTargetBitrateKbps(b, k)
  PROVE  /\ c \in Budgets /\ c.target_bitrate_kbps_ = k
         /\ b.bytes_remaining_ >= 0 => c.bytes_remaining_ >= 0
         /\ b.bytes_remaining_ < 0 =>
                \/ c.bytes_remaining_ = b.bytes_remaining_
                \/ c.bytes_remaining_ = - MaxBytesInBudget(k) /\ b.bytes_remaining_ < c.bytes_remaining_
  <1>1. PICK x \in Int : x = b.bytes_remaining_
    BY DEF Budgets
  <1>2. PICK y \in Nat : y = MaxBytesInBudget(k)
    BY MaxBytesType
  <1>3. PICK z : z = Least(Most(-y, x), y)
    OBVIOUS
  <1>4. c = [target_bitrate_kbps_ |-> k, bytes_remaining_ |-> z]
    BY <1>1, <1>2, <1>3 DEF SetTargetBitrateKbps
  <1>5. z \in Int /\ (x >= 0 => z >= 0) /\ (x < 0 => z = x \/ (z = -y /\ x < z))
    BY <1>3 DEF Least, Most
  <1> QED
    BY <1>1, <1>2, <1>4, <1>5 DEF Budgets

LEMMA IncreaseFacts ==
  ASSUME NEW b \in Budgets, NEW e \in Nat, NEW c, c = IncreaseBudget(b, e),
         NEW k \in Nat, k = b.target_bitrate_kbps_, NEW y \in Nat, y = (e * k) \div 8
  PROVE  /\ c \in Budgets /\ c.target_bitrate_kbps_ = k
         /\ c.bytes_remaining_ <= y
         /\ b.bytes_remaining_ >= 0 => c.bytes_remaining_ >= 0
         /\ b.bytes_remaining_ < 0 =>
                /\ c.bytes_remaining_ >= b.bytes_remaining_
                /\ c.bytes_remaining_ <= b.bytes_remaining_ + y
  <1>1. PICK x \in Int : x = b.bytes_remaining_
    BY DEF Budgets
  <1>2. PICK m \in Nat : m = MaxBytesInBudget(k)
    BY MaxBytesType
  <1>3. PICK z : z = Least(IF x < 0 THEN x + y ELSE y, m)
    OBVIOUS
  <1>4. c = [b EXCEPT !.bytes_remaining_ = z]
    BY <1>1, <1>2, <1>3 DEF IncreaseBudget
  <1>5. /\ z \in Int /\ z <= y /\ (x >= 0 => z >= 0)
        /\ x < 0 => z >= x /\ z <= x + y
    BY <1>3 DEF Least
  <1>6. c \in Budgets /\ c.target_bitrate_kbps_ = k /\ c.bytes_remaining_ = z
    BY <1>4, <1>5 DEF Budgets
  <1> QED
    BY <1>1, <1>5, <1>6

LEMMA UseFacts ==
  ASSUME NEW b \in Budgets, NEW n \in Nat, NEW c, c = UseBudget(b, n)
  PROVE  /\ c \in Budgets /\ c.target_bitrate_kbps_ = b.target_bitrate_kbps_
         /\ b.bytes_remaining_ > 0 /\ n <= MaxBytesInBudget(b.target_bitrate_kbps_) =>
                c.bytes_remaining_ = b.bytes_remaining_ - n
  <1>1. PICK x \in Int : x = b.bytes_remaining_
    BY DEF Budgets
  <1>2. b.target_bitrate_kbps_ \in Nat
    BY DEF Budgets
  <1>3. PICK m \in Nat : m = MaxBytesInBudget(b.target_bitrate_kbps_)
    BY <1>2, MaxBytesType
  <1>4. PICK z : z = Most(x - n, - m)
    OBVIOUS
  <1>5. c = [b EXCEPT !.bytes_remaining_ = z]
    BY <1>1, <1>3, <1>4 DEF UseBudget
  <1>6. z \in Int /\ (x > 0 /\ n <= m => z = x - n)
    BY <1>4 DEF Most
  <1>7. c \in Budgets /\ c.target_bitrate_kbps_ = b.target_bitrate_kbps_ /\ c.bytes_remaining_ = z
    BY <1>5, <1>6 DEF Budgets
  <1> QED
    BY <1>1, <1>3, <1>6, <1>7

(* A round, however late, grants at most kMaxProcessingInterval. *)
LEMMA RateRound ==
  ASSUME NEW b \in Budgets, NEW m \in Nat, NEW tau \in Nat, RateInv(b, m, tau), NEW c,
         c = UpdateBudgetWithElapsedTime(SetTargetBitrateKbps(b, PacingBitrate), Least(tau, 2000))
  PROVE  RateInv(c, m, 0)
  <1>1. PICK R \in Nat : R = PacingBitrate
    BY PacerAssumption
  <1>2. PICK d : d = SetTargetBitrateKbps(b, R)
    OBVIOUS
  <1>3. PICK x \in Int : x = b.bytes_remaining_
    BY DEF Budgets
  <1>4. PICK s \in Ssrcs : x > - SizeOf[s]
    BY <1>3 DEF RateInv
  <1>5. SizeOf[s] \in Nat \ {0} /\ SizeOf[s] <= MaxBytesInBudget(R) /\ MaxBytesInBudget(R) \in Nat
    <2>1. SizeOf[s] <= MaxBytesInBudget(R)
      BY <1>1, SizeAssumption DEF MaxBytesInBudget, WindowMs
    <2> QED
      BY <2>1, PacerAssumption, MaxBytesType
  <1>6. /\ d \in Budgets /\ d.target_bitrate_kbps_ = R
        /\ x >= 0 => d.bytes_remaining_ >= 0
        /\ x < 0 => \/ d.bytes_remaining_ = x
                    \/ d.bytes_remaining_ = - MaxBytesInBudget(R) /\ x < d.bytes_remaining_
    BY <1>2, <1>3, SetTargetFacts
  <1>7. PICK w \in Int : w = d.bytes_remaining_
    BY <1>6 DEF Budgets
  <1>8. (x >= 0 => w >= 0) /\ (x < 0 => w = x)
    BY <1>4, <1>5, <1>6, <1>7
  <1>9. PICK e \in Nat : e = Least(Least(tau, 2000), 30) /\ e <= tau /\ e <= 30
    BY DEF Least
  <1>10. c = IncreaseBudget(d, e)
    BY <1>1, <1>2, <1>9 DEF UpdateBudgetWithElapsedTime, MaxProcessingInterval
  <1>11. e * R \in Nat /\ e * R <= tau * R /\ e * R <= 30 * R /\ tau * R \in Nat
    <2>1. e * R \in Nat /\ e * R <= tau * R
      BY <1>9, ProductGrows
    <2>2. e * R <= 30 * R
      BY <1>9, ProductGrows
    <2>3. tau * R \in Nat
      OBVIOUS
    <2> QED
      BY <2>1, <2>2, <2>3
  <1>12. PICK y \in Nat : y = (e * R) \div 8 /\ 8 * y <= e * R
    BY <1>11, Eighth
  <1>13. /\ c \in Budgets /\ c.target_bitrate_kbps_ = R /\ c.bytes_remaining_ <= y
         /\ w >= 0 => c.bytes_remaining_ >= 0
         /\ w < 0 => c.bytes_remaining_ >= w /\ c.bytes_remaining_ <= w + y
    BY <1>6, <1>7, <1>10, <1>12, IncreaseFacts
  <1>14. PICK z \in Int : z = c.bytes_remaining_
    BY <1>13 DEF Budgets
  <1>15. z > - SizeOf[s]
    BY <1>4, <1>5, <1>8, <1>13, <1>14
  <1>16. \/ m + 8 * x <= 30 * R
         \/ m + 8 * x + tau * R <= 60 * R
    BY <1>1, <1>3 DEF RateInv
  <1>17. PICK er \in Nat : er = e * R
    BY <1>11
  <1>18. PICK tr \in Nat : tr = tau * R
    BY <1>11
  <1>19. 8 * z <= 30 * R
    BY <1>11, <1>12, <1>13, <1>14, <1>17
  <1>20. m + 8 * z <= 60 * R
    <2>1. er <= tr /\ er <= 30 * R /\ 8 * y <= er
      BY <1>11, <1>12, <1>17, <1>18
    <2>2. m + 8 * x <= 30 * R \/ m + 8 * x + tr <= 60 * R
      BY <1>16, <1>18
    <2>3. CASE x >= 0
      <3>1. z <= y
        BY <1>13, <1>14
      <3> QED
        BY <2>1, <2>2, <2>3, <3>1
    <2>4. CASE x < 0
      <3>1. z <= x + y
        BY <1>8, <1>13, <1>14, <2>4
      <3> QED
        BY <2>1, <2>2, <3>1
    <2> QED
      BY <2>3, <2>4
  <1>21. m + 8 * z + 0 * R <= 60 * R
    <2>1. 0 * R = 0
      OBVIOUS
    <2> QED
      BY <1>20, <2>1
  <1>22. c.target_bitrate_kbps_ # 0
    BY <1>1, <1>13, PacerAssumption
  <1> QED
    BY <1>1, <1>13, <1>14, <1>15, <1>19, <1>21, <1>22 DEF RateInv

LEMMA RateSend ==
  ASSUME NEW b \in Budgets, NEW m \in Nat, NEW tau \in Nat, RateInv(b, m, tau), NEW s \in Ssrcs,
         b.bytes_remaining_ > 0, NEW c, c = UseBudget(b, SizeOf[s])
  PROVE  RateInv(c, m + SizeOf[s] * 8, tau)
  <1>1. PICK R \in Nat : R = PacingBitrate
    BY PacerAssumption
  <1>2. PICK x \in Int : x = b.bytes_remaining_
    BY DEF Budgets
  <1>3. PICK n \in Nat \ {0} : n = SizeOf[s]
    BY PacerAssumption
  <1>4. b.target_bitrate_kbps_ = R
    BY <1>1 DEF RateInv
  <1>5. n <= MaxBytesInBudget(R)
    BY <1>1, <1>3, SizeAssumption DEF MaxBytesInBudget, WindowMs
  <1>6. c.target_bitrate_kbps_ = R /\ c.bytes_remaining_ = x - n
    BY <1>2, <1>3, <1>4, <1>5, UseFacts
  <1>7. PICK tr \in Nat : tr = tau * R
    OBVIOUS
  <1>8. 8 * x <= 30 * R /\ (m + 8 * x <= 30 * R \/ m + 8 * x + tr <= 60 * R)
    BY <1>1, <1>2, <1>7 DEF RateInv
  <1>9. /\ 8 * (x - n) <= 30 * R /\ x - n > - n
        /\ \/ (m + n * 8) + 8 * (x - n) <= 30 * R
           \/ (m + n * 8) + 8 * (x - n) + tr <= 60 * R
    BY <1>2, <1>8
  <1>10. c.target_bitrate_kbps_ # 0
    BY <1>1, <1>6, PacerAssumption
  <1> QED
    BY <1>1, <1>3, <1>6, <1>7, <1>9, <1>10 DEF RateInv

LEMMA RateTick ==
  ASSUME NEW b \in Budgets, NEW m \in Nat, NEW tau \in Nat, RateInv(b, m, tau), NEW d \in Nat
  PROVE  RateInv(b, Most(0, m - d * PacingBitrate), tau + d)
  <1>1. PICK R \in Nat : R = PacingBitrate
    BY PacerAssumption
  <1>2. PICK x \in Int : x = b.bytes_remaining_
    BY DEF Budgets
  <1>3. PICK dr \in Nat : dr = d * R
    OBVIOUS
  <1>4. PICK tr \in Nat : tr = tau * R
    OBVIOUS
  <1>5. (tau + d) * R = tr + dr
    BY <1>3, <1>4
  <1>6. 8 * x <= 30 * R /\ (m + 8 * x <= 30 * R \/ m + 8 * x + tr <= 60 * R)
    BY <1>1, <1>2, <1>4 DEF RateInv
  <1>7. PICK n : n = Most(0, m - dr)
    OBVIOUS
  <1>8. n + 8 * x <= 30 * R \/ n + 8 * x + (tr + dr) <= 60 * R
    BY <1>6, <1>7 DEF Most
  <1> QED
    BY <1>1, <1>2, <1>3, <1>5, <1>7, <1>8 DEF RateInv

LEMMA RateBound ==
  ASSUME NEW b \in Budgets, NEW m \in Nat, NEW tau \in Nat, RateInv(b, m, tau)
  PROVE  \E s \in Ssrcs : m < 2 * MaxProcessingInterval * PacingBitrate + 8 * SizeOf[s]
  <1>1. PICK R \in Nat : R = PacingBitrate
    BY PacerAssumption
  <1>2. PICK x \in Int : x = b.bytes_remaining_
    BY DEF Budgets
  <1>3. PICK s \in Ssrcs : x > - SizeOf[s]
    BY <1>2 DEF RateInv
  <1>4. SizeOf[s] \in Nat
    BY PacerAssumption
  <1>5. PICK tr \in Nat : tr = tau * R
    OBVIOUS
  <1>6. m + 8 * x <= 30 * R \/ m + 8 * x + tr <= 60 * R
    BY <1>1, <1>2, <1>5 DEF RateInv
  <1>7. m < 2 * 30 * R + 8 * SizeOf[s]
    BY <1>3, <1>4, <1>6
  <1> QED
    BY <1>1, <1>7 DEF MaxProcessingInterval

--------------------------------------------------------------------------------
(* The rate a round aims at. *)

LEMMA SumOverNat ==
  ASSUME NEW f, \A s \in Ssrcs : f[s] \in Nat
  PROVE  SumOver(f) \in Nat
  <1>1. PICK n \in Nat : n = Cardinality(Ssrcs)
    BY NumberingFacts
  <1> DEFINE F == [i \in 1 .. n |-> f[Numbering[i]]]
             T == {k \in Nat : SumTo(F, k) \in Nat}
  <1>2. \A i \in 1 .. n : F[i] \in Nat
    BY <1>1, NumberingFacts
  <1>3. SumOver(f) = SumTo(F, n)
    BY <1>1 DEF SumOver
  <1> HIDE DEF F
  <1>4. 0 \in T
    BY SumRecursion
  <1>5. ASSUME NEW k \in 0 .. (n - 1), k \in T
        PROVE  k + 1 \in T
    <2>1. SumTo(F, k + 1) = SumTo(F, k) + F[k + 1]
      BY SumRecursion
    <2>2. F[k + 1] \in Nat
      BY <1>2
    <2> QED
      BY <1>5, <2>1, <2>2
  <1> HIDE DEF T
  <1>6. n \in 0 .. n
    OBVIOUS
  <1>7. n \in T
    BY <1>4, <1>5, <1>6, Induction
  <1> QED
    BY <1>3, <1>7 DEF T

LEMMA PacketsCounted ==
  ASSUME NEW q, QueueInv(q)
  PROVE  q.size_packets_ \in Nat /\ q.size_ \in Int /\ q.queue_time_sum_ \in Int
  <1>1. PICK N : N = [s \in Ssrcs |-> Len(PacketQueue(q, s))]
    OBVIOUS
  <1>2. q.size_packets_ = SumOver(N)
    BY <1>1 DEF QueueInv, Counted
  <1>3. StreamMap(q.streams_) /\ Counted(q) /\ q.last_time_updated_ \in Nat
    BY DEF QueueInv, QueueTyped
  <1>4. \A s \in Ssrcs : PacketQueue(q, s) \in Seq(PacketsOf(s))
    BY <1>3, StreamFacts
  <1>5. \A s \in Ssrcs : N[s] \in Nat
    BY <1>1, <1>4, LenProperties
  <1>6. SumOver(N) \in Nat
    BY <1>5, SumOverNat
  <1>7. q.size_ \in Int /\ q.queue_time_sum_ \in Int
    BY <1>3, TotalsOfQueue
  <1> QED
    BY <1>2, <1>6, <1>7

LEMMA TargetRateType ==
  ASSUME NEW q, QueueInv(q)
  PROVE  TargetRate(q) \in Nat
  <1>1. PacingBitrate \in Nat /\ QueueTimeLimit \in Nat
    BY PacerAssumption
  <1>2. CASE Empty(q)
    BY <1>1, <1>2 DEF TargetRate
  <1>3. CASE ~Empty(q)
    <2>1. q.size_packets_ \in Nat \ {0} /\ q.size_ \in Int /\ q.queue_time_sum_ \in Int
      BY <1>3, PacketsCounted DEF Empty
    <2>2. PICK v \in Int : v = AverageQueueTime(q)
      <3>1. AverageQueueTime(q) = q.queue_time_sum_ \div q.size_packets_
        BY <1>3 DEF AverageQueueTime
      <3>2. q.queue_time_sum_ \div q.size_packets_ \in Int
        BY <2>1
      <3> QED
        BY <3>1, <3>2
    <2>3. PICK w \in Nat \ {0} : w = Most(1, QueueTimeLimit - v)
      BY <1>1 DEF Most
    <2>4. PICK x \in Int : x = MinRateNeed(q)
      <3>1. MinRateNeed(q) = (16 * q.size_ + w) \div (2 * w)
        BY <2>2, <2>3 DEF MinRateNeed, Kbps
      <3>2. PICK a \in Int : a = 16 * q.size_ + w
        BY <2>1
      <3>3. PICK c \in Nat \ {0} : c = 2 * w
        OBVIOUS
      <3>4. a \div c \in Int
        OBVIOUS
      <3> QED
        BY <3>1, <3>2, <3>3, <3>4
    <2>5. TargetRate(q) = Most(PacingBitrate, x)
      BY <1>3, <2>4 DEF TargetRate
    <2> QED
      BY <1>1, <2>4, <2>5 DEF Most
  <1> QED
    BY <1>2, <1>3

--------------------------------------------------------------------------------
(* The pacer. *)

(* The variables of the pacer have their types: the budget is an integer that    *)
(* may be in debt, and a round never lies in the future.                          *)
TypeOK ==
    /\ now \in Nat /\ last_process_time_ \in Nat /\ last_process_time_ <= now
    /\ tasks \in Seq(Ssrcs \cup {Start})
    /\ delayed \in SUBSET [at : Nat, scheduled : Nat]
    /\ next_process_time_ \in Nat \cup {MinusInfinity}
    /\ budget \in Budgets
    /\ sending \in BOOLEAN /\ drained \in BOOLEAN
    /\ meter \in Nat /\ starts \in Nat /\ posted \in [Ssrcs -> Nat]
    /\ QueueTyped(queue)

(* Outside a round of MaybeProcessPackets either a delayed task stands for       *)
(* next_process_time_, or none is expected and the task that starts the pacer has *)
(* not run: the chain of delayed tasks is never broken.                           *)
RoundPending ==
    /\ next_process_time_ = MinusInfinity =>
           sending \/ \E i \in DOMAIN tasks : tasks[i] = Start
    /\ next_process_time_ # MinusInfinity =>
           ~sending /\ \E t \in delayed : t.scheduled = next_process_time_

(* Push never takes the branch that erases a Stream it goes on using, as long as  *)
(* each source sends packets of one priority.                                     *)
NothingFreed == queue.freed = {}

RateKept == drained \/ RateInv(budget, meter, now - last_process_time_)

\* The inductive invariant.
Inv ==
    /\ TypeOK
    /\ QueueInv(queue)
    /\ FairInv(queue, overtaken)
    /\ RateKept
    /\ RoundPending

LEMMA Initially ==
  ASSUME Init
  PROVE  Inv
  <1> USE DEF Init
  <1>1. queue = Queue(0)
    OBVIOUS
  <1>2. /\ QueueInv(queue)
        /\ \A x \in Ssrcs : PacketQueue(queue, x) = <<>> /\ SentBytes(queue, x) = 0
    BY <1>1, QueueInitially
  <1>3. QueueTyped(queue)
    BY <1>2 DEF QueueInv
  <1>4. TypeOK
    <2>1. <<Start>> \in Seq(Ssrcs \cup {Start})
      OBVIOUS
    <2>2. budget \in Budgets
      BY DEF Budgets
    <2>3. posted \in [Ssrcs -> Nat]
      OBVIOUS
    <2>4. sending \in BOOLEAN /\ drained \in BOOLEAN
      OBVIOUS
    <2>5. /\ now \in Nat /\ last_process_time_ \in Nat /\ last_process_time_ <= now
          /\ meter \in Nat /\ starts \in Nat
      OBVIOUS
    <2>6. next_process_time_ \in Nat \cup {MinusInfinity} /\ delayed \in SUBSET [at : Nat, scheduled : Nat]
      OBVIOUS
    <2>7. tasks \in Seq(Ssrcs \cup {Start})
      BY <2>1
    <2> QED
      BY <1>3, <2>2, <2>3, <2>4, <2>5, <2>6, <2>7 DEF TypeOK
  <1>5. FairInv(queue, overtaken)
    <2>1. \A a, b \in Ssrcs : overtaken[a][b] = 0
      OBVIOUS
    <2>2. overtaken = [a \in Ssrcs |-> [b \in Ssrcs |-> overtaken[a][b]]]
      OBVIOUS
    <2> QED
      BY <2>1, <2>2 DEF FairInv
  <1>6. RateInv(budget, meter, now - last_process_time_)
    <2>1. PICK s : s \in Ssrcs
      BY LeadAssumption
    <2>2. SizeOf[s] \in Nat \ {0} /\ PacingBitrate \in Nat
      BY <2>1, PacerAssumption
    <2>3. budget.target_bitrate_kbps_ = 0 /\ budget.bytes_remaining_ = 0 /\ meter = 0
      OBVIOUS
    <2>4. 0 > - SizeOf[s]
      BY <2>2
    <2>5. \E x \in Ssrcs : 0 > - SizeOf[x]
      BY <2>1, <2>4
    <2>6. 0 + 8 * 0 <= 30 * PacingBitrate /\ 8 * 0 <= 30 * PacingBitrate
      BY <2>2
    <2> QED
      BY <2>3, <2>5, <2>6 DEF RateInv
  <1>7. RoundPending
    <2>1. DOMAIN tasks = 1 .. 1 /\ tasks[1] = Start
      OBVIOUS
    <2>2. 1 \in DOMAIN tasks
      BY <2>1
    <2> QED
      BY <2>1, <2>2 DEF RoundPending
  <1> QED
    BY <1>2, <1>4, <1>5, <1>6, <1>7 DEF Inv, RateKept

(* ProcessPackets up to its loop. *)
LEMMA BeginProcessKeeps ==
  ASSUME Inv, BeginProcess, UNCHANGED <<now, meter, overtaken>>
  PROVE  /\ QueueInv(queue)' /\ FairInv(queue, overtaken)' /\ RateKept'
         /\ budget' \in Budgets /\ drained' \in BOOLEAN /\ sending' = TRUE
         /\ last_process_time_' = now
  <1>1. TypeOK /\ QueueInv(queue) /\ FairInv(queue, overtaken) /\ RateKept
    BY DEF Inv
  <1>2. now \in Nat /\ last_process_time_ \in Nat /\ last_process_time_ <= now
        /\ budget \in Budgets /\ meter \in Nat /\ drained \in BOOLEAN
    BY <1>1 DEF TypeOK
  <1>3. PICK tau \in Nat : tau = now - last_process_time_
    BY <1>2
  <1>4. PICK e \in Nat : e = Least(tau, 2000) /\ (e > 0 <=> tau > 0)
    BY DEF Least
  <1>5. PICK q : q = UpdateQueueTime(queue, now)
    OBVIOUS
  <1>6. PICK k : k = TargetRate(q)
    OBVIOUS
  <1>7. PICK b : b = SetTargetBitrateKbps(budget, k)
    OBVIOUS
  <1>8. /\ sending' = TRUE /\ last_process_time_' = now
        /\ IF e > 0
           THEN /\ queue' = q
                /\ budget' = UpdateBudgetWithElapsedTime(b, e)
                /\ drained' = (drained \/ k > PacingBitrate)
           ELSE UNCHANGED <<queue, budget, drained>>
    BY <1>3, <1>4, <1>5, <1>6, <1>7 DEF BeginProcess, MaxElapsedTime
  <1>9. (now - last_process_time_)' = 0
    BY <1>2, <1>8
  <1>10. CASE e > 0
    <2>1. queue' = q /\ budget' = UpdateBudgetWithElapsedTime(b, e)
          /\ drained' = (drained \/ k > PacingBitrate)
      BY <1>8, <1>10
    <2>2. /\ QueueInv(q)
          /\ \A x \in Ssrcs : /\ PacketQueue(q, x) = PacketQueue(queue, x)
                              /\ SentBytes(q, x) = SentBytes(queue, x)
      BY <1>1, <1>2, <1>5, UpdateQueueTimeKeeps
    <2>3. QueueInv(queue)'
      BY <2>1, <2>2
    <2>4. FairInv(queue, overtaken)'
      <3>1. WaitingIn(queue) \subseteq WaitingIn(q)
        BY <2>2 DEF WaitingIn
      <3>2. PICK p : p = queue
        OBVIOUS
      <3>3. PICK o : o = overtaken
        OBVIOUS
      <3>4. FairInv(q, o)
        BY <1>1, <2>2, <3>1, <3>2, <3>3, FairKept
      <3> QED
        BY <2>1, <3>3, <3>4
    <2>5. k \in Nat
      BY <1>6, <2>2, TargetRateType
    <2>6. budget' \in Budgets
      <3>1. b \in Budgets /\ b.target_bitrate_kbps_ = k
        BY <1>2, <1>7, <2>5, SetTargetFacts
      <3>2. PICK i \in Nat : i = Least(e, 30)
        BY DEF Least
      <3>3. i * k \in Nat
        BY <2>5
      <3>4. PICK y \in Nat : y = (i * k) \div 8
        BY <3>3, Eighth
      <3>5. PICK c : c = IncreaseBudget(b, i)
        OBVIOUS
      <3>6. c \in Budgets
        BY <2>5, <3>1, <3>2, <3>4, <3>5, IncreaseFacts
      <3> QED
        BY <2>1, <3>2, <3>5, <3>6 DEF UpdateBudgetWithElapsedTime, MaxProcessingInterval
    <2>7. RateKept'
      <3>1. SUFFICES ASSUME ~drained' PROVE RateInv(budget', meter', (now - last_process_time_)')
        BY DEF RateKept
      <3>2. ~drained /\ ~ (k > PacingBitrate)
        BY <2>1, <3>1
      <3>3. k = PacingBitrate
        <4>1. CASE Empty(q)
          BY <1>6, <4>1 DEF TargetRate
        <4>2. CASE ~Empty(q)
          <5>1. k = Most(PacingBitrate, MinRateNeed(q))
            BY <1>6, <4>2 DEF TargetRate
          <5> QED
            BY <3>2, <5>1 DEF Most
        <4> QED
          BY <4>1, <4>2
      <3>4. PICK d : d = budget
        OBVIOUS
      <3>5. PICK m : m = meter
        OBVIOUS
      <3>6. RateInv(d, m, tau) /\ d \in Budgets /\ m \in Nat
        BY <1>1, <1>2, <1>3, <3>2, <3>4, <3>5 DEF RateKept
      <3>7. PICK c : c = UpdateBudgetWithElapsedTime(SetTargetBitrateKbps(d, PacingBitrate), Least(tau, 2000))
        OBVIOUS
      <3>8. RateInv(c, m, 0)
        BY <3>6, <3>7, RateRound
      <3>9. budget' = c
        BY <1>4, <1>7, <2>1, <3>3, <3>4, <3>7
      <3> QED
        BY <1>9, <3>5, <3>8, <3>9
    <2>8. drained' \in BOOLEAN
      BY <2>1
    <2> QED
      BY <1>8, <2>3, <2>4, <2>6, <2>7, <2>8
  <1>11. CASE ~ (e > 0)
    <2>1. UNCHANGED <<queue, budget, drained>>
      BY <1>8, <1>11
    <2>2. QueueInv(queue)' /\ FairInv(queue, overtaken)'
      BY <1>1, <2>1
    <2>3. now - last_process_time_ = 0
      BY <1>3, <1>4, <1>11
    <2>4. RateKept'
      BY <1>1, <1>9, <2>1, <2>3 DEF RateKept
    <2> QED
      BY <1>2, <1>8, <2>1, <2>2, <2>4
  <1> QED
    BY <1>10, <1>11

(* What only posts a task: EnsureStarted and EnqueuePacket. *)
LEMMA PostKeeps ==
  ASSUME Inv, NEW x \in Ssrcs \cup {Start}, tasks' = Append(tasks, x),
         starts' \in Nat, posted' \in [Ssrcs -> Nat],
         UNCHANGED <<now, delayed, next_process_time_, paced, ghosts>>
  PROVE  Inv'
  <1>1. TypeOK /\ QueueInv(queue) /\ FairInv(queue, overtaken) /\ RateKept /\ RoundPending
    BY DEF Inv
  <1>2. UNCHANGED <<now, delayed, next_process_time_, queue, budget, last_process_time_, sending,
                    meter, drained, overtaken>>
    BY DEF paced, ghosts
  <1>3. tasks \in Seq(Ssrcs \cup {Start})
    BY <1>1 DEF TypeOK
  <1>4. /\ tasks' \in Seq(Ssrcs \cup {Start})
        /\ \A i \in DOMAIN tasks : i \in DOMAIN tasks' /\ tasks'[i] = tasks[i]
    <2>1. PICK t : t = tasks
      OBVIOUS
    <2>2. PICK r : r = Append(t, x)
      OBVIOUS
    <2>3. /\ r \in Seq(Ssrcs \cup {Start}) /\ Len(r) = Len(t) + 1
          /\ \A i \in 1 .. Len(t) : r[i] = t[i]
      BY <1>3, <2>1, <2>2, AppendProperties
    <2>4. DOMAIN t = 1 .. Len(t) /\ DOMAIN r = 1 .. Len(r) /\ Len(t) \in Nat
      BY <1>3, <2>1, <2>3, LenProperties
    <2>5. \A i \in DOMAIN t : i \in DOMAIN r /\ r[i] = t[i]
      BY <2>3, <2>4
    <2> QED
      BY <2>1, <2>2, <2>3, <2>5
  <1>5. TypeOK'
    BY <1>1, <1>2, <1>4 DEF TypeOK
  <1>6. RoundPending'
    BY <1>1, <1>2, <1>4 DEF RoundPending
  <1>7. QueueInv(queue)' /\ FairInv(queue, overtaken)' /\ RateKept'
    BY <1>1, <1>2 DEF RateKept
  <1> QED
    BY <1>5, <1>6, <1>7 DEF Inv

\* Taking the first task off the queue.
LEMMA TaskTaken ==
  ASSUME NEW t \in Seq(Ssrcs \cup {Start}), t # <<>>, NEW r, r = Tail(t)
  PROVE  /\ r \in Seq(Ssrcs \cup {Start}) /\ Head(t) \in Ssrcs \cup {Start}
         /\ (\E i \in DOMAIN t : t[i] = Start) /\ Head(t) # Start =>
                \E i \in DOMAIN r : r[i] = Start
  <1>1. /\ r \in Seq(Ssrcs \cup {Start}) /\ Head(t) \in Ssrcs \cup {Start}
        /\ Len(r) = Len(t) - 1 /\ \A i \in 1 .. Len(r) : r[i] = t[i + 1]
    BY HeadTailProperties
  <1>2. DOMAIN t = 1 .. Len(t) /\ DOMAIN r = 1 .. Len(r) /\ Len(t) \in Nat /\ Len(r) \in Nat
    BY <1>1, LenProperties
  <1>3. Head(t) = t[1]
    BY <1>1, <1>2
  <1>4. ASSUME NEW i \in DOMAIN t, t[i] = Start, Head(t) # Start
        PROVE  \E j \in DOMAIN r : r[j] = Start
    <2>1. i # 1 /\ i \in 1 .. Len(t)
      BY <1>2, <1>3, <1>4
    <2>2. i - 1 \in 1 .. Len(r) /\ (i - 1) + 1 = i
      BY <1>1, <1>2, <2>1
    <2>3. r[i - 1] = Start
      BY <1>1, <1>4, <2>2
    <2> QED
      BY <1>2, <2>2, <2>3
  <1> QED
    BY <1>1, <1>4

LEMMA RunEnqueueKeeps ==
  ASSUME Inv, RunEnqueue
  PROVE  Inv'
  <1>1. TypeOK /\ QueueInv(queue) /\ FairInv(queue, overtaken) /\ RateKept /\ RoundPending
    BY DEF Inv
  <1>2. UNCHANGED <<now, delayed, next_process_time_, budget, last_process_time_, sending, posted,
                    starts, meter, drained, overtaken>>
    BY DEF RunEnqueue, ghosts
  <1>3. /\ tasks \in Seq(Ssrcs \cup {Start}) /\ tasks # <<>> /\ Head(tasks) # Start
        /\ tasks' = Tail(tasks)
    BY <1>1 DEF RunEnqueue, TypeOK
  <1>4. PICK t : t = tasks
    OBVIOUS
  <1>5. PICK r : r = Tail(t)
    OBVIOUS
  <1>6. /\ r \in Seq(Ssrcs \cup {Start}) /\ Head(t) \in Ssrcs \cup {Start}
        /\ (\E i \in DOMAIN t : t[i] = Start) /\ Head(t) # Start =>
               \E i \in DOMAIN r : r[i] = Start
    BY <1>3, <1>4, <1>5, TaskTaken
  <1>7. PICK s \in Ssrcs : s = Head(tasks)
    BY <1>3, <1>4, <1>6
  <1>8. PICK p : p = queue
    OBVIOUS
  <1>9. PICK q : q = Push(p, PacketOf(s, now))
    OBVIOUS
  <1>10. queue' = q
    BY <1>7, <1>8, <1>9 DEF RunEnqueue, PacketOf
  <1>11. now \in Nat
    BY <1>1 DEF TypeOK
  <1>12. PICK u \in Nat : u = now
    BY <1>11
  <1>13. QueueInv(p) /\ q = Push(p, PacketOf(s, u))
    BY <1>1, <1>8, <1>9, <1>12
  <1>14. QueueInv(q)
    BY <1>13, PushKeeps
  <1>15. /\ \A x \in Ssrcs : SentBytes(q, x) = SentBytes(p, x)
         /\ PacketQueue(q, s) = Append(PacketQueue(p, s), PacketOf(s, u))
         /\ \A x \in Ssrcs : x # s => PacketQueue(q, x) = PacketQueue(p, x)
    BY <1>13, PushFacts
  <1>16. PacketQueue(q, s) # <<>>
    <2>1. PICK a : a = PacketQueue(p, s)
      OBVIOUS
    <2>2. PICK k : k = PacketOf(s, u)
      OBVIOUS
    <2>3. StreamMap(p.streams_)
      BY <1>13 DEF QueueInv, QueueTyped
    <2>4. a \in Seq(PacketsOf(s)) /\ k \in PacketsOf(s)
      BY <2>1, <2>2, <2>3, StreamFacts DEF PacketOf, PacketsOf
    <2>5. Append(a, k) # <<>>
      BY <2>4, AppendProperties
    <2> QED
      BY <1>15, <2>1, <2>2, <2>5
  <1>17. WaitingIn(p) \subseteq WaitingIn(q)
    BY <1>15, <1>16 DEF WaitingIn
  <1>18. PICK o : o = overtaken
    OBVIOUS
  <1>19. FairInv(q, o)
    BY <1>1, <1>8, <1>15, <1>17, <1>18, FairKept
  <1>20. QueueInv(queue)' /\ FairInv(queue, overtaken)'
    BY <1>2, <1>10, <1>14, <1>18, <1>19
  <1>21. tasks' = r
    BY <1>3, <1>4, <1>5
  <1>22. QueueTyped(queue)'
    BY <1>20 DEF QueueInv
  <1>23. TypeOK'
    BY <1>1, <1>2, <1>6, <1>21, <1>22 DEF TypeOK
  <1>24. RoundPending'
    BY <1>1, <1>2, <1>3, <1>4, <1>6, <1>21 DEF RoundPending
  <1>25. RateKept'
    BY <1>1, <1>2 DEF RateKept
  <1> QED
    BY <1>20, <1>23, <1>24, <1>25 DEF Inv

(* A task that finds its round, or comes too late for it. *)
LEMMA RunStartKeeps ==
  ASSUME Inv, RunStart
  PROVE  Inv'
  <1>1. TypeOK /\ QueueInv(queue) /\ FairInv(queue, overtaken) /\ RateKept /\ RoundPending
    BY DEF Inv
  <1>2. UNCHANGED <<now, delayed, posted, starts, meter, overtaken>>
    BY DEF RunStart
  <1>3. tasks \in Seq(Ssrcs \cup {Start}) /\ tasks # <<>> /\ tasks' = Tail(tasks)
    BY <1>1 DEF RunStart, TypeOK
  <1>4. tasks' \in Seq(Ssrcs \cup {Start})
    BY <1>3, HeadTailProperties
  <1>5. CASE next_process_time_ = MinusInfinity
    <2>1. next_process_time_' = MinusInfinity /\ BeginProcess
      BY <1>5 DEF RunStart, MaybeProcessPackets
    <2>2. UNCHANGED <<now, meter, overtaken>>
      BY <1>2
    <2>3. /\ QueueInv(queue)' /\ FairInv(queue, overtaken)' /\ RateKept'
          /\ budget' \in Budgets /\ drained' \in BOOLEAN /\ sending' = TRUE
          /\ last_process_time_' = now
      BY <2>1, <2>2, BeginProcessKeeps
    <2>4. QueueTyped(queue)'
      BY <2>3 DEF QueueInv
    <2>5. TypeOK'
      <3>1. now' \in Nat /\ last_process_time_' \in Nat /\ last_process_time_' <= now'
        BY <1>1, <1>2, <2>3 DEF TypeOK
      <3>2. sending' \in BOOLEAN /\ drained' \in BOOLEAN
        BY <2>3
      <3> QED
        BY <1>1, <1>2, <1>4, <2>1, <2>3, <2>4, <3>1, <3>2 DEF TypeOK
    <2>6. RoundPending'
      BY <2>1, <2>3 DEF RoundPending
    <2> QED
      BY <2>3, <2>5, <2>6 DEF Inv
  <1>6. CASE next_process_time_ # MinusInfinity
    <2>1. UNCHANGED <<next_process_time_, paced, drained>>
      BY <1>6 DEF RunStart, MaybeProcessPackets
    <2>2. UNCHANGED <<queue, budget, last_process_time_, sending>>
      BY <2>1 DEF paced
    <2>3. TypeOK'
      BY <1>1, <1>2, <1>4, <2>1, <2>2 DEF TypeOK
    <2>4. RoundPending'
      BY <1>1, <1>2, <1>6, <2>1, <2>2 DEF RoundPending
    <2>5. QueueInv(queue)' /\ FairInv(queue, overtaken)' /\ RateKept'
      BY <1>1, <1>2, <2>1, <2>2 DEF RateKept
    <2> QED
      BY <2>3, <2>4, <2>5 DEF Inv
  <1> QED
    BY <1>5, <1>6

LEMMA RunDelayedKeeps ==
  ASSUME Inv, NEW t \in delayed, RunDelayed(t)
  PROVE  Inv'
  <1>1. TypeOK /\ QueueInv(queue) /\ FairInv(queue, overtaken) /\ RateKept /\ RoundPending
    BY DEF Inv
  <1>2. UNCHANGED <<now, tasks, posted, starts, meter, overtaken>> /\ delayed' = delayed \ {t}
    BY DEF RunDelayed
  <1>3. delayed' \in SUBSET [at : Nat, scheduled : Nat]
    BY <1>1, <1>2 DEF TypeOK
  <1>4. CASE t.scheduled = next_process_time_
    <2>1. next_process_time_' = MinusInfinity /\ BeginProcess
      BY <1>4 DEF RunDelayed, MaybeProcessPackets
    <2>2. UNCHANGED <<now, meter, overtaken>>
      BY <1>2
    <2>3. /\ QueueInv(queue)' /\ FairInv(queue, overtaken)' /\ RateKept'
          /\ budget' \in Budgets /\ drained' \in BOOLEAN /\ sending' = TRUE
          /\ last_process_time_' = now
      BY <2>1, <2>2, BeginProcessKeeps
    <2>4. QueueTyped(queue)'
      BY <2>3 DEF QueueInv
    <2>5. TypeOK'
      <3>1. now' \in Nat /\ last_process_time_' \in Nat /\ last_process_time_' <= now'
        BY <1>1, <1>2, <2>3 DEF TypeOK
      <3>2. sending' \in BOOLEAN /\ drained' \in BOOLEAN
        BY <2>3
      <3> QED
        BY <1>1, <1>2, <1>3, <2>1, <2>3, <2>4, <3>1, <3>2 DEF TypeOK
    <2>6. RoundPending'
      BY <2>1, <2>3 DEF RoundPending
    <2> QED
      BY <2>3, <2>5, <2>6 DEF Inv
  <1>5. CASE t.scheduled # next_process_time_
    <2>1. next_process_time_ # MinusInfinity /\ UNCHANGED <<next_process_time_, paced, drained>>
      BY <1>5 DEF RunDelayed, MaybeProcessPackets
    <2>2. UNCHANGED <<queue, budget, last_process_time_, sending>>
      BY <2>1 DEF paced
    <2>3. TypeOK'
      BY <1>1, <1>2, <1>3, <2>1, <2>2 DEF TypeOK
    <2>4. RoundPending'
      BY <1>1, <1>2, <1>5, <2>1, <2>2 DEF RoundPending
    <2>5. QueueInv(queue)' /\ FairInv(queue, overtaken)' /\ RateKept'
      BY <1>1, <1>2, <2>1, <2>2 DEF RateKept
    <2> QED
      BY <2>3, <2>4, <2>5 DEF Inv
  <1> QED
    BY <1>4, <1>5

LEMMA SendPacketKeeps ==
  ASSUME Inv, SendPacket
  PROVE  Inv'
  <1>1. TypeOK /\ QueueInv(queue) /\ FairInv(queue, overtaken) /\ RateKept /\ RoundPending
    BY DEF Inv
  <1>2. UNCHANGED <<now, tasks, delayed, next_process_time_, last_process_time_, sending, posted,
                    starts, drained>>
    BY DEF SendPacket
  <1>3. PICK q : q = queue
    OBVIOUS
  <1>4. PICK r : r = Pop(q)
    OBVIOUS
  <1>5. PICK p : p = Top(q)
    OBVIOUS
  <1>6. queue' = r /\ budget' = UseBudget(budget, p.size) /\ meter' = meter + p.size * 8
    BY <1>3, <1>4, <1>5 DEF SendPacket
  <1>7. QueueInv(q) /\ ~Empty(q)
    BY <1>1, <1>3 DEF SendPacket, Pending
  <1>8. QueueInv(r)
    BY <1>4, <1>7, PopKeeps
  <1>9. PICK s \in Ssrcs : Popped(q, r, s)
    BY <1>4, <1>7, PopKeeps
  <1>10. p.ssrc = s /\ p.size = SizeOf[s] /\ SizeOf[s] \in Nat
    BY <1>5, <1>9, PacerAssumption DEF Popped
  <1>11. StreamMap(q.streams_)
    BY <1>7 DEF QueueInv, QueueTyped
  <1>12. \A x \in Ssrcs : Waiting(x) <=> x \in WaitingIn(q)
    BY <1>3, <1>11, StreamFacts DEF Waiting, WaitingIn
  <1>13. PICK o : o = overtaken
    OBVIOUS
  <1>14. PICK n : n = [a \in Ssrcs |-> [b \in Ssrcs |->
                          IF b = s \/ b \notin WaitingIn(q) THEN 0
                          ELSE o[a][b] + (IF a = s THEN SizeOf[s] ELSE 0)]]
    OBVIOUS
  <1>15. overtaken' = n
    <2>1. overtaken' = [a \in Ssrcs |-> [b \in Ssrcs |->
                            IF b = s \/ ~Waiting(b) THEN 0
                            ELSE o[a][b] + (IF a = s THEN SizeOf[s] ELSE 0)]]
      BY <1>3, <1>5, <1>10, <1>13 DEF SendPacket
    <2> QED
      BY <1>12, <1>14, <2>1
  <1>16. FairInv(r, n)
    BY <1>1, <1>3, <1>7, <1>8, <1>9, <1>13, <1>14, FairPop
  <1>17. QueueInv(queue)' /\ FairInv(queue, overtaken)'
    BY <1>6, <1>8, <1>15, <1>16
  <1>18. PICK b : b = budget
    OBVIOUS
  <1>19. PICK c : c = UseBudget(b, SizeOf[s])
    OBVIOUS
  <1>20. b \in Budgets /\ meter \in Nat /\ now \in Nat /\ last_process_time_ \in Nat
         /\ last_process_time_ <= now
    BY <1>1, <1>18 DEF TypeOK
  <1>21. c \in Budgets
    BY <1>10, <1>19, <1>20, UseFacts
  <1>22. budget' = c /\ meter' = meter + SizeOf[s] * 8
    BY <1>6, <1>10, <1>18, <1>19
  <1>23. b.bytes_remaining_ > 0
    <2>1. BytesRemaining(budget) > 0
      BY DEF SendPacket, Pending
    <2>2. b.bytes_remaining_ \in Int
      BY <1>20 DEF Budgets
    <2> QED
      BY <1>18, <2>1, <2>2 DEF BytesRemaining, Most
  <1>24. RateKept'
    <2>1. SUFFICES ASSUME ~drained' PROVE RateInv(budget', meter', (now - last_process_time_)')
      BY DEF RateKept
    <2>2. PICK tau \in Nat : tau = now - last_process_time_
      BY <1>20
    <2>3. PICK m \in Nat : m = meter
      BY <1>20
    <2>4. RateInv(b, m, tau)
      BY <1>1, <1>2, <1>18, <2>1, <2>2, <2>3 DEF RateKept
    <2>5. RateInv(c, m + SizeOf[s] * 8, tau)
      BY <1>19, <1>20, <1>23, <2>4, RateSend
    <2> QED
      BY <1>2, <1>22, <2>2, <2>3, <2>5
  <1>25. QueueTyped(queue)'
    BY <1>17 DEF QueueInv
  <1>26. meter' \in Nat
    BY <1>10, <1>20, <1>22
  <1>27. TypeOK'
    BY <1>1, <1>2, <1>21, <1>22, <1>25, <1>26 DEF TypeOK
  <1>28. RoundPending'
    BY <1>1, <1>2 DEF RoundPending
  <1> QED
    BY <1>17, <1>24, <1>27, <1>28 DEF Inv

LEMMA EndProcessKeeps ==
  ASSUME Inv, EndProcess
  PROVE  Inv'
  <1>1. TypeOK /\ QueueInv(queue) /\ FairInv(queue, overtaken) /\ RateKept /\ RoundPending
    BY DEF Inv
  <1>2. /\ UNCHANGED <<now, tasks, queue, budget, last_process_time_, posted, starts, meter, drained,
                       overtaken>>
        /\ sending' = FALSE
    BY DEF EndProcess, ghosts
  <1>3. now \in Nat /\ last_process_time_ \in Nat /\ delayed \in SUBSET [at : Nat, scheduled : Nat]
    BY <1>1 DEF TypeOK
  <1>4. PICK n \in Nat : n = NextSendTime
    BY <1>3 DEF NextSendTime, MinPacketLimit
  <1>5. PICK w \in Nat : w = Most(n - now, HoldBackWindow)
    <2>1. HoldBackWindow \in Nat
      BY PacerAssumption
    <2>2. PICK y \in Int : y = n - now
      BY <1>3
    <2>3. Most(y, HoldBackWindow) \in Nat
      BY <2>1, <2>2 DEF Most
    <2> QED
      BY <2>2, <2>3
  <1>6. PICK t : t = [at |-> now + w, scheduled |-> n]
    OBVIOUS
  <1>7. next_process_time_' = n /\ delayed' = delayed \cup {t}
    BY <1>4, <1>5, <1>6 DEF EndProcess, Schedule
  <1>8. t \in [at : Nat, scheduled : Nat] /\ t.scheduled = n
    BY <1>3, <1>6
  <1>9. delayed' \in SUBSET [at : Nat, scheduled : Nat] /\ t \in delayed'
    BY <1>3, <1>7, <1>8
  <1>10. n # MinusInfinity
    BY DEF MinusInfinity
  <1>11. TypeOK'
    <2>1. sending' \in BOOLEAN
      BY <1>2
    <2> QED
      BY <1>1, <1>2, <1>7, <1>9, <2>1 DEF TypeOK
  <1>12. RoundPending'
    BY <1>2, <1>7, <1>8, <1>9, <1>10 DEF RoundPending
  <1>13. QueueInv(queue)' /\ FairInv(queue, overtaken)' /\ RateKept'
    BY <1>1, <1>2 DEF RateKept
  <1> QED
    BY <1>11, <1>12, <1>13 DEF Inv

LEMMA TickKeeps ==
  ASSUME Inv, NEW d \in Ticks, Tick(d)
  PROVE  Inv'
  <1>1. TypeOK /\ QueueInv(queue) /\ FairInv(queue, overtaken) /\ RateKept /\ RoundPending
    BY DEF Inv
  <1>2. /\ UNCHANGED <<tasks, delayed, next_process_time_, queue, budget, last_process_time_, sending,
                       posted, starts, drained, overtaken>>
        /\ now' = now + d /\ meter' = Most(0, meter - d * PacingBitrate)
    BY DEF Tick, paced
  <1>3. d \in Nat /\ PacingBitrate \in Nat
    BY PacerAssumption
  <1>4. now \in Nat /\ last_process_time_ \in Nat /\ last_process_time_ <= now /\ meter \in Nat
        /\ budget \in Budgets
    BY <1>1 DEF TypeOK
  <1>5. now' \in Nat /\ last_process_time_' \in Nat /\ last_process_time_' <= now'
    BY <1>2, <1>3, <1>4
  <1>6. meter' \in Nat
    <2>1. PICK x \in Nat : x = d * PacingBitrate
      BY <1>3
    <2> QED
      BY <1>2, <1>4, <2>1 DEF Most
  <1>7. RateKept'
    <2>1. SUFFICES ASSUME ~drained' PROVE RateInv(budget', meter', (now - last_process_time_)')
      BY DEF RateKept
    <2>2. PICK tau \in Nat : tau = now - last_process_time_
      BY <1>4
    <2>3. PICK m \in Nat : m = meter
      BY <1>4
    <2>4. PICK b \in Budgets : b = budget
      BY <1>4
    <2>5. RateInv(b, m, tau)
      BY <1>1, <1>2, <2>1, <2>2, <2>3, <2>4 DEF RateKept
    <2>6. RateInv(b, Most(0, m - d * PacingBitrate), tau + d)
      BY <1>3, <2>5, RateTick
    <2>7. (now - last_process_time_)' = tau + d
      BY <1>2, <1>3, <1>4, <2>2
    <2> QED
      BY <1>2, <2>3, <2>4, <2>6, <2>7
  <1>8. TypeOK'
    BY <1>1, <1>2, <1>5, <1>6 DEF TypeOK
  <1>9. RoundPending'
    BY <1>1, <1>2 DEF RoundPending
  <1>10. QueueInv(queue)' /\ FairInv(queue, overtaken)'
    BY <1>1, <1>2
  <1> QED
    BY <1>7, <1>8, <1>9, <1>10 DEF Inv

LEMMA Preserved ==
  ASSUME Inv, [Next]_vars
  PROVE  Inv'
  <1>1. CASE EnsureStarted
    <2>1. /\ tasks' = Append(tasks, Start)
          /\ UNCHANGED <<now, delayed, next_process_time_, paced, ghosts>>
      BY <1>1 DEF EnsureStarted
    <2>2. starts' \in Nat /\ posted' \in [Ssrcs -> Nat]
      BY <1>1 DEF EnsureStarted, Inv, TypeOK
    <2>3. Start \in Ssrcs \cup {Start}
      OBVIOUS
    <2> QED
      BY <2>1, <2>2, <2>3, PostKeeps
  <1>2. ASSUME NEW s \in Ssrcs, EnqueuePacket(s)
        PROVE  Inv'
    <2>1. /\ tasks' = Append(tasks, s)
          /\ UNCHANGED <<now, delayed, next_process_time_, paced, ghosts>>
      BY <1>2 DEF EnqueuePacket
    <2>2. starts' \in Nat /\ posted' \in [Ssrcs -> Nat]
      BY <1>2 DEF EnqueuePacket, Inv, TypeOK
    <2>3. s \in Ssrcs \cup {Start}
      OBVIOUS
    <2> QED
      BY <2>1, <2>2, <2>3, PostKeeps
  <1>3. CASE RunEnqueue
    BY <1>3, RunEnqueueKeeps
  <1>4. CASE RunStart
    BY <1>4, RunStartKeeps
  <1>5. CASE SendPacket
    BY <1>5, SendPacketKeeps
  <1>6. CASE EndProcess
    BY <1>6, EndProcessKeeps
  <1>7. CASE \E t \in delayed : RunDelayed(t)
    BY <1>7, RunDelayedKeeps
  <1>8. CASE Clock
    BY <1>8, TickKeeps DEF Clock
  <1>9. CASE UNCHANGED vars
    <2>1. UNCHANGED <<now, tasks, delayed, next_process_time_, queue, budget, last_process_time_,
                      sending, posted, starts, meter, drained, overtaken>>
      BY <1>9 DEF vars, paced, ghosts
    <2> QED
      BY <2>1 DEF Inv, TypeOK, RateKept, RoundPending
  <1> QED
    BY <1>1, <1>2, <1>3, <1>4, <1>5, <1>6, <1>7, <1>8, <1>9 DEF Next, Rest

(* Inv is an invariant: the counters of the queue are exact, who waits is behind  *)
(* by a bounded amount, the meter and the budget add up to what the rounds have   *)
(* granted, and a round is always pending, however the tasks interleave.          *)
THEOREM Inductive == Spec => []Inv
  BY Initially, Preserved, PTL DEF Spec

(* The variables keep their types, through every debt of the budget and however  *)
(* late a task runs.                                                              *)
THEOREM TypeCorrect == Spec => []TypeOK
  <1>1. Inv => TypeOK
    BY DEF Inv
  <1> QED
    BY <1>1, Inductive, PTL

(* Push never erases a Stream in use while each source has one priority.          *)
THEOREM NeverFreed == Spec => []NothingFreed
  <1>1. Inv => NothingFreed
    BY DEF Inv, QueueInv, QueueTyped, NothingFreed
  <1> QED
    BY <1>1, Inductive, PTL

(* The chain of delayed tasks that drives ProcessPackets is never broken.         *)
THEOREM ChainUnbroken == Spec => []RoundPending
  <1>1. Inv => RoundPending
    BY DEF Inv
  <1> QED
    BY <1>1, Inductive, PTL

(* What leaves the pacer keeps to the pacing rate, for every rate, every size of  *)
(* packets and however late the delayed tasks run.                                *)
THEOREM PacingRateKept == Spec => []PacedRate
  <1>1. ASSUME Inv PROVE PacedRate
    <2>1. SUFFICES ASSUME ~drained
                   PROVE  \E s \in Ssrcs :
                              meter < 2 * MaxProcessingInterval * PacingBitrate + 8 * SizeOf[s]
      BY DEF PacedRate
    <2>2. TypeOK /\ RateKept
      BY <1>1 DEF Inv
    <2>3. PICK b \in Budgets : b = budget
      BY <2>2 DEF TypeOK
    <2>4. PICK m \in Nat : m = meter
      BY <2>2 DEF TypeOK
    <2>5. PICK tau \in Nat : tau = now - last_process_time_
      BY <2>2 DEF TypeOK
    <2>6. RateInv(b, m, tau)
      BY <2>1, <2>2, <2>3, <2>4, <2>5 DEF RateKept
    <2> QED
      BY <2>4, <2>6, RateBound
  <1> QED
    BY <1>1, Inductive, PTL

(* The packet queue serves its sources fairly, for any number of sources, sizes   *)
(* and packets, and its counters and its list of sources agree with the packets   *)
(* that wait.                                                                     *)
THEOREM FairAndExact == Spec => []QueueSound
  <1>1. ASSUME Inv PROVE QueueSound
    <2>1. QueueInv(queue) /\ FairInv(queue, overtaken)
      BY <1>1 DEF Inv
    <2>2. /\ QueueTyped(queue) /\ Counted(queue)
          /\ ListOf(queue.stream_priorities_, WaitingIn(queue), KeysOf(queue))
      BY <2>1 DEF QueueInv
    <2>3. StreamMap(queue.streams_)
      BY <2>2 DEF QueueTyped
    <2>4. \A s : Waits(s) = PacketQueue(queue, s)
      BY DEF Waits, PacketQueue
    <2>5. WaitingIn(queue) = {s \in Ssrcs : Waits(s) # <<>>}
      BY <2>4 DEF WaitingIn
    <2>6. PICK list : list = queue.stream_priorities_
      OBVIOUS
    <2>7. Len(list) = Cardinality({s \in Ssrcs : Waits(s) # <<>>})
      BY <2>2, <2>5, <2>6, ListOfLength
    <2>8. ASSUME NEW s \in Ssrcs, Waits(s) # <<>>
          PROVE  \E i \in DOMAIN list : list[i] = Key(Head(Waits(s)).priority, queue.streams_[s].size, s)
      <3>1. s \in WaitingIn(queue)
        BY <2>5, <2>8
      <3>2. PICK i \in DOMAIN list : list[i].ssrc = s
        BY <2>2, <2>6, <3>1 DEF ListOf
      <3>3. list[i] = KeysOf(queue)[s]
        BY <2>2, <2>6, <3>2 DEF ListOf
      <3>4. s \in DOMAIN queue.streams_ /\ SentBytes(queue, s) = queue.streams_[s].size
        BY <2>8 DEF Waits, SentBytes
      <3>5. Waits(s) \in Seq(PacketsOf(s))
        BY <2>3, <2>4, StreamFacts
      <3>6. Head(Waits(s)) \in PacketsOf(s)
        BY <2>8, <3>5, HeadTailProperties
      <3>7. Head(Waits(s)).priority = PriorityOf[s]
        BY <3>6, PacketFacts
      <3> QED
        BY <3>3, <3>4, <3>7 DEF KeysOf
    <2>9. QueueAccounts
      BY <2>2, <2>4, <2>6, <2>7, <2>8 DEF QueueAccounts, Counted
    <2>10. FairShare
      <3>1. SUFFICES ASSUME NEW a \in Ssrcs, NEW b \in Ssrcs, PriorityOf[a] = PriorityOf[b]
                     PROVE  overtaken[a][b] <= MaxLeadingSize + 2 * SizeOf[a]
        BY DEF FairShare
      <3>2. overtaken[a][b] = 0 \/ overtaken[a][b] <= MaxLeadingSize + 2 * SizeOf[a]
        BY <2>1, <3>1 DEF FairInv
      <3>3. MaxLeadingSize \in Nat /\ SizeOf[a] \in Nat
        BY LeadAssumption, PacerAssumption
      <3> QED
        BY <3>2, <3>3
    <2> QED
      BY <2>9, <2>10 DEF QueueSound
  <1> QED
    BY <1>1, Inductive, PTL

================================================================================
