------------------------- MODULE FieldEncryption_proofs -------------------------
(* The invariants of FieldEncryption, for any requests, answers, names,       *)
(* default salts and lengths: what is delivered in either direction, that     *)
(* nothing confidential is readable, why requests fail, and what shard keys   *)
(* share.                                                                     *)
EXTENDS FieldEncryption, FiniteSetTheorems, SequenceTheorems, WellFoundedInduction, TLAPS

-----------------------------------------------------------------------------
(* Numbers                                                                   *)

\* A set of numbers has a least one.
LEMMA LeastNumber ==
  ASSUME NEW D \in SUBSET Nat, D # {}
  PROVE  \E d \in D : \A e \in D : d <= e
<1>1. IsWellFoundedOn(OpToRel(<, Nat), Nat)
  BY NatLessThanWellFounded
<1>2. PICK d \in D : \A e \in D : ~ (<<e, d>> \in OpToRel(<, Nat))
  BY <1>1, WFMin
<1>3. ASSUME NEW e \in D PROVE d <= e
  <2>1. <<e, d>> \in Nat \X Nat /\ ~ (e < d)
    BY <1>2 DEF OpToRel
  <2>2. QED
    BY <2>1
<1>4. QED
  BY <1>3

\* Induction, over a set of numbers.
LEMMA Induction ==
  ASSUME NEW S, 0 \in S, \A n \in Nat : n \in S => n + 1 \in S
  PROVE  Nat \subseteq S
<1> SUFFICES ASSUME Nat \ S # {} PROVE FALSE
  OBVIOUS
<1>1. PICK d \in Nat \ S : \A e \in Nat \ S : d <= e
  <2>1. Nat \ S \in SUBSET Nat
    OBVIOUS
  <2>2. QED
    BY <2>1, LeastNumber
<1>2. d # 0
  BY <1>1
<1>3. d - 1 \in Nat /\ (d - 1) + 1 = d
  BY <1>2
<1>4. d - 1 \in S
  BY <1>1, <1>3
<1>5. QED
  BY <1>1, <1>3, <1>4

\* Multiples are as far apart as their divisor.
LEMMA MultipleStep ==
  ASSUME NEW d \in Nat \ {0}, NEW a \in Nat, a % d = 0
  PROVE  (a + d) % d = 0
<1> DEFINE p == a \div d
<1>1. a = d * p /\ p \in Int
  OBVIOUS
<1> HIDE DEF p
<1>2. a + d = d * (p + 1) /\ p + 1 \in Int
  BY <1>1
<1>3. \A q \in Int : (d * q) % d = 0
  OBVIOUS
<1>4. (d * (p + 1)) % d = 0
  BY <1>2, <1>3
<1>5. QED
  BY <1>2, <1>4

LEMMA MultipleGap ==
  ASSUME NEW d \in Nat \ {0}, NEW a \in Nat, NEW b \in Nat, a % d = 0, b % d = 0, a < b
  PROVE  a + d <= b
<1> DEFINE p == a \div d
           q == b \div d
<1>1. a = d * p /\ b = d * q /\ p \in Int /\ q \in Int
  OBVIOUS
<1> HIDE DEF p, q
<1>2. p < q
  <2>1. q <= p => d * q <= d * p
    BY <1>1
  <2>2. QED
    BY <1>1, <2>1
<1>3. d * (p + 1) <= d * q
  BY <1>1, <1>2
<1>4. d * (p + 1) = d * p + d
  BY <1>1
<1>5. QED
  BY <1>1, <1>3, <1>4

-----------------------------------------------------------------------------
(* Rounds of the shard key's loop and boundaries of the cache                *)

\* The loop's rounds exist and follow each other.
LEMMA RoundDef ==
  Round = [k \in Nat |-> IF k = 0 THEN FirstRound ELSE NextRound(Round[k - 1])]
<1> DEFINE Run(g, n) ==
      \A k \in 0..n : g[k] = IF k = 0 THEN FirstRound ELSE NextRound(g[k - 1])
<1>1. \A n \in Nat : \E g : Run(g, n)
  <2> DEFINE S == {n \in Nat : \E g : Run(g, n)}
  <2>1. 0 \in S
    <3>1. Run([k \in 0..0 |-> FirstRound], 0)
      OBVIOUS
    <3>2. QED
      BY <3>1
  <2>2. ASSUME NEW n \in Nat, n \in S PROVE n + 1 \in S
    <3>1. PICK g : Run(g, n)
      BY <2>2
    <3> DEFINE h == [k \in 0..(n + 1) |-> IF k = n + 1 THEN NextRound(g[n]) ELSE g[k]]
    <3>2. ASSUME NEW k \in 0..(n + 1)
          PROVE  h[k] = IF k = 0 THEN FirstRound ELSE NextRound(h[k - 1])
      <4>1. CASE k = n + 1
        <5>1. h[k] = NextRound(g[n]) /\ n \in 0..(n + 1) /\ n # n + 1 /\ k - 1 = n /\ k # 0
          BY <4>1
        <5>2. h[n] = g[n]
          BY <5>1
        <5>3. QED
          BY <5>1, <5>2
      <4>2. CASE k # n + 1
        <5>1. k \in 0..n /\ h[k] = g[k]
          BY <4>2
        <5>2. k # 0 => k - 1 \in 0..(n + 1) /\ k - 1 # n + 1
          BY <5>1
        <5>3. k # 0 => h[k - 1] = g[k - 1]
          BY <5>2
        <5>4. QED
          BY <3>1, <5>1, <5>3
      <4>3. QED
        BY <4>1, <4>2
    <3>3. Run(h, n + 1)
      BY <3>2
    <3> HIDE DEF h, Run
    <3>4. n + 1 \in Nat
      OBVIOUS
    <3>5. QED
      BY <3>3, <3>4
  <2> HIDE DEF S
  <2>3. Nat \subseteq S
    BY <2>1, <2>2, Induction
  <2>4. QED
    BY <2>3 DEF S
<1> DEFINE G(n) == CHOOSE g : Run(g, n)
<1>2. \A n \in Nat : Run(G(n), n)
  BY <1>1
<1> HIDE DEF G
<1>3. ASSUME NEW n \in Nat PROVE G(n + 1)[n] = G(n)[n]
  <2> DEFINE U == {k \in Nat : k <= n => G(n + 1)[k] = G(n)[k]}
  <2>1. Run(G(n), n) /\ Run(G(n + 1), n + 1)
    <3>1. n + 1 \in Nat
      OBVIOUS
    <3>2. QED
      BY <1>2, <3>1
  <2>2. 0 \in U
    BY <2>1
  <2>3. ASSUME NEW k \in Nat, k \in U PROVE k + 1 \in U
    BY <2>1, <2>3
  <2> HIDE DEF U
  <2>4. Nat \subseteq U
    BY <2>2, <2>3, Induction
  <2>5. QED
    BY <2>4 DEF U
<1> DEFINE f == [k \in Nat |-> G(k)[k]]
<1>4. f = [k \in Nat |-> IF k = 0 THEN FirstRound ELSE NextRound(f[k - 1])]
  <2>1. \A k \in Nat : G(k)[k] = IF k = 0 THEN FirstRound ELSE NextRound(G(k)[k - 1])
    BY <1>2
  <2>2. \A k \in Nat \ {0} : G(k)[k - 1] = G(k - 1)[k - 1]
    <3>1. \A k \in Nat \ {0} : k - 1 \in Nat /\ (k - 1) + 1 = k
      OBVIOUS
    <3>2. QED
      BY <1>3, <3>1
  <2>3. QED
    BY <2>1, <2>2
<1> HIDE DEF f
<1>5. QED
  BY <1>4 DEF Round

LEMMA Sizes ==
  /\ FirstSize \in Nat \ {0} /\ SecondSize \in Nat \ {0} /\ ThirdSize \in Nat \ {0}
  /\ FirstBoundary \in Nat /\ SecondBoundary \in Nat
  /\ 0 < FirstBoundary /\ FirstBoundary < SecondBoundary
  /\ FirstBoundary % FirstSize = 0 /\ (SecondBoundary - FirstBoundary) % SecondSize = 0
<1>1. \A a, b \in Nat \ {0} : a * b \in Nat \ {0}
  OBVIOUS
<1>2. \A a, b \in Nat, c \in Nat \ {0} : a < b => a * c < b * c
  OBVIOUS
<1>3. FirstBoundaryBlocks \in Nat \ {0} /\ SecondBoundaryBlocks \in Nat \ {0}
  BY ShardKeysAssumption
<1>4. FirstBoundary \in Nat \ {0} /\ SecondBoundary \in Nat \ {0}
  BY <1>1, <1>3, ShardKeysAssumption DEF FirstBoundary, SecondBoundary
<1>5. FirstBoundary < SecondBoundary
  BY <1>2, ShardKeysAssumption DEF FirstBoundary, SecondBoundary
<1>6. FirstSize \in Nat \ {0} /\ SecondSize \in Nat \ {0} /\ ThirdSize \in Nat \ {0}
  BY <1>1, ShardKeysAssumption DEF FirstSize, SecondSize, ThirdSize
<1>7. QED
  BY <1>4, <1>5, <1>6, ShardKeysAssumption

\* Where a round is, and the size it goes on with.
Placed(r) ==
  /\ r.i \in Nat /\ r.size \in Nat \ {0}
  /\ r.i < FirstBoundary => r.size = FirstSize /\ r.i % FirstSize = 0
  /\ FirstBoundary <= r.i /\ r.i < SecondBoundary =>
       r.size = SecondSize /\ (r.i - FirstBoundary) % SecondSize = 0
  /\ SecondBoundary <= r.i =>
       r.size = ThirdSize /\ (r.i - SecondBoundary) % ThirdSize = 0

\* The next round is at the next boundary.
LEMMA NextIsBoundary ==
  ASSUME NEW r, Placed(r)
  PROVE  /\ NextRound(r).i = r.i + r.size
         /\ Placed(NextRound(r)) /\ IsBoundary(NextRound(r).i)
         /\ \A t \in Nat : r.i < t /\ IsBoundary(t) => NextRound(r).i <= t
<1> DEFINE next == NextRound(r)
<1> USE Sizes
<1>1. /\ next.i = r.i + r.size
      /\ next.i = FirstBoundary => next.size = SecondSize
      /\ next.i = SecondBoundary => next.size = ThirdSize
      /\ next.i \notin {FirstBoundary, SecondBoundary} => next.size = r.size
  BY DEF NextRound
<1> HIDE DEF next
<1>2. \A a, d, b \in Int : (a + d) - b = (a - b) + d
  OBVIOUS
<1>3. CASE r.i < FirstBoundary
  <2>1. r.i \in Nat /\ r.size = FirstSize /\ r.i % FirstSize = 0
    BY <1>3 DEF Placed
  <2>2. next.i <= FirstBoundary /\ next.i % FirstSize = 0
    BY <1>1, <1>3, <2>1, MultipleStep, MultipleGap
  <2>3. Placed(next)
    <3>1. CASE next.i = FirstBoundary
      <4>1. next.size = SecondSize /\ (next.i - FirstBoundary) % SecondSize = 0
        BY <1>1, <3>1
      <4>2. QED
        BY <3>1, <4>1 DEF Placed
    <3>2. CASE next.i < FirstBoundary
      <4>1. next.size = FirstSize /\ next.i \in Nat
        BY <1>1, <2>1, <3>2
      <4>2. QED
        BY <2>2, <3>2, <4>1 DEF Placed
    <3>3. QED
      BY <1>1, <2>1, <2>2, <3>1, <3>2
  <2>4. IsBoundary(next.i)
    BY <1>1, <2>1, <2>2 DEF IsBoundary
  <2>5. ASSUME NEW t \in Nat, r.i < t, IsBoundary(t) PROVE next.i <= t
    <3>1. CASE t <= FirstBoundary
      <4>1. t % FirstSize = 0
        BY <2>5, <3>1 DEF IsBoundary
      <4>2. QED
        BY <1>1, <2>1, <2>5, <4>1, MultipleGap
    <3>2. CASE FirstBoundary < t
      BY <1>1, <2>1, <2>2, <3>2
    <3>3. QED
      BY <3>1, <3>2
  <2>6. QED
    BY <1>1, <2>3, <2>4, <2>5 DEF next
<1>4. CASE FirstBoundary <= r.i /\ r.i < SecondBoundary
  <2> DEFINE past == r.i - FirstBoundary
  <2>1. /\ r.i \in Nat /\ past \in Nat
        /\ r.size = SecondSize /\ past % SecondSize = 0
    BY <1>4 DEF Placed
  <2>2. (past + SecondSize) % SecondSize = 0 /\ past + SecondSize <= SecondBoundary - FirstBoundary
    <3>1. SecondBoundary - FirstBoundary \in Nat /\ past < SecondBoundary - FirstBoundary
      BY <1>4, <2>1
    <3> HIDE DEF past
    <3>2. QED
      BY <2>1, <3>1, MultipleStep, MultipleGap
  <2>3. /\ next.i <= SecondBoundary /\ FirstBoundary < next.i /\ next.i \in Nat
        /\ next.i - FirstBoundary = past + SecondSize
    BY <1>1, <1>4, <2>1, <2>2
  <2>4. (next.i - FirstBoundary) % SecondSize = 0
    BY <2>2, <2>3
  <2>5. Placed(next)
    <3>1. CASE next.i = SecondBoundary
      <4>1. next.size = ThirdSize /\ (next.i - SecondBoundary) % ThirdSize = 0
        BY <1>1, <3>1
      <4>2. QED
        BY <3>1, <4>1 DEF Placed
    <3>2. CASE next.i < SecondBoundary
      <4>1. next.size = SecondSize
        BY <1>1, <2>1, <2>3, <3>2
      <4>2. QED
        BY <2>3, <2>4, <3>2, <4>1 DEF Placed
    <3>3. QED
      BY <2>3, <3>1, <3>2
  <2>6. IsBoundary(next.i)
    BY <2>3, <2>4 DEF IsBoundary
  <2>7. ASSUME NEW t \in Nat, r.i < t, IsBoundary(t) PROVE next.i <= t
    <3>1. CASE t <= SecondBoundary
      <4>1. (t - FirstBoundary) % SecondSize = 0 /\ t - FirstBoundary \in Nat /\ past < t - FirstBoundary
        BY <1>4, <2>1, <2>7, <3>1 DEF IsBoundary
      <4>2. past + SecondSize <= t - FirstBoundary
        <5> HIDE DEF past
        <5>1. QED
          BY <2>1, <4>1, MultipleGap
      <4>3. QED
        BY <2>1, <2>3, <4>2
    <3>2. CASE SecondBoundary < t
      BY <2>3, <3>2
    <3>3. QED
      BY <3>1, <3>2
  <2>8. QED
    BY <1>1, <2>5, <2>6, <2>7 DEF next
<1>5. CASE SecondBoundary <= r.i
  <2> DEFINE past == r.i - SecondBoundary
  <2>1. /\ r.i \in Nat /\ past \in Nat
        /\ r.size = ThirdSize /\ past % ThirdSize = 0
    BY <1>5 DEF Placed
  <2>2. (past + ThirdSize) % ThirdSize = 0
    <3> HIDE DEF past
    <3>1. QED
      BY <2>1, MultipleStep
  <2>3. /\ SecondBoundary < next.i /\ next.i \in Nat
        /\ next.i - SecondBoundary = past + ThirdSize
    <3>1. next.i = r.i + ThirdSize
      BY <1>1, <2>1
    <3>2. QED
      BY <1>5, <2>1, <3>1
  <2>4. (next.i - SecondBoundary) % ThirdSize = 0
    BY <2>2, <2>3
  <2>5. next.size = ThirdSize
    BY <1>1, <2>1, <2>3
  <2>6. Placed(next)
    BY <2>3, <2>4, <2>5 DEF Placed
  <2>7. IsBoundary(next.i)
    BY <2>3, <2>4 DEF IsBoundary
  <2>8. ASSUME NEW t \in Nat, r.i < t, IsBoundary(t) PROVE next.i <= t
    <3>1. (t - SecondBoundary) % ThirdSize = 0 /\ t - SecondBoundary \in Nat /\ past < t - SecondBoundary
      BY <1>5, <2>1, <2>8 DEF IsBoundary
    <3>2. past + ThirdSize <= t - SecondBoundary
      <4> HIDE DEF past
      <4>1. QED
        BY <2>1, <3>1, MultipleGap
    <3>3. QED
      BY <2>1, <2>3, <3>2
  <2>9. QED
    BY <1>1, <2>6, <2>7, <2>8 DEF next
<1>6. QED
  BY <1>3, <1>4, <1>5 DEF Placed

LEMMA RoundFacts ==
  /\ Round[0].i = 0
  /\ \A k \in Nat :
       /\ Placed(Round[k])
       /\ Round[k + 1].i = Round[k].i + Round[k].size
       /\ IsBoundary(Round[k + 1].i)
       /\ \A t \in Nat : Round[k].i < t /\ IsBoundary(t) => Round[k + 1].i <= t
<1>1. Round[0] = FirstRound /\ \A k \in Nat : Round[k + 1] = NextRound(Round[k])
  <2>1. \A k \in Nat : k + 1 \in Nat /\ k + 1 # 0 /\ (k + 1) - 1 = k
    OBVIOUS
  <2>2. QED
    BY <2>1, RoundDef
<1>2. Placed(FirstRound) /\ FirstRound.i = 0
  BY Sizes DEF FirstRound, Placed
<1> DEFINE S == {k \in Nat : Placed(Round[k])}
<1>3. 0 \in S
  BY <1>1, <1>2
<1>4. ASSUME NEW k \in Nat, k \in S PROVE k + 1 \in S
  BY <1>1, <1>4, NextIsBoundary
<1> HIDE DEF S
<1>5. Nat \subseteq S
  BY <1>3, <1>4, Induction
<1>6. \A k \in Nat : Placed(Round[k])
  BY <1>5 DEF S
<1>7. QED
  BY <1>1, <1>2, <1>6, NextIsBoundary

LEMMA RoundsGrow ==
  ASSUME NEW k \in Nat, NEW j \in Nat, j < k
  PROVE  Round[j].i < Round[k].i
<1> DEFINE S == {n \in Nat : j < n => Round[j].i < Round[n].i}
<1>1. ASSUME NEW n \in Nat
      PROVE  /\ Round[n].i \in Nat /\ Round[n + 1].i \in Nat
             /\ Round[n].i < Round[n + 1].i
  <2>1. Placed(Round[n]) /\ Round[n + 1].i = Round[n].i + Round[n].size
    BY RoundFacts
  <2>2. Round[n].i \in Nat /\ Round[n].size \in Nat \ {0}
    BY <2>1 DEF Placed
  <2>3. QED
    BY <2>1, <2>2
<1>2. 0 \in S
  OBVIOUS
<1>3. ASSUME NEW n \in Nat, n \in S PROVE n + 1 \in S
  <2>1. j < n + 1 => j < n \/ j = n
    OBVIOUS
  <2>2. QED
    BY <1>1, <1>3, <2>1
<1> HIDE DEF S
<1>4. Nat \subseteq S
  BY <1>2, <1>3, Induction
<1>5. QED
  BY <1>4 DEF S

\* Rounds are at least one token apart.
LEMMA RoundAtLeast ==
  ASSUME NEW k \in Nat
  PROVE  Round[k].i \in Nat /\ k <= Round[k].i
<1> DEFINE S == {n \in Nat : n <= Round[n].i}
<1>1. \A n \in Nat : Round[n].i \in Nat /\ Round[n].size \in Nat \ {0}
  BY RoundFacts DEF Placed
<1>2. 0 \in S
  BY <1>1
<1>3. ASSUME NEW n \in Nat, n \in S PROVE n + 1 \in S
  <2>1. Round[n + 1].i = Round[n].i + Round[n].size
    BY RoundFacts
  <2>2. QED
    BY <1>1, <1>3, <2>1
<1> HIDE DEF S
<1>4. Nat \subseteq S
  BY <1>2, <1>3, Induction
<1>5. QED
  BY <1>1, <1>4 DEF S

\* The loop reaches every boundary.
LEMMA BoundaryIsRound ==
  ASSUME NEW t \in Nat \ {0}, IsBoundary(t)
  PROVE  \E k \in 1..t : Round[k].i = t
<1> DEFINE D == {k \in Nat : t <= Round[k].i}
<1>1. t \in D /\ D \in SUBSET Nat
  BY RoundAtLeast
<1> HIDE DEF D
<1>2. PICK d \in D : \A e \in D : d <= e
  BY <1>1, LeastNumber
<1>3. d \in Nat /\ t <= Round[d].i /\ d <= t
  BY <1>1, <1>2 DEF D
<1>4. d # 0
  BY <1>3, RoundFacts
<1>5. d - 1 \in Nat /\ (d - 1) + 1 = d
  BY <1>3, <1>4
<1>6. Round[d - 1].i < t
  <2>1. d - 1 \notin D
    BY <1>2, <1>3, <1>5
  <2>2. QED
    BY <1>5, <2>1, RoundAtLeast DEF D
<1>7. Round[d].i <= t
  BY <1>5, <1>6, RoundFacts
<1>8. Round[d].i \in Nat
  BY <1>3, RoundAtLeast
<1>9. QED
  BY <1>3, <1>4, <1>7, <1>8

\* How many characters two keys share: ShardKey's definition over its salt.
LEMMA TokensType ==
  ASSUME NEW S, NEW c \in Seq(S)
  PROVE  /\ Tokens(c) \in Nat
         /\ \A t \in Nat : t <= Tokens(c) <=> CharsPerToken * t <= Len(c)
<1>1. CharsPerToken \in Nat \ {0} /\ Len(c) \in Nat
  BY ShardKeysAssumption
<1> DEFINE d == CharsPerToken
           n == Len(c)
           q == Tokens(c)
<1>2. q \in Nat /\ d * q <= n /\ n < d * (q + 1)
  BY <1>1 DEF Tokens
<1>3. d \in Nat \ {0} /\ n \in Nat
  BY <1>1
<1> HIDE DEF d, n, q
<1>4. ASSUME NEW t \in Nat, t <= q PROVE d * t <= n
  <2>1. d * t <= d * q
    BY <1>2, <1>3, <1>4
  <2>2. QED
    BY <1>2, <1>3, <2>1
<1>5. ASSUME NEW t \in Nat, q < t PROVE n < d * t
  <2>1. d * (q + 1) <= d * t
    BY <1>2, <1>3, <1>5
  <2>2. QED
    BY <1>2, <1>3, <2>1
<1>6. \A t \in Nat : t <= q <=> d * t <= n
  <2> TAKE t \in Nat
  <2>1. d * t \in Nat
    BY <1>3
  <2>2. QED
    BY <1>2, <1>3, <1>4, <1>5, <2>1
<1>7. QED
  BY <1>2, <1>6 DEF d, n, q

\* Texts that begin alike begin alike up to any earlier place.
LEMMA PrefixShorter ==
  ASSUME NEW S, NEW c \in Seq(S), NEW d \in Seq(S), NEW m \in Nat, NEW n \in Nat,
         m <= n, n <= Len(c), n <= Len(d), SubSeq(c, 1, n) = SubSeq(d, 1, n)
  PROVE  SubSeq(c, 1, m) = SubSeq(d, 1, m)
<1>1. \A k \in 1..n : c[k] = d[k]
  <2>1. ASSUME NEW k \in 1..n PROVE c[k] = d[k]
    <3>1. SubSeq(c, 1, n)[k] = c[k] /\ SubSeq(d, 1, n)[k] = d[k]
      OBVIOUS
    <3>2. QED
      BY <3>1
  <2>2. QED
    BY <2>1
<1>2. SubSeq(c, 1, m) = [k \in 1..m |-> c[k]] /\ SubSeq(d, 1, m) = [k \in 1..m |-> d[k]]
  OBVIOUS
<1>3. \A k \in 1..m : c[k] = d[k]
  BY <1>1
<1>4. QED
  BY <1>2, <1>3

\* Two keys with their salts share a character for each common boundary.
LEMMA SharedAreCommon ==
  ASSUME NEW S, NEW c \in Seq(S), NEW d \in Seq(S), ~ TooLarge(c),
         NEW a, NEW b, NEW s, NEW u, a = ShardKey(s, c), b = ShardKey(u, d)
  PROVE  /\ IsFiniteSet(SharedChars(a, b))
         /\ Cardinality(SharedChars(a, b)) = Cardinality(CommonBoundaries(c, d))
<1> DEFINE upTo(x, k) == SubSeq(x, 1, CharsPerToken * Round[k].i)
           shared == SharedChars(a, b)
           common == CommonBoundaries(c, d)
<1>1. /\ DOMAIN a.chars = Rounds(c) /\ DOMAIN b.chars = Rounds(d)
      /\ \A k \in Rounds(c) : a.chars[k] = upTo(c, k)
      /\ \A k \in Rounds(d) : b.chars[k] = upTo(d, k)
  BY DEF ShardKey
<1>2. \A k \in Nat : Round[k].i \in Nat /\ k <= Round[k].i
  BY RoundAtLeast
<1>3. Tokens(c) \in Nat /\ Tokens(d) \in Nat /\ Tokens(c) <= MaxTokens /\ MaxTokens \in Nat
  BY TokensType, ShardKeysAssumption DEF TooLarge
<1>4. ASSUME NEW x \in {c, d}, NEW k \in Nat \ {0}
      PROVE  k \in Rounds(x) <=> Round[k].i <= Tokens(x)
  BY <1>2, <1>3 DEF Rounds
<1>5. shared = {k \in Rounds(c) \cap Rounds(d) : \A j \in 1..k : a.chars[j] = b.chars[j]}
  BY <1>1 DEF SharedChars
<1>6. ASSUME NEW k \in Rounds(c) \cap Rounds(d), NEW j \in 1..k
      PROVE  j \in Rounds(c) \cap Rounds(d)
  <2>1. k \in Nat \ {0} /\ j \in Nat \ {0}
    BY <1>3 DEF Rounds
  <2>2. Round[j].i <= Round[k].i
    BY <1>2, <2>1, RoundsGrow
  <2>3. QED
    BY <1>2, <1>3, <1>4, <2>1, <2>2
<1>7. ASSUME NEW k \in shared PROVE Round[k].i \in common
  <2>1. k \in Rounds(c) /\ k \in Rounds(d) /\ a.chars[k] = b.chars[k] /\ k \in Nat \ {0}
    BY <1>3, <1>5 DEF Rounds
  <2>2. upTo(c, k) = upTo(d, k)
    BY <1>1, <2>1
  <2>3. Round[k].i <= Tokens(c) /\ Round[k].i <= Tokens(d)
    BY <1>4, <2>1
  <2>4. k - 1 \in Nat /\ (k - 1) + 1 = k
    BY <2>1
  <2>5. IsBoundary(Round[k].i)
    BY <2>4, RoundFacts
  <2>6. Round[k].i \in 1..MaxTokens
    BY <1>2, <1>3, <2>1, <2>3
  <2>7. CharsPerToken * Round[k].i <= Len(c) /\ CharsPerToken * Round[k].i <= Len(d)
    BY <2>3, <1>2, <2>1, TokensType
  <2>8. QED
    BY <2>2, <2>5, <2>6, <2>7 DEF CommonBoundaries, Boundaries
<1>8. ASSUME NEW t \in common PROVE \E k \in shared : Round[k].i = t
  <2>1. /\ t \in 1..MaxTokens /\ IsBoundary(t)
        /\ CharsPerToken * t <= Len(c) /\ CharsPerToken * t <= Len(d)
        /\ SubSeq(c, 1, CharsPerToken * t) = SubSeq(d, 1, CharsPerToken * t)
    BY DEF CommonBoundaries, Boundaries
  <2>2. PICK k \in 1..t : Round[k].i = t
    BY <1>3, <2>1, BoundaryIsRound
  <2>3. t <= Tokens(c) /\ t <= Tokens(d)
    BY <1>3, <2>1, TokensType
  <2>4. k \in Nat \ {0} /\ k \in Rounds(c) \cap Rounds(d)
    BY <1>3, <1>4, <2>1, <2>2, <2>3
  <2>5. ASSUME NEW j \in 1..k PROVE a.chars[j] = b.chars[j]
    <3>1. j \in Rounds(c) \cap Rounds(d) /\ j \in Nat
      BY <1>6, <2>4
    <3>2. Round[j].i <= t /\ Round[j].i \in Nat
      BY <1>2, <2>2, <2>4, <3>1, RoundsGrow
    <3>3. /\ CharsPerToken * Round[j].i \in Nat /\ CharsPerToken * t \in Nat
          /\ CharsPerToken * Round[j].i <= CharsPerToken * t
      <4>1. \A n, x, y \in Nat : x <= y => n * x \in Nat /\ n * y \in Nat /\ n * x <= n * y
        OBVIOUS
      <4>2. CharsPerToken \in Nat /\ t \in Nat
        BY <2>1, ShardKeysAssumption
      <4>3. QED
        BY <3>2, <4>1, <4>2
    <3>4. upTo(c, j) = upTo(d, j)
      BY <2>1, <3>3, PrefixShorter
    <3>5. QED
      BY <1>1, <3>1, <3>4
  <2>6. QED
    BY <1>5, <2>2, <2>4, <2>5
<1> DEFINE f == [k \in shared |-> Round[k].i]
<1>9. f \in Bijection(shared, common)
  <2>1. shared \subseteq Nat
    BY <1>3, <1>5 DEF Rounds
  <2>2. \A j, k \in shared : Round[j].i = Round[k].i => j = k
    <3>1. SUFFICES ASSUME NEW j \in shared, NEW k \in shared, Round[j].i = Round[k].i
                   PROVE  j = k
      OBVIOUS
    <3>2. j \in Nat /\ k \in Nat
      BY <2>1
    <3>3. Round[j].i \in Nat /\ Round[k].i \in Nat
      BY <1>2, <3>2
    <3>4. ~ (j < k) /\ ~ (k < j)
      BY <3>1, <3>2, <3>3, RoundsGrow
    <3>5. QED
      BY <3>2, <3>4
  <2> HIDE DEF shared, common
  <2>3. f \in [shared -> common]
    BY <1>7
  <2>4. \A j, k \in shared : f[j] = f[k] => j = k
    BY <2>2
  <2>5. \A t \in common : \E k \in shared : f[k] = t
    BY <1>8
  <2> HIDE DEF f
  <2>6. QED
    BY <2>3, <2>4, <2>5 DEF Bijection, Injection, Surjection, IsInjective
<1>10. IsFiniteSet(shared)
  <2>1. shared \subseteq 1..Tokens(c)
    BY <1>5 DEF Rounds
  <2>2. IsFiniteSet(1..Tokens(c))
    BY <1>3, FS_Interval
  <2>3. QED
    BY <2>1, <2>2, FS_Subset
<1> HIDE DEF shared, common, f
<1>11. Cardinality(common) = Cardinality(shared)
  BY <1>9, <1>10, FS_Bijection DEF ExistsBijection
<1>12. QED
  BY <1>10, <1>11 DEF shared, common

-----------------------------------------------------------------------------
(* Parts of the invariant                                                    *)

\* What the mutators make of the request before they seal it, and the orders
\* they may visit its fields in.
Prepared ==
  CASE request.endpoint = "completions" -> WithSalt(request.body)
    [] request.endpoint = "transcriptions" -> FormValues(request.body, request.query)
    [] OTHER -> request.body

Orders ==
  IF request.endpoint = "transcriptions"
  THEN FormOrders(request.body, PlainRequest(request))
  ELSE {JSONOrder(Prepared, PlainRequest(request))}

RequestInv ==
  /\ defaultSalt \in DefaultSalts /\ requests \in 0..MaxRequests
  /\ pc \in Places /\ attempt \in 0..MaxAttempts
  /\ request \in Requests \cup {None} /\ (pc # "idle" => request \in Requests)
  /\ pc = "mutate" => body = request.body /\ attempt < MaxAttempts

BodyInv ==
  pc = "sent" =>
    IF request.endpoint = "unstructured" THEN body = SealWhole(request.body, "client", 0)
    ELSE /\ \E order \in Orders : body = Seal(Prepared, order, "client", 0)
         /\ request.endpoint = "completions" => ~ShortSalt(request.body)

\* The fields of the request that are sealed.
SealedByClient ==
  IF request.endpoint = "unstructured" THEN 1
  ELSE Cardinality(DOMAIN Prepared \ PlainRequest(request))

DeliveredInv ==
  /\ pc \in {"idle", "mutate", "sent"} => delivered = None /\ dec = 0
  /\ dec \in Nat
  /\ pc \in {"work", "answer", "done"} \/ delivered # None =>
       /\ request \in Requests /\ delivered = Prepared /\ dec = SealedByClient
       /\ request.endpoint = "completions" => Valid(delivered)

\* The key a request is sent with.
KeyInv ==
  /\ \A known \in keyed :
       /\ known.content \in Seq(Characters) /\ ~TooLarge(known.content)
       /\ known.key = ShardKey(known.key.salt, known.content)
  /\ pc \in {"mutate", "sent"} \/ delivered # None =>
       /\ request \in Requests
       /\ key # NoKey => /\ request.endpoint = "completions" /\ DOMAIN request.body # {}
                         /\ ShardSalt(request.body) # <<>>
                         /\ key.salt = ShardSalt(request.body)
       /\ pc # "mutate" /\ request.endpoint = "completions" /\ DOMAIN request.body # {}
            /\ ShardSalt(request.body) # <<>> => key # NoKey

Lines == {answer.lines[n] : n \in 1..Len(answer.lines)}
SealedLines == {SealLine(answer.lines[n], from) : n \in 1..Len(answer.lines), from \in Nat}

\* What the application has got are full lines, from the first on.
Arrived ==
  \A k \in DOMAIN shown : \E n \in FullLines(Len(answer.lines)) :
     Cardinality(FullLines(n)) = k /\ shown[k] = answer.lines[n]

AnswerInv ==
  /\ enc \in Nat /\ got \in Nat /\ taken \in Nat
  /\ answer \in Answers \cup {None}
  /\ pc \in {"answer", "done"} => answer \in Answers
  /\ answer = None => enc = 0 /\ got = 0 /\ taken = 0 /\ wire = <<>> /\ shown = <<>>
  /\ pc \in {"idle", "mutate", "sent", "work"} => answer = None
  /\ answer # None =>
       /\ request \in Requests /\ dec = SealedByClient
       /\ taken \in 0..Len(answer.lines)
       /\ wire \in Seq(SealedLines) /\ shown \in Seq(Lines) /\ Arrived

\* A line on its way is the next full line of the answer, sealed from where the
\* line before it has ended.
OnWire(k, start) ==
  /\ start[k + 1] = start[k] + SealedFields(wire[k])
  /\ \E n \in FullLines(Len(answer.lines)) :
       /\ Cardinality(FullLines(n)) = Len(shown) + k
       /\ wire[k] = SealLine(answer.lines[n], start[k])

\* The lines on their way begin where the client has got to and end where the
\* inference proxy is.
WireInv ==
  /\ pc = "answer" =>
       /\ Len(shown) + Len(wire) = Cardinality(FullLines(taken))
       /\ \E start \in [Nat -> Nat] :
            /\ start[1] = got /\ start[Len(wire) + 1] = enc
            /\ \A k \in 1..Len(wire) : OnWire(k, start)
  /\ pc = "done" => Len(shown) = Cardinality(FullLines(Len(answer.lines)))

\* What may be wrong with a request or its answer.
Reason ==
  \/ /\ request.endpoint = "completions"
     /\ \/ ShortSalt(WithSalt(request.body))
        \/ ShardSalt(request.body) # <<>> /\ TooLarge(Content(request.body))
        \/ Range(Text(request.body, "messages")) \cap InsecureParts # {}
  \/ Cardinality((DOMAIN request.body \cap Files) \ PlainRequest(request)) > 1
  \/ request.endpoint = "transcriptions" /\ Overridden \ PlainRequest(request) # {}
  \/ DOMAIN request.body \subseteq PlainRequest(request)
  \/ /\ answer # None /\ answer.stream
     /\ \E n \in DOMAIN answer.lines : answer.lines[n].size # "short"

-----------------------------------------------------------------------------
(* Documents                                                                 *)

\* Fields that nobody has sealed.
Bare(doc) == doc = [n \in DOMAIN doc |-> Field(doc[n].text)]

\* What is sealed opens to what it was, whatever order it is opened in, as long
\* as the same fields are meant.
LEMMA OpenSealed ==
  ASSUME NEW doc, Bare(doc), NEW order, NEW later, DOMAIN later = DOMAIN order,
         NEW by, NEW from
  PROVE  Open(Seal(doc, order, by, from), later) = doc
<1> DEFINE seal == Seal(doc, order, by, from)
<1>1. /\ DOMAIN seal = DOMAIN doc
      /\ \A n \in DOMAIN doc : seal[n].text = doc[n].text /\ (n \notin DOMAIN order => seal[n] = doc[n])
  BY DEF Seal, Sealed
<1>2. \A n \in DOMAIN doc : doc[n] = Field(doc[n].text)
  BY DEF Bare
<1> HIDE DEF seal
<1>3. Open(seal, later) = [n \in DOMAIN doc |-> Field(doc[n].text)]
  BY <1>1, <1>2 DEF Open
<1>4. QED
  BY <1>3 DEF Bare, seal

\* It opens for the reader who is there and visits the fields in the same order.
LEMMA OpensSealed ==
  ASSUME NEW doc, NEW order, DOMAIN order \subseteq DOMAIN doc, NEW by, NEW from
  PROVE  Opens(Seal(doc, order, by, from), order, by, from)
BY DEF Opens, Seal, Sealed

LEMMA SealKeepsNames ==
  ASSUME NEW doc, NEW order, NEW by, NEW from
  PROVE  /\ DOMAIN Seal(doc, order, by, from) = DOMAIN doc
         /\ \A n \in DOMAIN doc \cap DOMAIN order : Seal(doc, order, by, from)[n].by = by
BY DEF Seal, Sealed

LEMMA JSONOrderNames ==
  ASSUME NEW doc, NEW plain
  PROVE  DOMAIN JSONOrder(doc, plain) = DOMAIN doc \ plain
BY DEF JSONOrder, Sorted

\* The order of a form's fields is theirs alone, but for that of its files.
LEMMA FormOrderNames ==
  ASSUME NEW doc, NEW plain, IsFiniteSet(DOMAIN doc), NEW order \in FormOrders(doc, plain)
  PROVE  /\ DOMAIN order = DOMAIN doc \ plain
         /\ Cardinality((DOMAIN doc \cap Files) \ plain) <= 1 =>
              \A other \in FormOrders(doc, plain) : other = order
<1> DEFINE values == (DOMAIN doc \ Files) \ plain
           files == (DOMAIN doc \cap Files) \ plain
           places == Bijection(files, 0..(Cardinality(files) - 1))
           numbered(place) ==
             [n \in values \cup files |->
                IF n \in values THEN Sorted(values)[n] ELSE Cardinality(values) + place[n]]
<1>1. FormOrders(doc, plain) = {numbered(place) : place \in places}
  BY DEF FormOrders
<1>2. values \cup files = DOMAIN doc \ plain
  OBVIOUS
<1>3. ASSUME Cardinality(files) <= 1, NEW place \in places, NEW other \in places
      PROVE  place = other
  <2>1. Cardinality(files) \in Nat
    BY FS_Subset, FS_CardinalityType
  <2>2. \A k \in 0..(Cardinality(files) - 1) : k = 0
    BY <1>3, <2>1
  <2>3. place \in [files -> 0..(Cardinality(files) - 1)] /\ other \in [files -> 0..(Cardinality(files) - 1)]
    BY <1>3 DEF Bijection, Injection
  <2> HIDE DEF files
  <2>4. \A n \in files : place[n] = 0 /\ other[n] = 0
    BY <2>2, <2>3
  <2>5. QED
    BY <2>3, <2>4
<1>4. DOMAIN order = DOMAIN doc \ plain
  BY <1>1, <1>2
<1> HIDE DEF places, numbered
<1>5. QED
  BY <1>1, <1>3, <1>4

\* Which fields of a form there are, and what they are called, decides.
LEMMA FormOrdersByName ==
  ASSUME NEW doc, NEW other, DOMAIN doc = DOMAIN other, NEW plain
  PROVE  FormOrders(doc, plain) = FormOrders(other, plain)
BY DEF FormOrders

LEMMA JSONOrderByName ==
  ASSUME NEW doc, NEW other, DOMAIN doc = DOMAIN other, NEW plain
  PROVE  JSONOrder(doc, plain) = JSONOrder(other, plain)
BY DEF JSONOrder

LEMMA RequestsAreWritten ==
  ASSUME request \in Requests
  PROVE  Written(request.body)
BY DocumentsAssumption

\* What is sealed of a request has the request's fields, and the salt.
LEMMA PreparedIsBare ==
  ASSUME request \in Requests
  PROVE  /\ Bare(Prepared) /\ IsFiniteSet(DOMAIN Prepared)
         /\ DOMAIN request.body \subseteq DOMAIN Prepared
         /\ request.endpoint # "completions" => DOMAIN Prepared = DOMAIN request.body
<1>1. Bare(request.body) /\ IsFiniteSet(DOMAIN request.body)
  BY RequestsAreWritten DEF Written, Bare
<1>2. CASE request.endpoint = "completions"
  <2>1. Prepared = WithSalt(request.body)
    BY <1>2 DEF Prepared
  <2>2. DOMAIN WithSalt(request.body) \in {DOMAIN request.body, DOMAIN request.body \cup {"cache_salt"}}
    BY DEF WithSalt
  <2>3. IsFiniteSet(DOMAIN request.body \cup {"cache_salt"})
    BY <1>1, FS_AddElement
  <2>4. Bare(WithSalt(request.body))
    <3>1. CASE WithSalt(request.body) = request.body
      BY <1>1, <3>1
    <3>2. CASE \E salt : WithSalt(request.body) =
                 [n \in DOMAIN request.body \cup {"cache_salt"} |->
                    IF n = "cache_salt" THEN Field(salt) ELSE request.body[n]]
      <4>1. PICK salt : WithSalt(request.body) =
                 [n \in DOMAIN request.body \cup {"cache_salt"} |->
                    IF n = "cache_salt" THEN Field(salt) ELSE request.body[n]]
        BY <3>2
      <4>2. \A n \in DOMAIN request.body : request.body[n] = Field(request.body[n].text)
        BY <1>1 DEF Bare
      <4>3. Field(salt) = Field(Field(salt).text)
        BY DEF Field
      <4>4. QED
        BY <4>1, <4>2, <4>3 DEF Bare
    <3>3. QED
      BY <3>1, <3>2 DEF WithSalt
  <2>5. QED
    BY <1>2, <2>1, <2>2, <2>3, <2>4, <1>1
<1>3. CASE request.endpoint = "transcriptions"
  <2>1. Prepared = FormValues(request.body, request.query)
    BY <1>3 DEF Prepared
  <2>2. FormValues(request.body, request.query) =
          [n \in DOMAIN request.body |->
             Field(<<Head(IF n \in Overridden THEN request.query[n]
                          ELSE request.body[n].text)>>)]
    <3>1. ASSUME NEW n \in DOMAIN request.body
          PROVE  [request.body[n] EXCEPT !.text = <<Head(@)>>] = Field(<<Head(request.body[n].text)>>)
      <4>1. request.body[n] = Field(request.body[n].text)
        BY <1>1 DEF Bare
      <4>2. QED
        BY <4>1 DEF Field
    <3>2. QED
      BY <3>1 DEF FormValues, Overridden
  <2>3. QED
    BY <1>1, <1>3, <2>1, <2>2 DEF Bare, Field
<1>4. CASE request.endpoint \notin {"completions", "transcriptions"}
  BY <1>1, <1>4 DEF Prepared
<1>5. QED
  BY <1>2, <1>3, <1>4

-----------------------------------------------------------------------------
(* The request                                                               *)

LEMMA SameRequest ==
  ASSUME UNCHANGED <<defaultSalt, request>>
  PROVE  UNCHANGED <<Prepared, Orders, SealedByClient>>
BY DEF Prepared, Orders, SealedByClient, WithSalt, Salt, Text

\* Sending makes the next attempt, of the request as it is.
Sending == SendCompletion \/ SendJSON \/ SendForm \/ SendWhole

\* The adapter has the body and delivers or refuses it.
Handling == HandleJSON \/ HandleForm \/ HandleWhole

\* Steps after the workload has the request.
Answering == Answer \/ TakeLine \/ TakeLineFails \/ ReadLine \/ Finish

LEMMA SendingStep ==
  ASSUME Sending
  PROVE  /\ pc = "mutate" /\ pc' = "sent" /\ attempt' = attempt + 1
         /\ UNCHANGED <<defaultSalt, requests, request, dec, enc, delivered,
                        answer, taken, wire, got, shown>>
BY DEF Sending, SendCompletion, SendJSON, SendForm, SendWhole, Send, reply

LEMMA HandlingStep ==
  ASSUME Handling
  PROVE  /\ pc = "sent" /\ pc' \in {"work", "failed"}
         /\ pc' = "failed" => UNCHANGED <<delivered, dec>>
         /\ UNCHANGED <<defaultSalt, requests, request, attempt, body, key, enc,
                        answer, taken, wire, got, shown, keyed>>
BY DEF Handling, HandleJSON, HandleForm, HandleWhole, Handle, reply

LEMMA AnsweringStep ==
  ASSUME Answering
  PROVE  /\ pc \in {"work", "answer"} /\ pc' \in {"answer", "done", "failed"}
         /\ UNCHANGED <<defaultSalt, requests, request, attempt, body, key, dec,
                        delivered, keyed>>
BY DEF Answering, Answer, TakeLine, TakeLineFails, ReadLine, Finish, reply

LEMMA Steps ==
  ASSUME [Next]_vars
  PROVE  \/ NewRequest \/ Sending \/ MutatorFails \/ Retry \/ Handling \/ Answering
         \/ UNCHANGED vars
BY DEF Next, Sending, Handling, Answering

LEMMA RequestStep ==
  ASSUME RequestInv, [Next]_vars
  PROVE  RequestInv'
<1> USE FieldEncryptionAssumption DEF RequestInv, Places
<1>1. CASE NewRequest
  BY <1>1 DEF NewRequest
<1>2. CASE Sending
  BY <1>2, SendingStep
<1>3. CASE MutatorFails
  BY <1>3 DEF MutatorFails
<1>4. CASE Retry
  BY <1>4 DEF Retry, MayRetry
<1>5. CASE Handling
  BY <1>5, HandlingStep
<1>6. CASE Answering
  BY <1>6, AnsweringStep
<1>7. CASE UNCHANGED vars
  BY <1>7 DEF vars
<1>8. QED
  BY <1>1, <1>2, <1>3, <1>4, <1>5, <1>6, <1>7, Steps

\* The body on its way is the prepared one, sealed.
LEMMA BodyStep ==
  ASSUME RequestInv, BodyInv, [Next]_vars
  PROVE  BodyInv'
<1>1. CASE Sending
  <2>1. pc = "mutate" /\ UNCHANGED <<defaultSalt, request>>
    BY <1>1, SendingStep
  <2>2. request \in Requests /\ body = request.body
    BY <2>1 DEF RequestInv
  <2>3. UNCHANGED <<Prepared, Orders>>
    BY <2>1, SameRequest
  <2>4. ShortSalt(request.body)' = ShortSalt(request.body)
    BY <2>1 DEF ShortSalt, Salt, Text
  <2>5. CASE SendCompletion
    <3>1. request.endpoint = "completions" /\ ~ ShortSalt(request.body)
      BY <2>2, <2>5 DEF SendCompletion
    <3>2. Prepared = WithSalt(request.body) /\ Orders = {JSONOrder(Prepared, PlainRequest(request))}
      BY <3>1 DEF Prepared, Orders
    <3>3. body' = Seal(Prepared, JSONOrder(Prepared, PlainRequest(request)), "client", 0)
      BY <2>2, <2>5, <3>2 DEF SendCompletion
    <3>4. \E order \in Orders : body' = Seal(Prepared, order, "client", 0)
      BY <3>2, <3>3
    <3>5. QED
      BY <2>1, <2>3, <2>4, <3>1, <3>4 DEF BodyInv
  <2>6. CASE SendJSON
    <3>1. request.endpoint \in {"embeddings", "messages"}
      BY <2>6 DEF SendJSON
    <3>2. Prepared = request.body /\ Orders = {JSONOrder(Prepared, PlainRequest(request))}
      BY <3>1 DEF Prepared, Orders
    <3>3. body' = Seal(Prepared, JSONOrder(Prepared, PlainRequest(request)), "client", 0)
      BY <2>2, <2>6, <3>2 DEF SendJSON
    <3>4. \E order \in Orders : body' = Seal(Prepared, order, "client", 0)
      BY <3>2, <3>3
    <3>5. QED
      BY <2>1, <2>3, <3>1, <3>4 DEF BodyInv
  <2>7. CASE SendForm
    <3>1. request.endpoint = "transcriptions"
      BY <2>7 DEF SendForm
    <3>2. /\ Prepared = FormValues(request.body, request.query)
          /\ Orders = FormOrders(request.body, PlainRequest(request))
      BY <3>1 DEF Prepared, Orders
    <3>3. \E order \in Orders : body' = Seal(Prepared, order, "client", 0)
      BY <2>2, <2>7, <3>2 DEF SendForm
    <3>4. QED
      BY <2>1, <2>3, <3>1, <3>3 DEF BodyInv
  <2>8. CASE SendWhole
    BY <2>1, <2>2, <2>8 DEF SendWhole, BodyInv
  <2>9. QED
    BY <1>1, <2>5, <2>6, <2>7, <2>8 DEF Sending
<1>2. CASE UNCHANGED vars
  <2>1. UNCHANGED <<pc, body, defaultSalt, request>>
    BY <1>2 DEF vars
  <2>2. UNCHANGED <<Prepared, Orders>>
    BY <2>1, SameRequest
  <2>3. ShortSalt(request.body)' = ShortSalt(request.body)
    BY <2>1 DEF ShortSalt, Salt, Text
  <2>4. QED
    BY <2>1, <2>2, <2>3 DEF BodyInv
<1>3. CASE NewRequest \/ MutatorFails \/ Retry
  BY <1>3 DEF NewRequest, MutatorFails, Retry, BodyInv
<1>4. CASE Handling
  BY <1>4, HandlingStep DEF BodyInv
<1>5. CASE Answering
  BY <1>5, AnsweringStep DEF BodyInv
<1>6. QED
  BY <1>1, <1>2, <1>3, <1>4, <1>5, Steps

\* What the adapter makes of the body: with the order it goes by, what was
\* prepared, and it can read it unless there are several files.
LEMMA AdapterReads ==
  ASSUME RequestInv, BodyInv, pc = "sent", request.endpoint # "unstructured",
         NEW order,
         order \in (IF request.endpoint = "transcriptions"
                    THEN FormOrders(body, AdapterPlain(request))
                    ELSE {JSONOrder(body, AdapterPlain(request))})
  PROVE  /\ request \in Requests
         /\ Open(body, order) = Prepared
         /\ Cardinality(DOMAIN order) = SealedByClient
         /\ \/ Opens(body, order, "client", 0)
            \/ /\ request.endpoint = "transcriptions"
               /\ Cardinality((DOMAIN request.body \cap Files) \ PlainRequest(request)) > 1
<1>1. request \in Requests
  BY DEF RequestInv
<1> DEFINE plain == PlainRequest(request)
<1>2. PICK used \in Orders : body = Seal(Prepared, used, "client", 0)
  BY DEF BodyInv
<1>3. DOMAIN body = DOMAIN Prepared
  BY <1>2, SealKeepsNames
<1>4. Bare(Prepared) /\ IsFiniteSet(DOMAIN Prepared)
  BY <1>1, PreparedIsBare
<1>5. AdapterPlain(request) = plain
  BY DEF AdapterPlain
<1> HIDE DEF plain
<1>6. /\ DOMAIN order = DOMAIN Prepared \ plain
      /\ DOMAIN used = DOMAIN Prepared \ plain
      /\ \/ order = used
         \/ /\ request.endpoint = "transcriptions"
            /\ Cardinality((DOMAIN request.body \cap Files) \ plain) > 1
  <2>1. CASE request.endpoint = "transcriptions"
    <3>1. DOMAIN Prepared = DOMAIN request.body
      BY <1>1, <2>1, PreparedIsBare
    <3>2. /\ used \in FormOrders(request.body, plain)
          /\ order \in FormOrders(request.body, plain)
      BY <1>2, <1>3, <1>5, <2>1, <3>1, FormOrdersByName DEF Orders, plain
    <3>3. Cardinality((DOMAIN request.body \cap Files) \ plain) \in Nat
      BY <1>4, <3>1, FS_Subset, FS_CardinalityType
    <3>4. IsFiniteSet(DOMAIN request.body)
      BY <1>4, <3>1
    <3>5. DOMAIN order = DOMAIN request.body \ plain /\ DOMAIN used = DOMAIN request.body \ plain
      BY <3>2, <3>4, FormOrderNames
    <3>6. Cardinality((DOMAIN request.body \cap Files) \ plain) <= 1 => order = used
      BY <3>2, <3>4, FormOrderNames
    <3>7. QED
      BY <2>1, <3>1, <3>3, <3>5, <3>6
  <2>2. CASE request.endpoint # "transcriptions"
    <3>1. used = JSONOrder(Prepared, plain) /\ order = JSONOrder(body, plain)
      BY <1>2, <1>5, <2>2 DEF Orders, plain
    <3>2. order = used
      BY <1>3, <3>1, JSONOrderByName
    <3>3. QED
      BY <3>1, <3>2, JSONOrderNames
  <2>3. QED
    BY <2>1, <2>2
<1>7. Open(body, order) = Prepared
  BY <1>2, <1>4, <1>6, OpenSealed
<1>8. Opens(body, used, "client", 0)
  BY <1>2, <1>6, OpensSealed
<1>9. Cardinality(DOMAIN order) = SealedByClient
  BY <1>6 DEF SealedByClient, plain
<1>10. QED
  BY <1>1, <1>6, <1>7, <1>8, <1>9 DEF plain

\* What the adapter makes of the form: the body again, unless the URL has one of
\* its sealed values, which then cannot be opened.
LEMMA AdapterForm ==
  ASSUME RequestInv, BodyInv, pc = "sent", request.endpoint = "transcriptions",
         NEW form, form = FormValues(body, request.query),
         NEW order \in FormOrders(body, AdapterPlain(request))
  PROVE  \/ form = body
         \/ /\ Overridden \ PlainRequest(request) # {}
            /\ ~ Opens(form, order, "client", 0)
<1>1. request \in Requests
  BY DEF RequestInv
<1> DEFINE plain == PlainRequest(request)
<1>2. PICK used \in FormOrders(request.body, plain) : body = Seal(Prepared, used, "client", 0)
  BY DEF BodyInv, Orders
<1>3. /\ DOMAIN Prepared = DOMAIN request.body /\ IsFiniteSet(DOMAIN request.body)
      /\ Bare(request.body)
  BY <1>1, PreparedIsBare, RequestsAreWritten DEF Written, Bare
<1>4. DOMAIN body = DOMAIN request.body
  BY <1>2, <1>3, SealKeepsNames
<1>5. /\ DOMAIN used = DOMAIN request.body \ plain
      /\ DOMAIN order = DOMAIN request.body \ plain
  <2>1. order \in FormOrders(request.body, plain)
    BY <1>4, FormOrdersByName DEF AdapterPlain
  <2>2. QED
    BY <1>2, <1>3, <2>1, FormOrderNames
<1> HIDE DEF plain
<1>6. CASE Overridden \subseteq plain
  <2>1. ASSUME NEW n \in DOMAIN body
        PROVE  form[n] = body[n]
    <3> DEFINE text == <<Head(IF n \in Overridden THEN request.query[n]
                              ELSE request.body[n].text)>>
    <3>1. Prepared[n] = Field(text)
      <4>1. request.body[n] = Field(request.body[n].text)
        BY <1>3, <1>4, <2>1 DEF Bare
      <4>2. [request.body[n] EXCEPT !.text = <<Head(@)>>] = Field(<<Head(request.body[n].text)>>)
        BY <4>1 DEF Field
      <4>3. QED
        BY <1>4, <2>1, <4>2 DEF Prepared, FormValues, Overridden
    <3>2. <<Head(text)>> = text
      OBVIOUS
    <3>3. CASE n \in Overridden
      <4>1. body[n] = Prepared[n]
        BY <1>2, <1>3, <1>4, <1>5, <1>6, <2>1, <3>3 DEF Seal
      <4>2. form[n] = Field(<<Head(request.query[n])>>)
        BY <2>1, <3>3 DEF FormValues, Overridden
      <4>3. QED
        BY <3>1, <3>3, <4>1, <4>2
    <3>4. CASE n \notin Overridden
      <4>1. form[n] = [body[n] EXCEPT !.text = <<Head(@)>>]
        BY <1>4, <2>1, <3>4 DEF FormValues, Overridden
      <4>2. \/ body[n] = Field(text)
            \/ \E number : body[n] = Sealed("client", number, text)
        BY <1>2, <1>3, <1>4, <2>1, <3>1 DEF Seal, Field
      <4> HIDE DEF text
      <4>3. QED
        BY <3>2, <4>1, <4>2 DEF Field, Sealed
    <3>5. QED
      BY <3>3, <3>4
  <2>2. body = [n \in DOMAIN body |-> body[n]] /\ form = [n \in DOMAIN body |-> form[n]]
    BY <1>2 DEF Seal, FormValues
  <2>3. QED
    BY <2>1, <2>2
<1>7. CASE ~ (Overridden \subseteq plain)
  <2>1. PICK n \in Overridden : n \notin plain
    BY <1>7
  <2>2. n \in DOMAIN order /\ n \in DOMAIN body
    BY <1>4, <1>5, <2>1 DEF Overridden
  <2>3. form[n].by = "nobody"
    BY <2>1, <2>2 DEF FormValues, Overridden, Field
  <2>4. QED
    BY <2>1, <2>2, <2>3 DEF Opens, plain
<1>8. QED
  BY <1>6, <1>7

LEMMA SealedByClientType ==
  ASSUME request \in Requests
  PROVE  SealedByClient \in Nat
<1>1. IsFiniteSet(DOMAIN Prepared)
  BY PreparedIsBare
<1>2. Cardinality(DOMAIN Prepared \ PlainRequest(request)) \in Nat
  BY <1>1, FS_Subset, FS_CardinalityType
<1>3. QED
  BY <1>2 DEF SealedByClient

LEMMA WholeReads ==
  ASSUME RequestInv, BodyInv, pc = "sent", request.endpoint = "unstructured"
  PROVE  /\ request \in Requests
         /\ OpenWhole(body) = Prepared /\ OpensWhole(body, "client", 0)
         /\ SealedByClient = 1
BY DEF RequestInv, BodyInv, OpenWhole, OpensWhole, SealWhole, Sealed, Prepared, SealedByClient

\* How the adapter's handling ends.
LEMMA HandlingEnds ==
  ASSUME RequestInv, BodyInv, Handling
  PROVE  /\ pc' = "work" =>
              /\ delivered' = Prepared /\ dec' = SealedByClient
              /\ request.endpoint = "completions" => Valid(Prepared)
         /\ pc' = "failed" =>
              \/ request.endpoint = "completions" /\ ~ Valid(Prepared)
              \/ /\ request.endpoint = "transcriptions"
                 /\ \/ Cardinality((DOMAIN request.body \cap Files) \ PlainRequest(request)) > 1
                    \/ Overridden \ PlainRequest(request) # {}
<1>1. pc = "sent"
  BY HandlingStep
<1>2. CASE HandleJSON
  <2>1. request.endpoint \in {"completions", "embeddings", "messages"}
    BY <1>2 DEF HandleJSON
  <2> DEFINE order == JSONOrder(body, AdapterPlain(request))
  <2>2. Handle(Opens(body, order, "client", 0), Open(body, order), Cardinality(DOMAIN order))
    BY <1>2 DEF HandleJSON
  <2>3. /\ Open(body, order) = Prepared /\ Cardinality(DOMAIN order) = SealedByClient
        /\ Opens(body, order, "client", 0)
    BY <1>1, <2>1, AdapterReads
  <2> HIDE DEF order
  <2>4. QED
    BY <2>2, <2>3 DEF Handle
<1>3. CASE HandleForm
  <2>1. request.endpoint = "transcriptions"
    BY <1>3 DEF HandleForm
  <2> DEFINE form == FormValues(body, request.query)
  <2>2. PICK order \in FormOrders(body, AdapterPlain(request)) :
          Handle(Opens(form, order, "client", 0), Open(form, order), Cardinality(DOMAIN order))
    BY <1>3 DEF HandleForm
  <2>5. \/ form = body
        \/ /\ Overridden \ PlainRequest(request) # {}
           /\ ~ Opens(form, order, "client", 0)
    BY <1>1, <2>1, <2>2, AdapterForm
  <2>3. /\ Open(body, order) = Prepared /\ Cardinality(DOMAIN order) = SealedByClient
        /\ \/ Opens(body, order, "client", 0)
           \/ Cardinality((DOMAIN request.body \cap Files) \ PlainRequest(request)) > 1
    BY <1>1, <2>1, <2>2, AdapterReads
  <2> HIDE DEF form
  <2>4. QED
    BY <2>1, <2>2, <2>3, <2>5 DEF Handle
<1>4. CASE HandleWhole
  <2>1. request.endpoint = "unstructured"
    BY <1>4 DEF HandleWhole
  <2>2. Handle(OpensWhole(body, "client", 0), OpenWhole(body), 1)
    BY <1>4 DEF HandleWhole
  <2>3. OpenWhole(body) = Prepared /\ OpensWhole(body, "client", 0) /\ SealedByClient = 1
    BY <1>1, <2>1, WholeReads
  <2>4. QED
    BY <2>1, <2>2, <2>3 DEF Handle
<1>5. QED
  BY <1>2, <1>3, <1>4 DEF Handling

-----------------------------------------------------------------------------
(* What the workload gets                                                    *)

LEMMA DeliveredStep ==
  ASSUME RequestInv, BodyInv, DeliveredInv, [Next]_vars
  PROVE  DeliveredInv'
<1>1. CASE NewRequest
  BY <1>1 DEF NewRequest, DeliveredInv
<1>2. CASE UNCHANGED <<defaultSalt, request, delivered, dec>>
             /\ (pc' \in {"work", "answer", "done"} => pc \in {"work", "answer", "done"})
             /\ (pc' \in {"idle", "mutate", "sent"} => pc \in {"idle", "mutate", "sent"})
  <2>1. UNCHANGED <<Prepared, SealedByClient>>
    BY <1>2, SameRequest
  <2>2. Valid(delivered)' = Valid(delivered)
    BY <1>2 DEF Valid, Salt, Text
  <2>3. QED
    BY <1>2, <2>1, <2>2 DEF DeliveredInv
<1>3. CASE Sending
  BY <1>2, <1>3, SendingStep
<1>4. CASE MutatorFails
  BY <1>2, <1>4 DEF MutatorFails
<1>5. CASE Retry
  BY <1>2, <1>5 DEF Retry
<1>6. CASE Handling
  <2>1. CASE pc' = "failed"
    BY <1>2, <1>6, <2>1, HandlingStep
  <2>2. CASE pc' = "work"
    <3>1. /\ delivered' = Prepared /\ dec' = SealedByClient /\ request \in Requests
          /\ request.endpoint = "completions" => Valid(delivered')
          /\ UNCHANGED <<defaultSalt, request>>
      BY <1>6, <2>2, HandlingStep, HandlingEnds DEF RequestInv
    <3>2. UNCHANGED <<Prepared, SealedByClient>>
      BY <3>1, SameRequest
    <3>3. Valid(delivered)' <=> Valid(delivered')
      BY DEF Valid, Salt, Text
    <3>4. SealedByClient \in Nat
      BY <3>1, SealedByClientType
    <3>5. QED
      BY <2>2, <3>1, <3>2, <3>3, <3>4 DEF DeliveredInv
  <2>3. QED
    BY <1>6, <2>1, <2>2, HandlingStep
<1>7. CASE Answering
  BY <1>2, <1>7, AnsweringStep
<1>8. CASE UNCHANGED vars
  BY <1>2, <1>8 DEF vars
<1>9. QED
  BY <1>1, <1>3, <1>4, <1>5, <1>6, <1>7, <1>8, Steps

\* The salt of a completion that is not empty: its own, the flag's or a random one.
LEMMA PreparedSalt ==
  ASSUME RequestInv, request \in Requests, request.endpoint = "completions",
         DOMAIN request.body # {}
  PROVE  /\ DOMAIN Prepared = DOMAIN request.body \cup {"cache_salt"}
         /\ \A n \in DOMAIN request.body \ {"cache_salt"} : Prepared[n] = request.body[n]
         /\ Salt(Prepared) = IF Salt(request.body) # <<>> THEN Salt(request.body)
                             ELSE IF defaultSalt # <<>> THEN defaultSalt ELSE RandomSalt
         /\ Salt(Prepared) \in Seq(Characters) /\ Len(Salt(Prepared)) > 0
<1>1. Prepared = WithSalt(request.body)
  BY DEF Prepared
<1>2. RandomSalt \in Seq(Characters) /\ Len(RandomSalt) > 0 /\ defaultSalt \in Seq(Characters)
  BY FieldEncryptionAssumption DEF RequestInv
<1>3. CASE Salt(request.body) # <<>>
  <2>1. Prepared = request.body
    BY <1>1, <1>3 DEF WithSalt
  <2>2. "cache_salt" \in DOMAIN request.body /\ Salt(request.body) = request.body["cache_salt"].text
    BY <1>3 DEF Salt, Text
  <2>3. Salt(request.body) \in Seq(Characters)
    BY <2>2, RequestsAreWritten DEF Written
  <2>4. Len(Salt(request.body)) > 0
    BY <1>3, <2>3
  <2>5. QED
    BY <1>3, <2>1, <2>2, <2>3, <2>4
<1>4. CASE Salt(request.body) = <<>>
  <2> DEFINE salt == IF defaultSalt # <<>> THEN defaultSalt ELSE RandomSalt
  <2>1. Prepared = [n \in DOMAIN request.body \cup {"cache_salt"} |->
                      IF n = "cache_salt" THEN Field(salt) ELSE request.body[n]]
    BY <1>1, <1>4 DEF WithSalt
  <2>2. salt \in Seq(Characters) /\ Len(salt) > 0
    BY <1>2
  <2> HIDE DEF salt
  <2>3. Salt(Prepared) = salt
    BY <2>1 DEF Salt, Text, Field
  <2>4. QED
    BY <1>4, <2>1, <2>2, <2>3 DEF salt
<1>5. QED
  BY <1>3, <1>4

LEMMA DeliveredIsRequested ==
  ASSUME RequestInv, DeliveredInv
  PROVE  WorkloadGetsRequest
<1> SUFFICES ASSUME delivered # None PROVE WorkloadGetsRequest
  BY DEF WorkloadGetsRequest
<1> DEFINE sent == request.body
           completion == request.endpoint = "completions" /\ DOMAIN sent # {}
<1>1. /\ request \in Requests /\ delivered = Prepared
      /\ request.endpoint = "completions" => Valid(delivered)
  BY DEF DeliveredInv
<1>2. CASE completion
  <2>1. /\ DOMAIN delivered = DOMAIN sent \cup {"cache_salt"}
        /\ \A n \in DOMAIN sent \ {"cache_salt"} : delivered[n] = sent[n]
        /\ Salt(delivered) = IF Salt(sent) # <<>> THEN Salt(sent)
                             ELSE IF defaultSalt # <<>> THEN defaultSalt ELSE RandomSalt
    BY <1>1, <1>2, PreparedSalt
  <2>2. DOMAIN delivered # {}
    BY <2>1
  <2>3. Len(Salt(delivered)) >= MinSalt
    BY <1>1, <1>2, <2>2 DEF Valid
  <2>4. QED
    BY <1>2, <2>1, <2>3 DEF WorkloadGetsRequest
<1>3. CASE ~ completion
  <2>1. DOMAIN delivered = DOMAIN sent
    BY <1>1, <1>3 DEF Prepared, WithSalt, FormValues
  <2>2. ASSUME NEW n \in DOMAIN sent
        PROVE  delivered[n] =
                 IF request.endpoint # "transcriptions" THEN sent[n]
                 ELSE Field(<<Head(IF n \in Overridden THEN request.query[n]
                                   ELSE sent[n].text)>>)
    <3>1. sent[n] = Field(sent[n].text)
      BY <1>1, RequestsAreWritten DEF Written
    <3>2. [sent[n] EXCEPT !.text = <<Head(@)>>] = Field(<<Head(sent[n].text)>>)
      BY <3>1 DEF Field
    <3>3. QED
      BY <1>1, <1>3, <3>2 DEF Prepared, WithSalt, FormValues, Overridden
  <2>3. QED
    BY <1>3, <2>1, <2>2 DEF WorkloadGetsRequest
<1>4. QED
  BY <1>2, <1>3

-----------------------------------------------------------------------------
(* Its shard key                                                             *)

LEMMA ContentType ==
  ASSUME request \in Requests
  PROVE  Content(request.body) \in Seq(Characters)
<1>1. ASSUME NEW name PROVE Text(request.body, name) \in Seq(Characters)
  <2>1. CASE name \in DOMAIN request.body
    BY <2>1, DocumentsAssumption DEF Text, Written
  <2>2. CASE name \notin DOMAIN request.body
    BY <2>2 DEF Text
  <2>3. QED
    BY <2>1, <2>2
<1>2. QED
  BY <1>1 DEF Content

LEMMA KeyStep ==
  ASSUME RequestInv, DeliveredInv, KeyInv, [Next]_vars
  PROVE  KeyInv'
<1>1. CASE NewRequest
  BY <1>1 DEF NewRequest, KeyInv, ShardKey, TooLarge
<1>2. CASE UNCHANGED <<defaultSalt, request, key, keyed>>
             /\ (pc' \in {"mutate", "sent"} \/ delivered' # None
                   => pc \in {"mutate", "sent"} \/ delivered # None)
             /\ (pc' # "mutate" => pc # "mutate"
                   \/ ~ (/\ request.endpoint = "completions" /\ DOMAIN request.body # {}
                         /\ ShardSalt(request.body) # <<>>)
                   \/ (pc' # "sent" /\ delivered' = None))
  <2>1. ShardSalt(request.body)' = ShardSalt(request.body)
    BY <1>2 DEF ShardSalt, Salt, Text
  <2>2. QED
    BY <1>2, <2>1 DEF KeyInv, NoKey
<1>3. CASE Sending
  <2>1. pc = "mutate" /\ pc' = "sent" /\ UNCHANGED <<defaultSalt, request, delivered>>
    BY <1>3, SendingStep
  <2>2. request \in Requests /\ body = request.body
    BY <2>1 DEF RequestInv
  <2>3. ShardSalt(request.body)' = ShardSalt(request.body)
    BY <2>1 DEF ShardSalt, Salt, Text
  <2>4. CASE UNCHANGED <<key, keyed>>
             /\ ~ (/\ request.endpoint = "completions" /\ DOMAIN request.body # {}
                   /\ ShardSalt(request.body) # <<>>)
    BY <1>2, <2>1, <2>4
  <2>5. CASE /\ request.endpoint = "completions"
             /\ DOMAIN body # {} /\ ShardSalt(body) # <<>> /\ ~TooLarge(Content(body))
             /\ key' = ShardKey(ShardSalt(body), Content(body))
             /\ keyed' = keyed \cup {[content |-> Content(body), key |-> key']}
    <3>1. Content(body) \in Seq(Characters)
      BY <2>2, ContentType
    <3>2. key'.salt = ShardSalt(request.body)
      BY <2>2, <2>5 DEF ShardKey
    <3>3. key' # NoKey
      BY <2>2, <2>5, <3>2 DEF NoKey
    <3>4. ASSUME NEW known \in keyed'
          PROVE  /\ known.content \in Seq(Characters) /\ ~TooLarge(known.content)
                 /\ known.key = ShardKey(known.key.salt, known.content)
      <4>1. CASE known \in keyed
        BY <4>1 DEF KeyInv
      <4>2. CASE known = [content |-> Content(body), key |-> key']
        BY <2>2, <2>5, <3>1, <3>2, <4>2
      <4>3. QED
        BY <2>5, <3>4, <4>1, <4>2
    <3>5. /\ request' \in Requests /\ request'.endpoint = "completions"
          /\ DOMAIN request'.body # {} /\ ShardSalt(request.body)' # <<>>
          /\ key'.salt = ShardSalt(request.body)'
      BY <2>1, <2>2, <2>3, <2>5, <3>2
    <3>6. QED
      BY <3>3, <3>4, <3>5 DEF KeyInv, TooLarge, NoKey, ShardKey
  <2>6. QED
    BY <1>3, <2>2, <2>4, <2>5 DEF Sending, SendCompletion, SendJSON, SendForm, SendWhole
<1>4. CASE MutatorFails
  <2>1. pc = "mutate" /\ pc' = "failed" /\ UNCHANGED <<defaultSalt, request, key, keyed, delivered>>
    BY <1>4 DEF MutatorFails
  <2>2. delivered = None
    BY <2>1 DEF DeliveredInv
  <2>3. QED
    BY <1>2, <2>1, <2>2
<1>5. CASE Retry
  <2>1. pc = "sent" /\ pc' = "mutate" /\ UNCHANGED <<defaultSalt, request, key, keyed, delivered>>
    BY <1>5 DEF Retry
  <2>2. QED
    BY <1>2, <2>1
<1>6. CASE Handling
  BY <1>2, <1>6, HandlingStep
<1>7. CASE Answering
  BY <1>2, <1>7, AnsweringStep
<1>8. CASE UNCHANGED vars
  BY <1>2, <1>8 DEF vars
<1>9. QED
  BY <1>1, <1>3, <1>4, <1>5, <1>6, <1>7, <1>8, Steps

LEMMA KeysFit ==
  ASSUME RequestInv, DeliveredInv, KeyInv
  PROVE  ShardKeysFit
<1>1. ASSUME NEW a \in keyed, NEW b \in keyed
      PROVE  Cardinality(SharedChars(a.key, b.key))
               = Cardinality(CommonBoundaries(a.content, b.content))
  <2>1. /\ a.content \in Seq(Characters) /\ b.content \in Seq(Characters)
        /\ ~ TooLarge(a.content)
        /\ a.key = ShardKey(a.key.salt, a.content) /\ b.key = ShardKey(b.key.salt, b.content)
    BY DEF KeyInv
  <2>2. QED
    BY <2>1, SharedAreCommon
<1>2. ASSUME delivered # None, request.endpoint = "completions", DOMAIN delivered # {}
      PROVE  IF key = NoKey THEN Salt(delivered) = RandomSalt ELSE Salt(delivered) = key.salt
  <2>1. request \in Requests /\ delivered = Prepared /\ pc # "mutate"
    BY <1>2 DEF DeliveredInv
  <2>2. DOMAIN request.body # {}
    BY <1>2, <2>1 DEF Prepared, WithSalt
  <2>3. Salt(Prepared) = IF Salt(request.body) # <<>> THEN Salt(request.body)
                         ELSE IF defaultSalt # <<>> THEN defaultSalt ELSE RandomSalt
    BY <1>2, <2>1, <2>2, PreparedSalt
  <2>4. /\ key # NoKey => ShardSalt(request.body) # <<>> /\ key.salt = ShardSalt(request.body)
        /\ ShardSalt(request.body) # <<>> => key # NoKey
    BY <1>2, <2>1, <2>2 DEF KeyInv
  <2>5. QED
    BY <2>1, <2>3, <2>4 DEF ShardSalt
<1>3. QED
  BY <1>1, <1>2 DEF ShardKeysFit

-----------------------------------------------------------------------------
(* Lines of the answer                                                       *)

\* Sealing a line keeps its kind and size and as many sealed fields, hides what
\* is confidential, and opening undoes it.
LEMMA SealedLine ==
  ASSUME request \in Requests, answer \in Answers, NEW n \in 1..Len(answer.lines),
         NEW from \in Nat, NEW line, line = answer.lines[n],
         NEW seal, seal = SealLine(line, from)
  PROVE  /\ seal.kind = line.kind /\ seal.size = line.size
         /\ SealedFields(line) \in Nat /\ SealedFields(seal) = SealedFields(line)
         /\ OpenLine(seal) = line
         /\ Mutated(seal) =>
              IF WholeAnswer(request) THEN OpensWhole(seal.doc, "adapter", from)
              ELSE Opens(seal.doc, JSONOrder(seal.doc, PlainResponse(request)), "adapter", from)
         /\ \A m \in DOMAIN seal.doc \cap Confidential : seal.doc[m].by = "adapter"
<1> DEFINE plain == PlainResponse(request)
<1>1. /\ line = [kind |-> line.kind, size |-> line.size, doc |-> line.doc]
      /\ Bare(line.doc) /\ IsFiniteSet(DOMAIN line.doc)
      /\ line.kind # "data" => DOMAIN line.doc = {}
      /\ Confidential \cap plain = {}
  <2>1. n \in DOMAIN answer.lines
    BY DocumentsAssumption
  <2>2. /\ line = [kind |-> line.kind, size |-> line.size, doc |-> line.doc]
        /\ Written(line.doc)
        /\ line.kind # "data" => DOMAIN line.doc = {}
    BY <2>1, DocumentsAssumption
  <2>3. Confidential \cap plain = {}
    BY DocumentsAssumption
  <2>4. QED
    BY <2>2, <2>3 DEF Written, Bare
<1>2. Cardinality(DOMAIN JSONOrder(line.doc, plain)) \in Nat
  <2>1. DOMAIN JSONOrder(line.doc, plain) = DOMAIN line.doc \ plain
    BY JSONOrderNames
  <2>2. IsFiniteSet(DOMAIN line.doc \ plain)
    BY <1>1, FS_Subset
  <2>3. QED
    BY <2>1, <2>2, FS_CardinalityType
<1>3. SealedFields(line) \in Nat
  BY <1>2 DEF SealedFields
<1>4. CASE ~ Mutated(line)
  BY <1>1, <1>3, <1>4 DEF SealLine, OpenLine, Mutated
<1>5. CASE Mutated(line) /\ WholeAnswer(request)
  <2>1. seal = [kind |-> line.kind, size |-> line.size, doc |-> SealWhole(line.doc, "adapter", from)]
    BY <1>1, <1>5 DEF SealLine
  <2>2. seal.kind = line.kind /\ seal.size = line.size /\ seal.doc = SealWhole(line.doc, "adapter", from)
    BY <2>1
  <2>3. Mutated(seal) /\ SealedFields(seal) = SealedFields(line)
    BY <1>5, <2>2 DEF Mutated, SealedFields
  <2>4. /\ OpenWhole(seal.doc) = line.doc /\ OpensWhole(seal.doc, "adapter", from)
        /\ \A m \in DOMAIN seal.doc : seal.doc[m].by = "adapter"
    BY <2>2 DEF OpenWhole, OpensWhole, SealWhole, Sealed
  <2>5. OpenLine(seal) = line
    BY <1>1, <1>5, <2>1, <2>3, <2>4 DEF OpenLine
  <2>6. QED
    BY <1>3, <1>5, <2>2, <2>3, <2>4, <2>5
<1>6. CASE Mutated(line) /\ ~ WholeAnswer(request)
  <2> DEFINE order == JSONOrder(line.doc, plain)
             doc == Seal(line.doc, order, "adapter", from)
  <2>1. seal = [kind |-> line.kind, size |-> line.size, doc |-> doc]
    BY <1>1, <1>6 DEF SealLine
  <2>2. DOMAIN doc = DOMAIN line.doc /\ JSONOrder(doc, plain) = order /\ DOMAIN order = DOMAIN line.doc \ plain
    <3>1. DOMAIN doc = DOMAIN line.doc
      BY SealKeepsNames
    <3>2. JSONOrder(doc, plain) = order
      BY <3>1, JSONOrderByName
    <3>3. DOMAIN order = DOMAIN line.doc \ plain
      BY JSONOrderNames
    <3>4. QED
      BY <3>1, <3>2, <3>3
  <2>3. Open(doc, order) = line.doc
    BY <1>1, OpenSealed
  <2>4. Opens(doc, order, "adapter", from)
    BY <2>2, OpensSealed
  <2>5. \A m \in DOMAIN doc \cap Confidential : doc[m].by = "adapter"
    BY <1>1, <2>2, SealKeepsNames
  <2> HIDE DEF order, doc, plain
  <2>6. seal.kind = line.kind /\ seal.size = line.size /\ seal.doc = doc
    BY <2>1
  <2>7. Mutated(seal)
    BY <1>6, <2>6 DEF Mutated
  <2>8. SealedFields(seal) = SealedFields(line)
    BY <1>6, <2>2, <2>6, <2>7 DEF SealedFields, plain, order
  <2>9. OpenLine(seal) = [seal EXCEPT !.doc = Open(doc, order)]
    BY <1>6, <2>2, <2>6, <2>7 DEF OpenLine, plain
  <2>10. OpenLine(seal) = line
    BY <1>1, <2>1, <2>3, <2>9
  <2>11. QED
    BY <1>3, <1>6, <2>2, <2>4, <2>5, <2>6, <2>8, <2>10 DEF plain
<1>7. QED
  BY <1>4, <1>5, <1>6

LEMMA OpenedLine ==
  ASSUME request \in Requests, answer \in Answers, NEW n \in 1..Len(answer.lines),
         NEW from \in Nat
  PROVE  /\ SealedFields(answer.lines[n]) \in Nat
         /\ SealedFields(SealLine(answer.lines[n], from)) = SealedFields(answer.lines[n])
         /\ OpenLine(SealLine(answer.lines[n], from)) = answer.lines[n]
<1> DEFINE line == answer.lines[n]
           seal == SealLine(line, from)
<1>1. line = answer.lines[n] /\ seal = SealLine(line, from)
  OBVIOUS
<1> HIDE DEF line, seal
<1>2. /\ SealedFields(line) \in Nat /\ SealedFields(seal) = SealedFields(line)
      /\ OpenLine(seal) = line
  BY <1>1, SealedLine
<1>3. QED
  BY <1>2 DEF line, seal

LEMMA ReadableLine ==
  ASSUME request \in Requests, answer \in Answers, NEW n \in 1..Len(answer.lines),
         got \in Nat, ~ Readable(SealLine(answer.lines[n], got))
  PROVE  answer.stream /\ answer.lines[n].size # "short"
<1> DEFINE line == answer.lines[n]
           seal == SealLine(line, got)
<1>1. line = answer.lines[n] /\ seal = SealLine(line, got)
  OBVIOUS
<1> HIDE DEF line, seal
<1>2. seal.size = line.size
  BY <1>1, SealedLine
<1>3. Mutated(seal) =>
        IF WholeAnswer(request) THEN OpensWhole(seal.doc, "adapter", got)
        ELSE Opens(seal.doc, JSONOrder(seal.doc, PlainResponse(request)), "adapter", got)
  BY <1>1, SealedLine
<1>4. ~ Readable(seal)
  BY DEF line, seal
<1>5. ~ Fits(seal, {"short"})
  BY <1>3, <1>4 DEF Readable
<1>6. QED
  BY <1>1, <1>2, <1>5 DEF Fits

LEMMA HiddenLine ==
  ASSUME request \in Requests, answer \in Answers, NEW n \in 1..Len(answer.lines),
         NEW from \in Nat
  PROVE  \A m \in DOMAIN SealLine(answer.lines[n], from).doc \cap Confidential :
            SealLine(answer.lines[n], from).doc[m].by = "adapter"
<1> DEFINE line == answer.lines[n]
           seal == SealLine(line, from)
<1>1. line = answer.lines[n] /\ seal = SealLine(line, from)
  OBVIOUS
<1> HIDE DEF line, seal
<1>2. \A m \in DOMAIN seal.doc \cap Confidential : seal.doc[m].by = "adapter"
  BY <1>1, SealedLine
<1>3. QED
  BY <1>2 DEF line, seal

LEMMA LinesAreSealed ==
  ASSUME NEW n \in 1..Len(answer.lines), NEW from \in Nat
  PROVE  SealLine(answer.lines[n], from) \in SealedLines
BY DEF SealedLines

LEMMA OnlyFullLines ==
  ASSUME NEW t \in Nat
  PROVE  /\ Cardinality(FullLines(t)) \in Nat
         /\ Cardinality(FullLines(t + 1)) =
              IF answer.lines[t + 1].kind = "empty" THEN Cardinality(FullLines(t))
              ELSE Cardinality(FullLines(t)) + 1
<1>1. IsFiniteSet(FullLines(t))
  <2>1. IsFiniteSet(1..t)
    BY FS_Interval
  <2>2. FullLines(t) \subseteq 1..t
    BY DEF FullLines
  <2>3. QED
    BY <2>1, <2>2, FS_Subset
<1>2. t + 1 \notin FullLines(t)
  BY DEF FullLines
<1>3. 1..(t + 1) = 1..t \cup {t + 1}
  OBVIOUS
<1>4. FullLines(t + 1) =
        IF answer.lines[t + 1].kind = "empty" THEN FullLines(t) ELSE FullLines(t) \cup {t + 1}
  BY <1>3 DEF FullLines
<1>5. Cardinality(FullLines(t) \cup {t + 1}) = Cardinality(FullLines(t)) + 1
  BY <1>1, <1>2, FS_AddElement
<1>6. QED
  BY <1>1, <1>4, <1>5, FS_CardinalityType

LEMMA SameAnswer ==
  ASSUME UNCHANGED <<defaultSalt, request, answer>>
  PROVE  /\ UNCHANGED <<Prepared, SealedByClient, Lines, SealedLines>>
         /\ shown' = shown => Arrived' = Arrived
<1>1. UNCHANGED <<Prepared, SealedByClient>>
  BY SameRequest
<1>2. UNCHANGED <<Lines, SealedLines>>
  BY DEF Lines, SealedLines, SealLine, Mutated
<1>3. shown' = shown => Arrived' = Arrived
  BY DEF Arrived, FullLines
<1>4. QED
  BY <1>1, <1>2, <1>3

LEMMA AnswerStep ==
  ASSUME RequestInv, DeliveredInv, AnswerInv, WireInv, [Next]_vars
  PROVE  AnswerInv'
<1>1. CASE NewRequest
  BY <1>1 DEF NewRequest, NoAnswer, AnswerInv
<1>2. CASE UNCHANGED <<enc, got, taken, answer, wire, shown>>
             /\ (answer # None => UNCHANGED <<defaultSalt, request, dec>>)
             /\ (pc' \in {"idle", "mutate", "sent", "work"} => pc \in {"idle", "mutate", "sent", "work"})
             /\ (pc' \in {"answer", "done"} => pc \in {"answer", "done"})
  <2>1. CASE answer = None
    BY <1>2, <2>1 DEF AnswerInv
  <2>2. CASE answer # None
    <3>1. UNCHANGED <<SealedByClient, Lines, SealedLines, Arrived>>
      BY <1>2, <2>2, SameAnswer
    <3>2. QED
      BY <1>2, <2>2, <3>1 DEF AnswerInv
  <2>3. QED
    BY <2>1, <2>2
<1>3. CASE Sending
  BY <1>2, <1>3, SendingStep
<1>4. CASE MutatorFails
  BY <1>2, <1>4 DEF MutatorFails, reply
<1>5. CASE Retry
  BY <1>2, <1>5 DEF Retry, reply
<1>6. CASE Handling
  <2>1. answer = None
    BY <1>6, HandlingStep DEF AnswerInv
  <2>2. QED
    BY <1>2, <1>6, <2>1, HandlingStep
<1>7. CASE Answer
  <2>1. /\ pc = "work" /\ pc' = "answer" /\ answer' \in Answers
        /\ UNCHANGED <<defaultSalt, request, dec, enc, taken, wire, got, shown>>
    BY <1>7 DEF Answer
  <2>2. enc = 0 /\ got = 0 /\ taken = 0 /\ wire = <<>> /\ shown = <<>>
    BY <2>1 DEF AnswerInv
  <2>3. request \in Requests /\ dec = SealedByClient
    BY <2>1 DEF DeliveredInv
  <2>4. SealedByClient' = SealedByClient
    BY <2>1, SameRequest
  <2>5. Len(answer'.lines) \in Nat
    BY <2>1, DocumentsAssumption
  <2>6. answer' # None
    BY <2>1, FieldEncryptionAssumption
  <2>7. QED
    BY <2>1, <2>2, <2>3, <2>4, <2>5, <2>6 DEF AnswerInv, Arrived
<1>8. CASE TakeLine
  <2>1. /\ pc = "answer" /\ pc' = pc /\ taken < Len(answer.lines) /\ taken' = taken + 1
        /\ UNCHANGED <<defaultSalt, request, dec, answer, got, shown>>
        /\ \/ UNCHANGED <<wire, enc>>
           \/ /\ wire' = Append(wire, SealLine(Line(taken + 1), enc))
              /\ enc' = enc + SealedFields(Line(taken + 1))
    BY <1>8 DEF TakeLine
  <2>2. answer \in Answers /\ answer # None
    BY <2>1, FieldEncryptionAssumption DEF AnswerInv
  <2>3. /\ request \in Requests /\ dec = SealedByClient /\ taken \in Nat /\ enc \in Nat
        /\ got \in Nat /\ wire \in Seq(SealedLines) /\ shown \in Seq(Lines) /\ Arrived
    BY <2>2 DEF AnswerInv
  <2>4. Len(answer.lines) \in Nat
    BY <2>2, DocumentsAssumption
  <2>5. taken + 1 \in 1..Len(answer.lines) /\ taken' \in 0..Len(answer.lines)
    BY <2>1, <2>3, <2>4
  <2>6. SealLine(Line(taken + 1), enc) \in SealedLines
    BY <2>3, <2>5, LinesAreSealed DEF Line
  <2>7. SealedFields(Line(taken + 1)) \in Nat
    BY <2>2, <2>3, <2>5, SealedLine DEF Line
  <2>8. enc' \in Nat
    BY <2>1, <2>3, <2>7
  <2>9. wire' \in Seq(SealedLines)
    <3> HIDE DEF SealedLines
    <3>1. Append(wire, SealLine(Line(taken + 1), enc)) \in Seq(SealedLines)
      BY <2>3, <2>6, AppendProperties
    <3>2. QED
      BY <2>1, <2>3, <3>1
  <2>10. UNCHANGED <<SealedByClient, Lines, SealedLines, Arrived>>
    BY <2>1, SameAnswer
  <2>11. QED
    BY <2>1, <2>2, <2>3, <2>5, <2>8, <2>9, <2>10 DEF AnswerInv
<1>9. CASE ReadLine
  <2>1. /\ pc = "answer" /\ pc' \in {"answer", "failed"} /\ wire # <<>> /\ wire' = Tail(wire)
        /\ UNCHANGED <<defaultSalt, request, dec, enc, answer, taken>>
        /\ \/ UNCHANGED <<shown, got>>
           \/ /\ shown' = Append(shown, OpenLine(Head(wire)))
              /\ got' = got + SealedFields(Head(wire))
    BY <1>9 DEF ReadLine
  <2>2. answer \in Answers /\ answer # None
    BY <2>1, FieldEncryptionAssumption DEF AnswerInv
  <2>3. /\ request \in Requests /\ dec = SealedByClient /\ got \in Nat
        /\ enc \in Nat /\ taken \in 0..Len(answer.lines)
        /\ wire \in Seq(SealedLines) /\ shown \in Seq(Lines)
    BY <2>2 DEF AnswerInv
  <2>4. Len(wire) >= 1 /\ Head(wire) = wire[1] /\ wire' \in Seq(SealedLines)
    BY <2>1, <2>3
  <2>5. PICK n \in FullLines(Len(answer.lines)), from \in Nat :
          Cardinality(FullLines(n)) = Len(shown) + 1 /\ wire[1] = SealLine(answer.lines[n], from)
    <3>1. PICK start \in [Nat -> Nat] : \A k \in 1..Len(wire) : OnWire(k, start)
      BY <2>1 DEF WireInv
    <3>2. 1 \in 1..Len(wire) /\ start[1] \in Nat
      BY <2>3, <2>4
    <3>3. QED
      BY <3>1, <3>2 DEF OnWire
  <2>6. n \in 1..Len(answer.lines)
    BY <2>5 DEF FullLines
  <2>7. OpenLine(Head(wire)) = answer.lines[n] /\ SealedFields(Head(wire)) \in Nat
    <3> DEFINE line == answer.lines[n]
    <3>1. /\ OpenLine(SealLine(line, from)) = line
          /\ SealedFields(SealLine(line, from)) = SealedFields(line) /\ SealedFields(line) \in Nat
      BY <2>2, <2>3, <2>6, OpenedLine
    <3> HIDE DEF line
    <3>2. Head(wire) = SealLine(line, from)
      BY <2>4, <2>5 DEF line
    <3>3. QED
      BY <3>1, <3>2 DEF line
  <2>8. OpenLine(Head(wire)) \in Lines
    BY <2>6, <2>7 DEF Lines
  <2>9. got' \in Nat /\ shown' \in Seq(Lines)
    <3>1. Append(shown, OpenLine(Head(wire))) \in Seq(Lines)
      BY <2>3, <2>8, AppendProperties
    <3>2. got + SealedFields(Head(wire)) \in Nat
      BY <2>3, <2>7
    <3>3. QED
      BY <2>1, <2>3, <3>1, <3>2
  <2>10. ASSUME NEW k \in DOMAIN shown'
         PROVE  \E m \in FullLines(Len(answer.lines)) :
                  Cardinality(FullLines(m)) = k /\ shown'[k] = answer.lines[m]
    <3>1. CASE k \in DOMAIN shown /\ shown'[k] = shown[k]
      BY <2>2, <3>1 DEF AnswerInv, Arrived
    <3>2. CASE k = Len(shown) + 1 /\ shown'[k] = OpenLine(Head(wire))
      BY <2>5, <2>7, <3>2
    <3>3. CASE shown' = shown
      BY <2>10, <3>1, <3>3
    <3>4. CASE shown' = Append(shown, OpenLine(Head(wire)))
      <4>1. /\ DOMAIN shown' = 1..(Len(shown) + 1) /\ DOMAIN shown = 1..Len(shown)
            /\ \A j \in 1..Len(shown) : shown'[j] = shown[j]
            /\ shown'[Len(shown) + 1] = OpenLine(Head(wire))
        BY <2>3, <2>8, <3>4, AppendProperties
      <4>2. k \in 1..Len(shown) \/ k = Len(shown) + 1
        BY <2>3, <2>10, <4>1
      <4>3. QED
        BY <3>1, <3>2, <4>1, <4>2
    <3>5. QED
      BY <2>1, <3>3, <3>4
  <2>11. Arrived'
    BY <2>1, <2>10 DEF Arrived, FullLines
  <2>12. UNCHANGED <<SealedByClient, Lines, SealedLines>>
    BY <2>1, SameAnswer
  <2>13. QED
    BY <2>1, <2>2, <2>3, <2>4, <2>9, <2>11, <2>12 DEF AnswerInv
<1>10. CASE TakeLineFails \/ Finish
  BY <1>2, <1>10 DEF TakeLineFails, Finish, reply
<1>11. CASE UNCHANGED vars
  BY <1>2, <1>11 DEF vars, reply
<1>12. QED
  BY <1>1, <1>3, <1>4, <1>5, <1>6, <1>7, <1>8, <1>9, <1>10, <1>11, Steps DEF Answering

LEMMA OnWireStays ==
  ASSUME NEW k, NEW j, NEW start, NEW next, OnWire(k, start),
         UNCHANGED <<request, answer>>,
         wire'[j] = wire[k], Len(shown') + j = Len(shown) + k,
         next[j] = start[k], next[j + 1] = start[k + 1]
  PROVE  OnWire(j, next)'
<1>1. SealedFields(wire[j])' = SealedFields(wire[k])
  BY DEF SealedFields, Mutated
<1>2. ASSUME NEW n
      PROVE  SealLine(answer.lines[n], next[j])' = SealLine(answer.lines[n], start[k])
  BY DEF SealLine, Mutated
<1>3. ASSUME NEW n PROVE FullLines(n)' = FullLines(n)
  BY DEF FullLines
<1>4. FullLines(Len(answer.lines))' = FullLines(Len(answer.lines))
  BY DEF FullLines
<1>5. PICK n \in FullLines(Len(answer.lines)) :
        /\ Cardinality(FullLines(n)) = Len(shown) + k
        /\ wire[k] = SealLine(answer.lines[n], start[k])
  BY DEF OnWire
<1>6. \E l \in FullLines(Len(answer.lines))' :
        /\ Cardinality(FullLines(l))' = Len(shown') + j
        /\ wire'[j] = SealLine(answer.lines[l], next[j])'
  BY <1>2, <1>3, <1>4, <1>5
<1>7. next[j + 1] = next[j] + SealedFields(wire[j])'
  BY <1>1 DEF OnWire
<1>8. QED
  BY <1>6, <1>7 DEF OnWire

LEMMA WireStep ==
  ASSUME RequestInv, DeliveredInv, AnswerInv, WireInv, [Next]_vars
  PROVE  WireInv'
<1>1. CASE pc' \notin {"answer", "done"}
  BY <1>1 DEF WireInv
<1>2. CASE Answer
  <2>1. /\ pc = "work" /\ pc' = "answer"
        /\ UNCHANGED <<enc, taken, wire, got, shown>>
    BY <1>2 DEF Answer
  <2>2. enc = 0 /\ got = 0 /\ taken = 0 /\ wire = <<>> /\ shown = <<>>
    BY <2>1 DEF AnswerInv
  <2>3. Cardinality(FullLines(taken))' = 0
    <3>1. FullLines(taken)' = {}
      BY <2>1, <2>2 DEF FullLines
    <3>2. QED
      BY <3>1, FS_EmptySet
  <2> DEFINE start == [i \in Nat |-> 0]
  <2>4. start \in [Nat -> Nat] /\ start[1] = 0
    OBVIOUS
  <2> HIDE DEF start
  <2>5. Len(wire') = 0 /\ Len(shown') = 0 /\ 1..Len(wire') = {}
    BY <2>1, <2>2
  <2>6. start[1] = got' /\ start[Len(wire') + 1] = enc'
    BY <2>1, <2>2, <2>4, <2>5
  <2>7. \A k \in 1..Len(wire') : OnWire(k, start)'
    BY <2>5
  <2>8. Len(shown') + Len(wire') = Cardinality(FullLines(taken))'
    BY <2>3, <2>5
  <2>9. QED
    BY <2>1, <2>4, <2>6, <2>7, <2>8 DEF WireInv
<1>3. CASE TakeLine
  <2>1. /\ pc = "answer" /\ pc' = pc /\ taken < Len(answer.lines) /\ taken' = taken + 1
        /\ UNCHANGED <<request, answer, got, shown>>
        /\ \/ LeftOut(Line(taken + 1)) /\ UNCHANGED <<wire, enc>>
           \/ /\ ~ LeftOut(Line(taken + 1))
              /\ wire' = Append(wire, SealLine(Line(taken + 1), enc))
              /\ enc' = enc + SealedFields(Line(taken + 1))
    BY <1>3 DEF TakeLine
  <2>2. answer \in Answers /\ answer # None
    BY <2>1, FieldEncryptionAssumption DEF AnswerInv
  <2>3. /\ request \in Requests /\ taken \in Nat /\ enc \in Nat /\ got \in Nat
        /\ wire \in Seq(SealedLines) /\ shown \in Seq(Lines) /\ Len(answer.lines) \in Nat
    BY <2>2, DocumentsAssumption DEF AnswerInv
  <2>4. taken + 1 \in 1..Len(answer.lines) /\ Len(wire) \in Nat /\ Len(shown) \in Nat
    BY <2>1, <2>3, LenProperties
  <2>5. /\ Len(shown) + Len(wire) = Cardinality(FullLines(taken))
        /\ Cardinality(FullLines(taken)) \in Nat
        /\ Cardinality(FullLines(taken + 1)) =
             IF LeftOut(Line(taken + 1)) THEN Cardinality(FullLines(taken))
             ELSE Cardinality(FullLines(taken)) + 1
    BY <2>1, <2>3, OnlyFullLines DEF WireInv, LeftOut, Line
  <2>6. PICK start \in [Nat -> Nat] :
          /\ start[1] = got /\ start[Len(wire) + 1] = enc
          /\ \A k \in 1..Len(wire) : OnWire(k, start)
    BY <2>1 DEF WireInv
  <2>7. CASE LeftOut(Line(taken + 1))
    <3>1. UNCHANGED <<wire, enc>>
      BY <2>1, <2>7
    <3>2. Cardinality(FullLines(taken))' = Cardinality(FullLines(taken))
      BY <2>1, <2>5, <2>7 DEF FullLines
    <3>3. \A k \in 1..Len(wire) : OnWire(k, start)'
      BY <2>1, <2>6, <3>1, OnWireStays
    <3>4. QED
      BY <2>1, <2>5, <2>6, <3>1, <3>2, <3>3 DEF WireInv
  <2>8. CASE ~ LeftOut(Line(taken + 1))
    <3>1. PICK m, seal : m \in Nat /\ m = Len(wire) + 1 /\ seal = SealLine(Line(taken + 1), enc)
      <4>1. Len(wire) + 1 \in Nat
        BY <2>4
      <4>2. QED
        BY <4>1, Zenon
    <3>2. wire' = Append(wire, seal)
      BY <2>1, <2>8, <3>1
    <3>3. /\ enc' = enc + SealedFields(seal) /\ enc' \in Nat
      <4>1. SealedFields(Line(taken + 1)) \in Nat /\ SealedFields(seal) = SealedFields(Line(taken + 1))
        BY <2>2, <2>3, <2>4, <3>1, OpenedLine DEF Line
      <4>2. enc' = enc + SealedFields(Line(taken + 1)) /\ enc \in Nat
        BY <2>1, <2>3, <2>8
      <4>3. QED
        BY <4>1, <4>2
    <3>4. seal \in SealedLines
      <4>1. taken + 1 \in 1..Len(answer.lines) /\ enc \in Nat
        BY <2>3, <2>4
      <4>2. seal = SealLine(answer.lines[taken + 1], enc)
        BY <3>1 DEF Line
      <4>3. SealLine(answer.lines[taken + 1], enc) \in SealedLines
        BY <4>1, LinesAreSealed
      <4>4. QED
        BY <4>2, <4>3
    <3>5. /\ Len(wire') = m /\ wire'[m] = seal /\ \A k \in 1..Len(wire) : wire'[k] = wire[k]
      <4>1. wire \in Seq(SealedLines)
        BY <2>3
      <4>2. QED
        BY <3>1, <3>2, <3>4, <4>1, AppendProperties
    <3>6. PICK next \in [Nat -> Nat] : next = [start EXCEPT ![m + 1] = enc']
      BY <3>1, <3>3
    <3>7. next[m + 1] = enc' /\ \A k \in 1..m : next[k] = start[k]
      BY <3>1, <3>6
    <3>8. next[1] = got' /\ next[Len(wire') + 1] = enc'
      BY <2>1, <2>4, <2>6, <3>1, <3>5, <3>7
    <3>9. Cardinality(FullLines(taken))' = Len(shown') + Len(wire')
      <4>1. FullLines(taken)' = FullLines(taken + 1)
        BY <2>1 DEF FullLines
      <4>2. QED
        BY <2>1, <2>4, <2>5, <2>8, <3>1, <3>5, <4>1
    <3>10. ASSUME NEW k \in 1..Len(wire)
           PROVE  OnWire(k, next)'
      <4>1. OnWire(k, start)
        BY <2>6, <3>10
      <4>2. wire'[k] = wire[k] /\ next[k] = start[k] /\ next[k + 1] = start[k + 1]
        <5>1. k \in 1..m /\ k + 1 \in 1..m
          BY <2>4, <3>1, <3>10
        <5>2. QED
          BY <3>5, <3>7, <3>10, <5>1
      <4>3. UNCHANGED <<request, answer>> /\ Len(shown') + k = Len(shown) + k
        BY <2>1
      <4>4. QED
        BY <4>1, <4>2, <4>3, OnWireStays
    <3>11. OnWire(m, next)'
      <4>1. taken + 1 \in FullLines(Len(answer.lines))
        BY <2>4, <2>8 DEF FullLines, LeftOut, Line
      <4>2. Cardinality(FullLines(taken + 1)) = Len(shown') + m
        BY <2>1, <2>4, <2>5, <2>8, <3>1
      <4>3. next[m] = enc
        BY <2>4, <2>6, <3>1, <3>7
      <4>4. wire'[m] = SealLine(answer.lines[taken + 1], next[m])
        BY <3>1, <3>5, <4>3 DEF Line
      <4>5. next[m + 1] = next[m] + SealedFields(seal)
        BY <3>3, <3>7, <4>3
      <4>6. UNCHANGED <<request, answer>>
        BY <2>1
      <4>7. SealedFields(wire[m])' = SealedFields(seal)
        BY <3>5, <4>6 DEF SealedFields, Mutated
      <4>8. \E n \in FullLines(Len(answer.lines))' :
              /\ Cardinality(FullLines(n))' = Len(shown') + m
              /\ wire'[m] = SealLine(answer.lines[n], next[m])'
        <5>1. FullLines(Len(answer.lines))' = FullLines(Len(answer.lines))
          BY <4>6 DEF FullLines
        <5>2. ASSUME NEW n
              PROVE  /\ FullLines(n)' = FullLines(n)
                     /\ SealLine(answer.lines[n], next[m])' = SealLine(answer.lines[n], next[m])
          BY <4>6 DEF FullLines, SealLine, Mutated
        <5>3. QED
          BY <4>1, <4>2, <4>4, <5>1, <5>2
      <4>9. QED
        BY <4>5, <4>7, <4>8 DEF OnWire
    <3>12. \A k \in 1..Len(wire') : OnWire(k, next)'
      BY <2>4, <3>1, <3>5, <3>10, <3>11
    <3>13. QED
      BY <2>1, <3>6, <3>8, <3>9, <3>12 DEF WireInv
  <2>9. QED
    BY <2>7, <2>8
<1>4. CASE ReadLine /\ pc' = "answer"
  <2>1. /\ pc = "answer" /\ wire # <<>> /\ wire' = Tail(wire)
        /\ UNCHANGED <<request, enc, answer, taken>>
        /\ shown' = Append(shown, OpenLine(Head(wire)))
        /\ got' = got + SealedFields(Head(wire))
    BY <1>4 DEF ReadLine
  <2>2. answer \in Answers /\ answer # None
    BY <2>1, FieldEncryptionAssumption DEF AnswerInv
  <2>3. /\ wire \in Seq(SealedLines) /\ shown \in Seq(Lines)
    BY <2>2 DEF AnswerInv
  <2>4. PICK start \in [Nat -> Nat] :
          /\ start[1] = got /\ start[Len(wire) + 1] = enc
          /\ \A k \in 1..Len(wire) : OnWire(k, start)
    BY <2>1 DEF WireInv
  <2>5. Len(shown) + Len(wire) = Cardinality(FullLines(taken))
    BY <2>1 DEF WireInv
  <2>6. /\ Len(wire) \in Nat \ {0} /\ Len(shown) \in Nat /\ Head(wire) = wire[1]
        /\ Len(wire') = Len(wire) - 1 /\ \A k \in 1..Len(wire') : wire'[k] = wire[k + 1]
        /\ Len(shown') = Len(shown) + 1
    <3>1. Len(wire) \in Nat /\ Len(shown) \in Nat /\ Len(wire) # 0
      BY <2>1, <2>3, LenProperties
    <3>2. /\ Head(wire) = wire[1] /\ Len(Tail(wire)) = Len(wire) - 1
          /\ \A k \in 1..(Len(wire) - 1) : Tail(wire)[k] = wire[k + 1]
      BY <2>3, <3>1
    <3>3. Len(Append(shown, OpenLine(Head(wire)))) = Len(shown) + 1
      BY <2>3
    <3>4. QED
      BY <2>1, <3>1, <3>2, <3>3
  <2> DEFINE next == [j \in Nat |-> start[j + 1]]
  <2>7. next \in [Nat -> Nat] /\ \A j \in Nat : next[j] = start[j + 1]
    OBVIOUS
  <2> HIDE DEF next
  <2>8. got' = start[2]
    <3>1. OnWire(1, start)
      BY <2>4, <2>6
    <3>2. start[1 + 1] = start[1] + SealedFields(wire[1])
      BY <3>1 DEF OnWire
    <3>3. QED
      BY <2>1, <2>4, <2>6, <3>2
  <2>9. next[1] = got' /\ next[Len(wire') + 1] = enc'
    <3>1. next[1] = start[1 + 1]
      BY <2>7
    <3>2. Len(wire') + 1 = Len(wire) /\ Len(wire) \in Nat
      BY <2>6
    <3>3. next[Len(wire)] = start[Len(wire) + 1]
      BY <2>7, <3>2
    <3>4. QED
      BY <2>1, <2>4, <2>8, <3>1, <3>2, <3>3
  <2>10. Cardinality(FullLines(taken))' = Len(shown') + Len(wire')
    <3>1. FullLines(taken)' = FullLines(taken)
      BY <2>1 DEF FullLines
    <3>2. QED
      BY <2>5, <2>6, <3>1
  <2>11. ASSUME NEW k \in 1..Len(wire')
         PROVE  OnWire(k, next)'
    <3>1. /\ k + 1 \in 1..Len(wire) /\ k \in Nat /\ k + 1 \in Nat
          /\ Len(shown') + k = Len(shown) + (k + 1)
      BY <2>6, <2>11
    <3>2. OnWire(k + 1, start)
      BY <2>4, <3>1
    <3>3. wire'[k] = wire[k + 1] /\ next[k] = start[k + 1] /\ next[k + 1] = start[k + 1 + 1]
      BY <2>6, <2>7, <2>11, <3>1
    <3>4. QED
      BY <2>1, <3>1, <3>2, <3>3, OnWireStays
  <2>12. QED
    BY <1>4, <2>7, <2>9, <2>10, <2>11 DEF WireInv
<1>5. CASE Finish
  <2>1. /\ pc = "answer" /\ pc' = "done" /\ taken = Len(answer.lines) /\ wire = <<>>
        /\ UNCHANGED <<answer, shown>>
    BY <1>5 DEF Finish, reply
  <2>2. Len(shown) = Cardinality(FullLines(Len(answer.lines)))
    <3>1. answer # None
      BY <2>1, FieldEncryptionAssumption DEF AnswerInv
    <3>2. Len(shown) \in Nat
      BY <3>1 DEF AnswerInv
    <3>3. QED
      BY <2>1, <3>2 DEF WireInv
  <2>3. QED
    BY <2>1, <2>2 DEF WireInv, FullLines
<1>6. CASE UNCHANGED vars
  <2>1. UNCHANGED <<pc, request, answer, taken, wire, got, shown, enc>>
    BY <1>6 DEF vars, reply
  <2>2. QED
    <3>1. ASSUME NEW k, NEW start, OnWire(k, start) PROVE OnWire(k, start)'
      BY <2>1, <3>1, OnWireStays
    <3>2. /\ Cardinality(FullLines(taken))' = Cardinality(FullLines(taken))
          /\ Cardinality(FullLines(Len(answer.lines)))' = Cardinality(FullLines(Len(answer.lines)))
      BY <2>1 DEF FullLines
    <3>3. QED
      BY <2>1, <3>1, <3>2 DEF WireInv
<1>7. pc' \notin {"answer", "done"} \/ Answer \/ TakeLine \/ (ReadLine /\ pc' = "answer")
        \/ Finish \/ UNCHANGED vars
  <2>1. ASSUME NewRequest \/ Sending \/ MutatorFails \/ Retry \/ Handling \/ TakeLineFails
        PROVE  pc' \notin {"answer", "done"}
    BY <2>1, SendingStep, HandlingStep DEF NewRequest, MutatorFails, Retry, TakeLineFails
  <2>2. ASSUME ReadLine
        PROVE  pc' \in {"answer", "failed"}
    BY <2>2 DEF ReadLine
  <2>3. QED
    BY <2>1, <2>2, Steps DEF Answering
<1>8. QED
  BY <1>1, <1>2, <1>3, <1>4, <1>5, <1>6, <1>7

-----------------------------------------------------------------------------
(* Failures                                                                  *)

LEMMA FailsForReason ==
  FailsForAReason <=> (pc = "failed" => Reason)
BY DEF FailsForAReason, Reason

LEMMA SameReason ==
  ASSUME UNCHANGED <<defaultSalt, request, answer>>
  PROVE  Reason' = Reason
<1>1. /\ ShortSalt(WithSalt(request.body))' = ShortSalt(WithSalt(request.body))
      /\ ShardSalt(request.body)' = ShardSalt(request.body)
  BY DEF ShortSalt, WithSalt, Salt, Text, ShardSalt
<1>2. QED
  BY <1>1 DEF Reason, Content, Text, TooLarge, Tokens, Overridden

\* A completion the adapter finds wrong has a salt that is too short or an image
\* that is not secure.
LEMMA InvalidHasReason ==
  ASSUME RequestInv, request \in Requests, request.endpoint = "completions", ~ Valid(Prepared)
  PROVE  Reason
<1>1. Prepared = WithSalt(request.body)
  BY DEF Prepared
<1>2. DOMAIN request.body # {}
  BY <1>1 DEF Valid, WithSalt
<1>3. /\ DOMAIN Prepared = DOMAIN request.body \cup {"cache_salt"}
      /\ \A n \in DOMAIN request.body \ {"cache_salt"} : Prepared[n] = request.body[n]
      /\ Salt(Prepared) \in Seq(Characters) /\ Len(Salt(Prepared)) > 0
  BY <1>2, PreparedSalt
<1>4. CASE ~ (Len(Salt(Prepared)) >= MinSalt)
  <2>1. Len(Salt(Prepared)) \in Nat /\ MinSalt \in Nat
    BY <1>3, FieldEncryptionAssumption
  <2>2. ShortSalt(WithSalt(request.body))
    BY <1>1, <1>3, <1>4, <2>1 DEF ShortSalt
  <2>3. QED
    BY <2>2 DEF Reason
<1>5. CASE Range(Text(Prepared, "messages")) \cap InsecureParts # {}
  <2>1. Text(Prepared, "messages") = Text(request.body, "messages")
    BY <1>3 DEF Text
  <2>2. QED
    BY <1>5, <2>1 DEF Reason
<1>6. QED
  BY <1>4, <1>5 DEF Valid

LEMMA FailsStep ==
  ASSUME RequestInv, BodyInv, DeliveredInv, AnswerInv, WireInv, FailsForAReason, [Next]_vars
  PROVE  FailsForAReason'
<1> SUFFICES ASSUME pc' = "failed" PROVE Reason'
  <2>1. FailsForAReason' <=> (pc' = "failed" => Reason')
    BY DEF FailsForAReason, Reason
  <2>2. QED
    BY <2>1
<1>1. CASE MutatorFails
  <2>1. pc = "mutate" /\ UNCHANGED <<defaultSalt, request, answer>>
    BY <1>1 DEF MutatorFails, reply
  <2>2. body = request.body
    BY <2>1 DEF RequestInv
  <2>3. /\ request.endpoint = "completions"
        /\ \/ ShardSalt(request.body) # <<>> /\ TooLarge(Content(request.body))
           \/ ShortSalt(request.body)
    BY <1>1, <2>2 DEF MutatorFails
  <2>4. ASSUME ShortSalt(request.body) PROVE WithSalt(request.body) = request.body
    <3>1. Len(<<>>) = 0
      OBVIOUS
    <3>2. Salt(request.body) # <<>>
      BY <2>4, <3>1 DEF ShortSalt
    <3>3. QED
      BY <3>2 DEF WithSalt
  <2>5. Reason
    BY <2>3, <2>4 DEF Reason
  <2>6. QED
    BY <2>1, <2>5, SameReason
<1>2. CASE Handling
  <2>1. request \in Requests /\ UNCHANGED <<defaultSalt, request, answer>>
    BY <1>2, HandlingStep DEF RequestInv
  <2>2. \/ request.endpoint = "completions" /\ ~ Valid(Prepared)
        \/ Cardinality((DOMAIN request.body \cap Files) \ PlainRequest(request)) > 1
        \/ request.endpoint = "transcriptions" /\ Overridden \ PlainRequest(request) # {}
    BY <1>2, HandlingEnds
  <2>3. Reason
    BY <2>1, <2>2, InvalidHasReason DEF Reason
  <2>4. QED
    BY <2>1, <2>3, SameReason
<1>3. CASE TakeLineFails
  <2>1. /\ pc = "answer" /\ taken < Len(answer.lines)
        /\ ~ Sendable(Line(taken + 1))
        /\ UNCHANGED <<defaultSalt, request, answer>>
    BY <1>3 DEF TakeLineFails, reply
  <2>2. answer \in Answers /\ answer # None
    BY <2>1, FieldEncryptionAssumption DEF AnswerInv
  <2>3. /\ request \in Requests /\ dec = SealedByClient /\ taken \in Nat
    BY <2>2 DEF AnswerInv
  <2>4. taken + 1 \in DOMAIN answer.lines
    <3>1. DOMAIN answer.lines = 1..Len(answer.lines) /\ Len(answer.lines) \in Nat
      BY <2>2, DocumentsAssumption
    <3>2. QED
      BY <2>1, <2>3, <3>1
  <2>5. CASE ~ Fits(Line(taken + 1), {"short", "grown"})
    <3>1. answer.stream /\ answer.lines[taken + 1].size # "short"
      BY <2>5 DEF Fits, Line
    <3>2. Reason
      BY <2>2, <2>4, <3>1 DEF Reason
    <3>3. QED
      BY <2>1, <3>2, SameReason
  <2>6. CASE ~ (dec > 0)
    <3>1. SealedByClient = 0
      BY <2>3, <2>6, SealedByClientType
    <3>2. Cardinality(DOMAIN Prepared \ PlainRequest(request)) = 0
      BY <3>1 DEF SealedByClient
    <3>3. IsFiniteSet(DOMAIN Prepared) /\ DOMAIN request.body \subseteq DOMAIN Prepared
      BY <2>3, PreparedIsBare
    <3>4. IsFiniteSet(DOMAIN Prepared \ PlainRequest(request))
      BY <3>3, FS_Subset
    <3>5. DOMAIN Prepared \ PlainRequest(request) = {}
      BY <3>2, <3>4, FS_EmptySet
    <3>6. Reason
      BY <3>3, <3>5 DEF Reason
    <3>7. QED
      BY <2>1, <3>6, SameReason
  <2>7. QED
    BY <2>1, <2>5, <2>6 DEF Sendable
<1>4. CASE ReadLine
  <2>1. /\ pc = "answer" /\ wire # <<>> /\ ~ Readable(Head(wire))
        /\ UNCHANGED <<defaultSalt, request, answer>>
    BY <1>4 DEF ReadLine
  <2>2. answer \in Answers /\ answer # None
    BY <2>1, FieldEncryptionAssumption DEF AnswerInv
  <2>3. request \in Requests /\ got \in Nat /\ wire \in Seq(SealedLines)
    BY <2>2 DEF AnswerInv
  <2>4. PICK n \in FullLines(Len(answer.lines)) : Head(wire) = SealLine(answer.lines[n], got)
    <3>1. PICK start \in [Nat -> Nat] :
            start[1] = got /\ \A k \in 1..Len(wire) : OnWire(k, start)
      BY <2>1 DEF WireInv
    <3>2. 1 \in 1..Len(wire) /\ Head(wire) = wire[1]
      BY <2>1, <2>3, LenProperties
    <3>3. OnWire(1, start)
      BY <3>1, <3>2
    <3>4. QED
      BY <3>1, <3>2, <3>3 DEF OnWire
  <2>5. n \in 1..Len(answer.lines)
    BY <2>4 DEF FullLines
  <2>6. answer.stream /\ answer.lines[n].size # "short"
    BY <2>1, <2>2, <2>3, <2>4, <2>5, ReadableLine
  <2>7. n \in DOMAIN answer.lines
    BY <2>2, <2>5, DocumentsAssumption
  <2>8. Reason
    BY <2>2, <2>6, <2>7 DEF Reason
  <2>9. QED
    BY <2>1, <2>8, SameReason
<1>5. CASE UNCHANGED vars
  <2>1. pc = "failed" /\ UNCHANGED <<defaultSalt, request, answer>>
    BY <1>5 DEF vars, reply
  <2>2. QED
    BY <2>1, FailsForReason, SameReason
<1>6. ASSUME NewRequest \/ Sending \/ Retry \/ Answer \/ TakeLine \/ Finish
      PROVE  FALSE
  <2>1. ASSUME NewRequest \/ Retry \/ Answer \/ TakeLine \/ Finish PROVE FALSE
    BY <2>1 DEF NewRequest, Retry, Answer, TakeLine, Finish
  <2>2. QED
    BY <1>6, <2>1, SendingStep
<1>7. QED
  BY <1>1, <1>2, <1>3, <1>4, <1>5, <1>6, Steps DEF Answering
-----------------------------------------------------------------------------
(* The invariant                                                             *)

IInv ==
  /\ RequestInv /\ BodyInv /\ DeliveredInv /\ KeyInv
  /\ AnswerInv /\ WireInv /\ FailsForAReason

LEMMA InitInv ==
  ASSUME Init
  PROVE  IInv
<1>1. RequestInv
  BY FieldEncryptionAssumption DEF Init, RequestInv, Places
<1>2. BodyInv /\ DeliveredInv /\ KeyInv
  BY DEF Init, BodyInv, DeliveredInv, KeyInv
<1>3. AnswerInv
  BY DEF Init, AnswerInv
<1>4. WireInv /\ FailsForAReason
  BY DEF Init, WireInv, FailsForAReason
<1>5. QED
  BY <1>1, <1>2, <1>3, <1>4 DEF IInv

\* The invariant holds throughout.
THEOREM Invariance == Spec => []IInv
<1>1. Init => IInv
  BY InitInv
<1>2. ASSUME IInv, [Next]_vars PROVE IInv'
  <2>1. /\ RequestInv /\ BodyInv /\ DeliveredInv /\ KeyInv
        /\ AnswerInv /\ WireInv /\ FailsForAReason
    BY <1>2 DEF IInv
  <2>2. RequestInv' /\ BodyInv' /\ DeliveredInv' /\ KeyInv'
    BY <1>2, <2>1, RequestStep, BodyStep, DeliveredStep, KeyStep
  <2>3. AnswerInv' /\ WireInv' /\ FailsForAReason'
    BY <1>2, <2>1, AnswerStep, WireStep, FailsStep
  <2>4. QED
    BY <2>2, <2>3 DEF IInv
<1>3. QED
  BY <1>1, <1>2, PTL DEF Spec

\* The proxies' state keeps its type.
THEOREM TypeCorrect == Spec => []TypeOK
<1>1. ASSUME IInv PROVE TypeOK
  <2>1. RequestInv /\ DeliveredInv /\ AnswerInv
    BY <1>1 DEF IInv
  <2>2. QED
    BY <2>1 DEF TypeOK, RequestInv, DeliveredInv, AnswerInv
<1>2. QED
  BY <1>1, Invariance, PTL

\* What the workload gets is the request the application made, with a salt that
\* is long enough (server.go:305-360, openai.go:79-122).
THEOREM RequestArrives == Spec => []WorkloadGetsRequest
<1>1. ASSUME IInv PROVE WorkloadGetsRequest
  BY <1>1, DeliveredIsRequested DEF IInv
<1>2. QED
  BY <1>1, Invariance, PTL

\* Between the proxies nothing confidential can be read (mutators.go:180-335).
THEOREM NothingReadable == Spec => []NothingConfidentialReadable
<1>1. ASSUME IInv PROVE NothingConfidentialReadable
  <2>1. RequestInv /\ BodyInv /\ AnswerInv
    BY <1>1 DEF IInv
  <2>2. ASSUME pc = "sent", NEW n \in DOMAIN body \cap Confidential
        PROVE  body[n].by = "client"
    <3>1. request \in Requests
      BY <2>1, <2>2 DEF RequestInv
    <3>2. CASE request.endpoint = "unstructured"
      <4>1. body = SealWhole(request.body, "client", 0)
        BY <2>1, <2>2, <3>2 DEF BodyInv
      <4>2. QED
        BY <2>2, <4>1 DEF SealWhole, Sealed
    <3>3. CASE request.endpoint # "unstructured"
      <4>1. PICK order \in Orders : body = Seal(Prepared, order, "client", 0)
        BY <2>1, <2>2, <3>3 DEF BodyInv
      <4>2. DOMAIN order = DOMAIN Prepared \ PlainRequest(request)
        <5>1. IsFiniteSet(DOMAIN Prepared)
          BY <3>1, PreparedIsBare
        <5>2. CASE request.endpoint = "transcriptions"
          <6>1. DOMAIN Prepared = DOMAIN request.body
            BY <3>1, <5>2, PreparedIsBare
          <6>2. order \in FormOrders(request.body, PlainRequest(request))
            BY <4>1, <5>2 DEF Orders
          <6>3. QED
            BY <5>1, <6>1, <6>2, FormOrderNames
        <5>3. CASE request.endpoint # "transcriptions"
          <6>1. order = JSONOrder(Prepared, PlainRequest(request))
            BY <4>1, <5>3 DEF Orders
          <6>2. QED
            BY <6>1, JSONOrderNames
        <5>4. QED
          BY <5>2, <5>3
      <4>3. Confidential \cap PlainRequest(request) = {}
        BY <3>1, DocumentsAssumption
      <4>4. DOMAIN body = DOMAIN Prepared
        BY <4>1, SealKeepsNames
      <4>5. n \in DOMAIN Prepared \cap DOMAIN order
        BY <2>2, <4>2, <4>3, <4>4
      <4>6. QED
        BY <4>1, <4>5, SealKeepsNames
    <3>4. QED
      BY <3>2, <3>3
  <2>3. ASSUME NEW k \in DOMAIN wire, NEW n \in DOMAIN wire[k].doc \cap Confidential
        PROVE  wire[k].doc[n].by = "adapter"
    <3>1. answer # None
      BY <2>1, <2>3 DEF AnswerInv
    <3>2. answer \in Answers /\ request \in Requests /\ wire \in Seq(SealedLines)
      BY <2>1, <3>1 DEF AnswerInv
    <3>3. wire[k] \in SealedLines
      BY <2>3, <3>2, LenProperties, ElementOfSeq
    <3>4. PICK m \in 1..Len(answer.lines), from \in Nat : wire[k] = SealLine(answer.lines[m], from)
      BY <3>3 DEF SealedLines
    <3>5. QED
      BY <2>3, <3>2, <3>4, HiddenLine
  <2>4. QED
    BY <2>2, <2>3 DEF NothingConfidentialReadable
<1>2. QED
  BY <1>1, Invariance, PTL

\* Shard keys share as much as their texts do, and fit the salt the workload
\* gets (server.go:149-260, constants.go:103-120).
THEOREM KeysAreShared == Spec => []ShardKeysFit
<1>1. ASSUME IInv PROVE ShardKeysFit
  BY <1>1, KeysFit DEF IInv
<1>2. QED
  BY <1>1, Invariance, PTL

\* The application gets the lines of the answer in order, and all of them if the
\* answer ends well (mutators.go:239-335).
THEOREM AnswersArrive == Spec => []AnswerArrives
<1>1. ASSUME IInv PROVE AnswerArrives
  <2>1. AnswerInv /\ WireInv
    BY <1>1 DEF IInv
  <2>2. QED
    BY <2>1 DEF AnswerArrives, AnswerInv, Arrived, WireInv
<1>2. QED
  BY <1>1, Invariance, PTL

\* Requests and answers fail for the reasons there are and never because the two
\* sides number fields differently (mutators.go:180-335, openai.go:79-122).
THEOREM FailuresHaveReasons == Spec => []FailsForAReason
<1>1. IInv => FailsForAReason
  BY DEF IInv
<1>2. QED
  BY <1>1, Invariance, PTL
================================================================================
