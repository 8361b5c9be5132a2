---------------------------- MODULE ReportProofs ----------------------------
(***************************************************************************)
(* Facts about the report algebra that hold for every slice of reports,    *)
(* whatever its length, and the facts about sequences that other proofs    *)
(* use.                                                                    *)
(***************************************************************************)
EXTENDS Reports, SequencesExt, TLAPS, FiniteSetTheorems, SequenceTheorems,
        WellFoundedInduction

(* A nonempty set of positions has a last one.  The intervals i..n that    *)
(* start in T are ordered by inclusion, which is well-founded.             *)
LEMMA LastPosition ==
    ASSUME NEW n \in Nat, NEW T \in SUBSET (1..n), T # {}
    PROVE  \E m \in T : \A i \in T : i <= m
<1> DEFINE Up == {i..n : i \in T}
<1>1. Up \subseteq FiniteSubsetsOf(1..n) /\ Up # {}
  <2>1. ASSUME NEW i \in T PROVE i..n \in FiniteSubsetsOf(1..n)
    <3>1. i \in Int /\ n \in Int /\ i..n \in SUBSET (1..n)
      OBVIOUS
    <3>2. IsFiniteSet(i..n)
      BY <3>1, FS_Interval
    <3>3. QED
      BY <3>1, <3>2 DEF FiniteSubsetsOf
  <2>2. QED
    BY <2>1
<1>2. IsWellFoundedOn(StrictSubsetOrdering(1..n), FiniteSubsetsOf(1..n))
  BY FS_StrictSubsetOrderingWellFounded
<1>3. PICK x \in Up : \A y \in Up : <<y, x>> \notin StrictSubsetOrdering(1..n)
  <2> HIDE DEF Up
  <2>1. QED
    BY <1>1, <1>2, WFMin
<1>4. PICK m \in T : x = m..n
  BY <1>3
<1>5. ASSUME NEW i \in T PROVE i <= m
  <2>1. <<i..n, m..n>> \notin StrictSubsetOrdering(1..n)
    BY <1>3, <1>4
  <2>2. SUFFICES ASSUME m < i PROVE FALSE
    BY <1>4
  <2>3. i..n \subseteq m..n /\ m \in m..n /\ m \notin i..n
    BY <1>4, <2>2
  <2>4. i..n \in SUBSET (1..n) /\ m..n \in SUBSET (1..n)
    BY <1>4
  <2>5. QED
    BY <2>1, <2>3, <2>4 DEF StrictSubsetOrdering
<1>6. QED
  BY <1>5

(* Induction up to a bound: a set that holds 0 and with every number below *)
(* n the next one holds all of 0..n.                                       *)
LEMMA Climb ==
    ASSUME NEW n \in Nat, NEW T, 0 \in T,
           \A m \in 0..(n - 1) : m \in T => m + 1 \in T
    PROVE  \A m \in 0..n : m \in T
<1> DEFINE U == {k \in 1..(n + 1) : \A m \in 0..(k - 1) : m \in T}
<1>1. 1 \in U /\ U \in SUBSET (1..(n + 1)) /\ n + 1 \in Nat
  OBVIOUS
<1>2. PICK k \in U : \A i \in U : i <= k
  <2> HIDE DEF U
  <2>1. U # {}
    BY <1>1
  <2>2. QED
    BY <1>1, <2>1, LastPosition
<1>3. k \in 1..(n + 1) /\ \A m \in 0..(k - 1) : m \in T
  BY <1>2
<1>4. CASE k < n + 1
  <2>1. k - 1 \in 0..(n - 1) /\ k - 1 \in T /\ (k - 1) + 1 = k
    BY <1>3, <1>4
  <2>2. k \in T
    BY <2>1
  <2>3. \A m \in 0..((k + 1) - 1) : m \in T
    BY <1>3, <2>2
  <2>4. k + 1 \in U
    BY <1>3, <1>4, <2>3
  <2>5. k + 1 <= k
    <3> HIDE DEF U
    <3>1. QED
      BY <1>2, <2>4
  <2>6. QED
    BY <1>3, <2>5
<1>5. CASE k = n + 1
  BY <1>3, <1>5
<1>6. QED
  BY <1>3, <1>4, <1>5

-----------------------------------------------------------------------------
(* Flattening.                                                             *)

(* f is the recursive function FlattenSeq reads its result from.           *)
Flattens(f, s, n) ==
    f = [i \in 1..n |-> IF i = 1 THEN s[i] ELSE f[i - 1] \o s[i]]

(* There is one for every sequence: otherwise take the longest prefix that *)
(* has one, and extend it.                                                 *)
LEMMA FlattenExists ==
    ASSUME NEW s, NEW n \in Nat \ {0}
    PROVE  \E f : Flattens(f, s, n)
<1> DEFINE T == {m \in 1..n : \E f : Flattens(f, s, m)}
<1>1. 1 \in T
  <2>1. Flattens([i \in 1..1 |-> s[i]], s, 1)
    BY DEF Flattens
  <2>2. QED
    BY <2>1
<1>2. PICK m \in T : \A i \in T : i <= m
  <2> HIDE DEF T
  <2>1. T \in SUBSET (1..n)
    BY DEF T
  <2>2. QED
    BY <1>1, <2>1, LastPosition
<1>3. PICK f : Flattens(f, s, m)
  BY <1>2
<1>4. m \in 1..n
  BY <1>2
<1>5. CASE m < n
  <2> DEFINE k == m + 1
             g == [i \in 1..k |-> IF i = k THEN f[m] \o s[k] ELSE f[i]]
  <2>1. k \in 1..n /\ k # 1 /\ k - 1 = m /\ m \in 1..k
    BY <1>4, <1>5
  <2>2. ASSUME NEW i \in 1..k
        PROVE  g[i] = IF i = 1 THEN s[i] ELSE g[i - 1] \o s[i]
    <3>1. g[i] = IF i = k THEN f[m] \o s[k] ELSE f[i]
      OBVIOUS
    <3>2. CASE i = k
      <4>1. g[m] = f[m]
        BY <2>1
      <4>2. QED
        BY <2>1, <3>1, <3>2, <4>1
    <3>3. CASE i # k
      <4>1. i \in 1..m
        BY <2>1, <3>3
      <4>2. f[i] = IF i = 1 THEN s[i] ELSE f[i - 1] \o s[i]
        BY <1>3, <4>1 DEF Flattens
      <4>3. i # 1 => i - 1 \in 1..k /\ i - 1 # k
        BY <2>1, <4>1
      <4>4. i # 1 => g[i - 1] = f[i - 1]
        BY <4>3
      <4>5. QED
        BY <3>1, <3>3, <4>2, <4>4
    <3>4. QED
      BY <3>2, <3>3
  <2>3. g = [i \in 1..k |-> g[i]]
    OBVIOUS
  <2> HIDE DEF g
  <2>4. Flattens(g, s, k)
    BY <2>2, <2>3 DEF Flattens
  <2> HIDE DEF k
  <2>5. k \in T
    BY <2>1, <2>4
  <2>6. k <= m
    BY <1>2, <2>5
  <2>7. QED
    BY <1>4, <2>1, <2>6
<1>6. CASE m = n
  BY <1>3, <1>6
<1>7. QED
  BY <1>4, <1>5, <1>6

LEMMA FlattenDef ==
    ASSUME NEW s, Len(s) \in Nat \ {0}
    PROVE  \E f : Flattens(f, s, Len(s)) /\ FlattenSeq(s) = f[Len(s)]
<1> DEFINE f == CHOOSE f : f = [i \in 1..Len(s) |->
                                  IF i = 1 THEN s[i] ELSE f[i - 1] \o s[i]]
<1>1. Flattens(f, s, Len(s))
  <2>1. \E g : g = [i \in 1..Len(s) |-> IF i = 1 THEN s[i] ELSE g[i - 1] \o s[i]]
    BY FlattenExists DEF Flattens
  <2>2. QED
    BY <2>1 DEF Flattens
<1>2. FlattenSeq(s) = f[Len(s)]
  BY DEF FlattenSeq
<1>3. QED
  BY <1>1, <1>2

LEMMA FlattenType ==
    ASSUME NEW S, NEW s \in Seq(Seq(S)), s # <<>>,
           NEW f, Flattens(f, s, Len(s))
    PROVE  \A i \in 1..Len(s) : f[i] \in Seq(S)
<1> DEFINE n == Len(s)
           T == {m \in 1..n : \A i \in 1..m : f[i] \in Seq(S)}
<1>1. n \in Nat \ {0} /\ \A i \in 1..n : s[i] \in Seq(S)
  OBVIOUS
<1>2. \A i \in 1..n : f[i] = IF i = 1 THEN s[i] ELSE f[i - 1] \o s[i]
  BY DEF Flattens
<1> HIDE DEF n
<1>3. 1 \in T
  <2>1. 1 \in 1..n /\ f[1] \in Seq(S)
    BY <1>1, <1>2
  <2>2. \A i \in 1..1 : i = 1
    OBVIOUS
  <2>3. QED
    BY <2>1, <2>2
<1>4. PICK m \in T : \A i \in T : i <= m
  <2> HIDE DEF T
  <2>1. T \in SUBSET (1..n)
    BY DEF T
  <2>2. QED
    BY <1>1, <1>3, <2>1, LastPosition
<1>5. m \in 1..n /\ \A i \in 1..m : f[i] \in Seq(S)
  BY <1>4
<1>6. CASE m < n
  <2>1. m + 1 \in 1..n /\ m + 1 # 1 /\ (m + 1) - 1 = m /\ m \in 1..m
    BY <1>1, <1>5, <1>6
  <2>2. f[m + 1] = f[m] \o s[m + 1] /\ f[m] \in Seq(S) /\ s[m + 1] \in Seq(S)
    BY <1>1, <1>2, <1>5, <2>1
  <2>3. f[m + 1] \in Seq(S)
    BY <2>2, ConcatProperties
  <2>4. \A i \in 1..(m + 1) : i \in 1..m \/ i = m + 1
    BY <1>5
  <2>5. m + 1 \in T
    BY <1>5, <2>1, <2>3, <2>4
  <2>6. m + 1 <= m
    BY <1>4, <2>5
  <2>7. QED
    BY <1>5, <2>6
<1>7. CASE m = n
  BY <1>5, <1>7 DEF n
<1>8. QED
  BY <1>1, <1>5, <1>6, <1>7

LEMMA FlattenEmpty == FlattenSeq(<<>>) = <<>>
BY DEF FlattenSeq

(* The first element comes first.                                          *)
LEMMA FlattenFirst ==
    ASSUME NEW S, NEW s \in Seq(Seq(S)), s # <<>>
    PROVE  /\ FlattenSeq(s) \in Seq(S)
           /\ FlattenSeq(Tail(s)) \in Seq(S)
           /\ FlattenSeq(s) = Head(s) \o FlattenSeq(Tail(s))
<1> DEFINE n == Len(s)
           t == Tail(s)
<1>1. /\ n \in Nat \ {0} /\ \A i \in 1..n : s[i] \in Seq(S)
      /\ t \in Seq(Seq(S)) /\ Len(t) = n - 1 /\ \A i \in 1..(n - 1) : t[i] = s[i + 1]
      /\ Head(s) = s[1] /\ s[1] \in Seq(S)
  BY HeadTailProperties
<1>2. PICK f : Flattens(f, s, n) /\ FlattenSeq(s) = f[n]
  BY <1>1, FlattenDef
<1>3. /\ \A i \in 1..n : f[i] \in Seq(S)
      /\ \A i \in 1..n : f[i] = IF i = 1 THEN s[i] ELSE f[i - 1] \o s[i]
  BY <1>2, FlattenType DEF Flattens
<1> HIDE DEF n, t
<1>4. CASE n = 1
  <2>1. t = <<>>
    BY <1>1, <1>4
  <2>2. FlattenSeq(t) = <<>> /\ <<>> \in Seq(S)
    BY <2>1, FlattenEmpty
  <2>3. FlattenSeq(s) = s[1]
    BY <1>2, <1>3, <1>4
  <2>4. s[1] \o <<>> = s[1]
    BY <1>1, ConcatEmptySeq
  <2>5. QED
    BY <1>1, <2>2, <2>3, <2>4 DEF t
<1>5. CASE n # 1
  <2>1. Len(t) \in Nat \ {0} /\ Len(t) = n - 1 /\ t # <<>> /\ n \in Nat
    BY <1>1, <1>5
  <2>2. PICK g : Flattens(g, t, Len(t)) /\ FlattenSeq(t) = g[Len(t)]
    BY <2>1, FlattenDef
  <2>3. /\ \A i \in 1..(n - 1) : g[i] \in Seq(S)
        /\ \A i \in 1..(n - 1) : g[i] = IF i = 1 THEN t[i] ELSE g[i - 1] \o t[i]
    BY <1>1, <2>1, <2>2, FlattenType DEF Flattens
  <2> DEFINE T == {m \in 1..(n - 1) : f[m + 1] = s[1] \o g[m]}
             U == {m \in 1..(n - 1) : \A i \in 1..m : i \in T}
  <2>4. 1 \in T
    <3>1. 1 \in 1..(n - 1) /\ 1 + 1 \in 1..n /\ 1 + 1 # 1 /\ (1 + 1) - 1 = 1 /\ 1 \in 1..n
      BY <2>1
    <3>2. f[1 + 1] = f[1] \o s[1 + 1] /\ f[1] = s[1] /\ g[1] = t[1] /\ t[1] = s[1 + 1]
      BY <1>1, <1>3, <2>3, <3>1
    <3>3. QED
      BY <3>1, <3>2
  <2>5. ASSUME NEW m \in T, m < n - 1 PROVE m + 1 \in T
    <3>1. /\ m \in 1..(n - 1) /\ m + 1 \in 1..(n - 1) /\ m + 1 # 1 /\ (m + 1) - 1 = m
          /\ (m + 1) + 1 \in 1..n /\ (m + 1) + 1 # 1 /\ ((m + 1) + 1) - 1 = m + 1
      BY <2>1, <2>5
    <3>2. f[(m + 1) + 1] = f[m + 1] \o s[(m + 1) + 1]
      BY <1>3, <3>1
    <3>3. g[m + 1] = g[m] \o t[m + 1] /\ t[m + 1] = s[(m + 1) + 1]
      BY <1>1, <2>3, <3>1
    <3>4. f[m + 1] = s[1] \o g[m]
      BY <2>5
    <3>5. s[1] \in Seq(S) /\ g[m] \in Seq(S) /\ s[(m + 1) + 1] \in Seq(S)
      BY <1>1, <2>3, <3>1
    <3>6. (s[1] \o g[m]) \o s[(m + 1) + 1] = s[1] \o (g[m] \o s[(m + 1) + 1])
      <4> DEFINE x == s[1]
                 y == g[m]
                 z == s[(m + 1) + 1]
      <4>1. x \in Seq(S) /\ y \in Seq(S) /\ z \in Seq(S)
        BY <3>5
      <4> HIDE DEF x, y, z, T, U
      <4>2. (x \o y) \o z = x \o (y \o z)
        BY <4>1, SMTT(30)
      <4>3. QED
        BY <4>2 DEF x, y, z
    <3>7. QED
      BY <3>1, <3>2, <3>3, <3>4, <3>6
  <2>6. 1 \in U /\ U \in SUBSET (1..(n - 1))
    <3>1. \A i \in 1..1 : i = 1
      OBVIOUS
    <3> HIDE DEF T
    <3>2. 1 \in 1..(n - 1)
      BY <2>1
    <3>3. QED
      BY <2>4, <3>1, <3>2
  <2>7. PICK m \in U : \A i \in U : i <= m
    <3> HIDE DEF U
    <3>1. QED
      BY <2>1, <2>6, LastPosition
  <2> HIDE DEF T
  <2>8. m \in 1..(n - 1) /\ (\A i \in 1..m : i \in T) /\ m \in T
    BY <2>7
  <2>9. m = n - 1
    <3>1. SUFFICES ASSUME m < n - 1 PROVE FALSE
      BY <2>1, <2>8
    <3>2. m + 1 \in T /\ m + 1 \in 1..(n - 1)
      BY <2>1, <2>5, <2>8, <3>1
    <3>3. \A i \in 1..(m + 1) : i \in 1..m \/ i = m + 1
      BY <2>8
    <3>4. m + 1 \in U
      BY <2>8, <3>2, <3>3
    <3>5. m + 1 <= m
      BY <2>7, <3>4
    <3>6. QED
      BY <2>8, <3>5
  <2>10. (n - 1) + 1 = n /\ n - 1 \in T
    BY <2>1, <2>8, <2>9
  <2>11. f[n] = s[1] \o g[n - 1]
    BY <2>10 DEF T
  <2>12. FlattenSeq(t) = g[n - 1] /\ g[n - 1] \in Seq(S) /\ f[n] \in Seq(S)
    BY <1>3, <2>1, <2>2, <2>3
  <2>13. QED
    BY <1>1, <1>2, <2>11, <2>12 DEF t
<1>6. QED
  BY <1>4, <1>5

LEMMA HeadTailOfConcat ==
    ASSUME NEW S, NEW s \in Seq(S), NEW t \in Seq(S), s # <<>>
    PROVE  /\ s \o t \in Seq(S) /\ s \o t # <<>>
           /\ Head(s \o t) = Head(s) /\ Tail(s \o t) = Tail(s) \o t
OBVIOUS

LEMMA FlattenConcat ==
    ASSUME NEW S, NEW a \in Seq(Seq(S)), NEW b \in Seq(Seq(S))
    PROVE  /\ FlattenSeq(a \o b) = FlattenSeq(a) \o FlattenSeq(b)
           /\ FlattenSeq(a) \in Seq(S)
<1> DEFINE n == Len(a)
           T == {m \in 0..n : \A x \in Seq(Seq(S)) : Len(x) = m =>
                    /\ FlattenSeq(x \o b) = FlattenSeq(x) \o FlattenSeq(b)
                    /\ FlattenSeq(x) \in Seq(S)}
<1>1. n \in Nat
  OBVIOUS
<1>2. FlattenSeq(b) \in Seq(S)
  <2>1. CASE b = <<>>
    <3>1. <<>> \in Seq(S) /\ FlattenSeq(b) = <<>>
      BY <2>1, FlattenEmpty
    <3>2. QED
      BY <3>1
  <2>2. CASE b # <<>>
    BY <2>2, FlattenFirst
  <2>3. QED
    BY <2>1, <2>2
<1>3. 0 \in T
  <2>1. ASSUME NEW x \in Seq(Seq(S)), Len(x) = 0
        PROVE  /\ FlattenSeq(x \o b) = FlattenSeq(x) \o FlattenSeq(b)
               /\ FlattenSeq(x) \in Seq(S)
    <3>1. x = <<>>
      BY <2>1
    <3>2. x \o b = b
      BY <3>1
    <3>3. FlattenSeq(x) = <<>>
      BY <3>1, FlattenEmpty
    <3>4. <<>> \o FlattenSeq(b) = FlattenSeq(b)
      BY <1>2
    <3>5. QED
      BY <3>2, <3>3, <3>4
  <2>2. QED
    BY <1>1, <2>1
<1>4. ASSUME NEW m \in 0..(n - 1), m \in T PROVE m + 1 \in T
  <2>1. ASSUME NEW x \in Seq(Seq(S)), Len(x) = m + 1
        PROVE  /\ FlattenSeq(x \o b) = FlattenSeq(x) \o FlattenSeq(b)
               /\ FlattenSeq(x) \in Seq(S)
    <3> DEFINE h == Head(x)
               t == Tail(x)
               xb == x \o b
    <3>1. x # <<>> /\ h \in Seq(S) /\ t \in Seq(Seq(S)) /\ Len(t) = m
      BY <1>1, <2>1, HeadTailProperties
    <3>2. xb \in Seq(Seq(S)) /\ xb # <<>> /\ Head(xb) = h /\ Tail(xb) = t \o b
      BY <3>1, HeadTailOfConcat
    <3>3. FlattenSeq(xb) = h \o FlattenSeq(t \o b)
      <4> HIDE DEF xb, h, t
      <4>1. FlattenSeq(xb) = Head(xb) \o FlattenSeq(Tail(xb))
        BY <3>2, FlattenFirst
      <4>2. QED
        BY <3>2, <4>1
    <3>4. FlattenSeq(x) = h \o FlattenSeq(t) /\ FlattenSeq(x) \in Seq(S)
      BY <3>1, FlattenFirst
    <3>5. FlattenSeq(t \o b) = FlattenSeq(t) \o FlattenSeq(b) /\ FlattenSeq(t) \in Seq(S)
      BY <1>4, <3>1
    <3> DEFINE p == FlattenSeq(t)
               q == FlattenSeq(b)
    <3>6. p \in Seq(S) /\ q \in Seq(S) /\ h \in Seq(S)
      BY <1>2, <3>1, <3>5
    <3> HIDE DEF p, q, h, T, xb
    <3>7. h \o (p \o q) = (h \o p) \o q
      BY <3>6, SMTT(30)
    <3>8. QED
      BY <3>3, <3>4, <3>5, <3>7 DEF p, q, xb
  <2>2. m + 1 \in 0..n
    BY <1>1
  <2>3. QED
    BY <2>1, <2>2
<1>5. n \in T
  <2> HIDE DEF T
  <2>1. \A m \in 0..n : m \in T
    BY <1>1, <1>3, <1>4, Climb
  <2>2. QED
    BY <1>1, <2>1
<1>6. QED
  BY <1>5

LEMMA FlattenNothing ==
    ASSUME NEW s \in Seq({<<>>})
    PROVE  FlattenSeq(s) = <<>>
<1>1. CASE s = <<>>
  BY <1>1, FlattenEmpty
<1>2. CASE s # <<>>
  <2> DEFINE n == Len(s)
  <2>1. n \in Nat \ {0} /\ \A i \in 1..n : s[i] = <<>>
    BY <1>2
  <2>2. PICK f : Flattens(f, s, n) /\ FlattenSeq(s) = f[n]
    BY <2>1, FlattenDef
  <2>3. \A i \in 1..n : f[i] = IF i = 1 THEN s[i] ELSE f[i - 1] \o s[i]
    BY <2>2 DEF Flattens
  <2> HIDE DEF n
  <2> DEFINE T == {m \in 0..n : m = 0 \/ f[m] = <<>>}
  <2>4. 0 \in T
    BY <2>1
  <2>5. ASSUME NEW m \in 0..(n - 1), m \in T PROVE m + 1 \in T
    <3>1. m + 1 \in 1..n /\ (m + 1) - 1 = m /\ s[m + 1] = <<>> /\ m + 1 \in 0..n
      BY <2>1
    <3>2. CASE m = 0
      BY <2>3, <3>1, <3>2
    <3>3. CASE m # 0
      <4>1. f[m] = <<>> /\ m + 1 # 1
        BY <2>1, <2>5, <3>3
      <4>2. f[m + 1] = f[m] \o s[m + 1]
        BY <2>3, <3>1, <4>1
      <4>3. <<>> \o <<>> = <<>>
        OBVIOUS
      <4>4. QED
        BY <3>1, <4>1, <4>2, <4>3
    <3>4. QED
      BY <3>2, <3>3
  <2>6. n \in T
    <3> HIDE DEF T
    <3>1. n \in Nat /\ \A m \in 0..(n - 1) : m \in T => m + 1 \in T
      BY <2>1, <2>5
    <3>2. \A m \in 0..n : m \in T
      BY <2>4, <3>1, Climb
    <3>3. QED
      BY <3>1, <3>2
  <2>7. QED
    BY <2>1, <2>2, <2>6
<1>3. QED
  BY <1>1, <1>2

\* A flattened sequence of one element.
LEMMA FlattenSingle ==
    ASSUME NEW S, NEW x \in Seq(S)
    PROVE  FlattenSeq(<<x>>) = x
<1> DEFINE s == <<x>>
<1>1. s \in Seq(Seq(S)) /\ Len(s) = 1 /\ s[1] = x
  OBVIOUS
<1> HIDE DEF s
<1>2. Len(s) \in Nat \ {0}
  BY <1>1
<1>3. PICK f : Flattens(f, s, Len(s)) /\ FlattenSeq(s) = f[Len(s)]
  BY <1>2, FlattenDef
<1>4. f[1] = s[1]
  BY <1>1, <1>3 DEF Flattens
<1>5. QED
  BY <1>1, <1>3, <1>4 DEF s

-----------------------------------------------------------------------------
(* Classification.                                                         *)

LEMMA PriorityRange == \A rep : ReportPriority(rep) \in 1..7
BY DEF ReportPriority

LEMMA DispositionType ==
    \A rep \in Report : EffectiveDisposition(rep) \in Dispositions
BY DEF Report, EffectiveDisposition, Malformed, DeriveDisposition, Dispositions, Actions

LEMMA NormalizeType == \A rep \in Report : NormalizeReport(rep) \in Report
BY DispositionType DEF NormalizeReport, Report

LEMMA NormalizeAllType ==
    ASSUME NEW s \in Seq(Report)
    PROVE  /\ NormalizeAll(s) \in Seq(Report)
           /\ Len(NormalizeAll(s)) = Len(s)
           /\ \A i \in 1..Len(s) : NormalizeAll(s)[i] = NormalizeReport(s[i])
BY NormalizeType DEF NormalizeAll

(* Normalising twice is normalising once: a report keeps its class, its    *)
(* rank and its standing as an observation.                                *)
LEMMA NormalizeKeepsClass ==
    ASSUME NEW rep \in Report
    PROVE  /\ EffectiveDisposition(NormalizeReport(rep)) = EffectiveDisposition(rep)
           /\ ReportPriority(NormalizeReport(rep)) = ReportPriority(rep)
           /\ IsObservation(NormalizeReport(rep)) = IsObservation(rep)
           /\ NormalizeReport(rep).kind = rep.kind
           /\ NormalizeReport(rep).action = rep.action
<1> DEFINE nr == NormalizeReport(rep)
<1>1. /\ nr.action = rep.action /\ nr.kind = rep.kind /\ nr.fatal = rep.fatal
      /\ nr.retryable = rep.retryable /\ nr.shadow = rep.shadow
      /\ nr.finite = rep.finite /\ nr.disposition = EffectiveDisposition(rep)
  BY DEF NormalizeReport, Report
<1>2. EffectiveDisposition(nr) = EffectiveDisposition(rep)
  <2> HIDE DEF nr
  <2>1. QED
    BY <1>1, DispositionType
       DEF EffectiveDisposition, Malformed, DeriveDisposition, Dispositions, Actions, Report
<1>3. QED
  <2> HIDE DEF nr
  <2>1. ReportPriority(nr) = ReportPriority(rep)
    BY <1>1, <1>2
       DEF ReportPriority, IsSystemFault, IsTerminalDeny, IsRetryableCorrection
  <2>2. IsObservation(nr) = IsObservation(rep)
    BY <1>1, <1>2 DEF IsObservation, IsTerminalDeny
  <2>3. QED
    BY <1>1, <1>2, <2>1, <2>2 DEF nr

-----------------------------------------------------------------------------
(* The decision over a slice.                                              *)

(* A slice with an enforcing report has a last one of the highest rank.    *)
LEMMA SelectedIsLast ==
    ASSUME NEW s \in Seq(Report), Enforcing(s) # {}
    PROVE  /\ Selected(s) \in Enforcing(s)
           /\ \A j \in Enforcing(s) :
                 \/ ReportPriority(s[j]) < ReportPriority(s[Selected(s)])
                 \/ ReportPriority(s[j]) = ReportPriority(s[Selected(s)]) /\ j <= Selected(s)
<1> DEFINE E == Enforcing(s)
           P(i) == ReportPriority(s[i])
<1>1. E \in SUBSET (1..Len(s)) /\ E # {} /\ Len(s) \in Nat
  BY DEF Enforcing
<1>2. PICK top \in {P(i) : i \in E} : \A p \in {P(i) : i \in E} : p <= top
  <2>1. {P(i) : i \in E} \in SUBSET (1..7) /\ {P(i) : i \in E} # {}
    BY <1>1, PriorityRange
  <2> HIDE DEF E, P
  <2>2. QED
    BY <2>1, LastPosition
<1>3. PICK m \in {i \in E : P(i) = top} : \A i \in {k \in E : P(k) = top} : i <= m
  <2> HIDE DEF P, E
  <2>1. {i \in E : P(i) = top} \in SUBSET (1..Len(s)) /\ {i \in E : P(i) = top} # {}
    BY <1>1, <1>2
  <2>2. QED
    BY <1>1, <2>1, LastPosition
<1>4. \A i \in E : P(i) \in 1..7
  BY PriorityRange
<1>5. \A j \in E : P(j) < P(m) \/ (P(j) = P(m) /\ j <= m)
  <2> SUFFICES ASSUME NEW j \in E PROVE P(j) < P(m) \/ (P(j) = P(m) /\ j <= m)
    OBVIOUS
  <2> HIDE DEF P, E
  <2>1. m \in E /\ P(m) = top
    BY <1>3
  <2>2. P(j) <= top
    BY <1>2
  <2>3. P(j) \in 1..7 /\ P(m) \in 1..7
    BY <1>4, <2>1
  <2>4. CASE P(j) = top
    BY <1>3, <2>1, <2>4
  <2>5. CASE P(j) # top
    BY <2>1, <2>2, <2>3, <2>5
  <2>6. QED
    BY <2>4, <2>5
<1>6. /\ Selected(s) \in E
      /\ \A j \in E : P(j) < P(Selected(s)) \/ (P(j) = P(Selected(s)) /\ j <= Selected(s))
  BY <1>3, <1>5 DEF Selected
<1>7. QED
  BY <1>6

LEMMA SelectedIsStrongest ==
    ASSUME NEW s \in Seq(Report), Enforcing(s) # {}
    PROVE  /\ Selected(s) \in Enforcing(s)
           /\ \A j \in Enforcing(s) :
                 ReportPriority(s[j]) <= ReportPriority(s[Selected(s)])
<1>1. ReportPriority(s[Selected(s)]) \in 1..7
  BY PriorityRange
<1>2. \A j \in Enforcing(s) : ReportPriority(s[j]) \in 1..7
  BY PriorityRange
<1>3. QED
  BY <1>1, <1>2, SelectedIsLast

(* The default decision of a slice in which nothing enforces.              *)
LEMMA DefaultDecision ==
    LET d == FinishReport(BlankReport("pass", "safe"), "pass", FALSE)
    IN  d \in Report /\ ReportPriority(d) = 1
<1> DEFINE b == BlankReport("pass", "safe")
           d == FinishReport(b, "pass", FALSE)
<1>1. b \in Report /\ b.action = "pass" /\ b.disposition = "none" /\ ~b.fatal
      /\ ~b.retryable /\ b.kind = "safe" /\ b.finite
  BY DEF BlankReport, Report, Actions, Dispositions, PayloadKinds
<1>2. d = NormalizeReport([b EXCEPT !.retryable = FALSE, !.fatal = FALSE])
  BY <1>1 DEF FinishReport, BlankReport
<1> DEFINE e == [b EXCEPT !.retryable = FALSE, !.fatal = FALSE]
<1>3. e \in Report /\ e.action = "pass" /\ e.disposition = "none" /\ ~e.fatal
      /\ ~e.retryable /\ e.kind = "safe" /\ e.finite
  <2> HIDE DEF b
  <2>1. QED
    BY <1>1 DEF Report
<1>4. ReportPriority(e) = 1
  <2> HIDE DEF e
  <2>1. EffectiveDisposition(e) = "none"
    BY <1>3 DEF EffectiveDisposition, Malformed, DeriveDisposition,
                Actions, Dispositions, PayloadKinds
  <2>2. QED
    BY <1>3, <2>1
       DEF ReportPriority, IsSystemFault, IsTerminalDeny, IsRetryableCorrection
<1>5. d \in Report /\ ReportPriority(d) = 1
  <2> HIDE DEF e
  <2>1. QED
    BY <1>2, <1>3, <1>4, NormalizeType, NormalizeKeepsClass DEF e
<1>6. QED
  BY <1>5

LEMMA DecisionType == \A s \in Seq(Report) : Decision(s) \in Report
<1> SUFFICES ASSUME NEW s \in Seq(Report) PROVE Decision(s) \in Report
  OBVIOUS
<1>1. CASE Enforcing(s) = {}
  BY <1>1, DefaultDecision DEF Decision
<1>2. CASE Enforcing(s) # {}
  <2>1. Selected(s) \in DOMAIN s
    BY <1>2, SelectedIsStrongest DEF Enforcing
  <2>2. s[Selected(s)] \in Report
    BY <2>1
  <2>3. QED
    BY <1>2, <2>2, NormalizeType DEF Decision
<1>3. QED
  BY <1>1, <1>2

(* The decision is at least as strong as every report that may enforce.    *)
THEOREM DecisionIsStrongest ==
    ASSUME NEW s \in Seq(Report), NEW i \in Enforcing(s)
    PROVE  ReportPriority(s[i]) <= ReportPriority(Decision(s))
<1>1. Enforcing(s) # {}
  OBVIOUS
<1>2. Selected(s) \in Enforcing(s)
      /\ ReportPriority(s[i]) <= ReportPriority(s[Selected(s)])
  BY <1>1, SelectedIsStrongest
<1>3. s[Selected(s)] \in Report
  BY <1>2 DEF Enforcing
<1>4. Decision(s) = NormalizeReport(s[Selected(s)])
  BY <1>1 DEF Decision
<1>5. QED
  BY <1>2, <1>3, <1>4, NormalizeKeepsClass

(* The decision is no stronger than some report of the slice: nothing is   *)
(* denied that no report denies.                                           *)
LEMMA DecisionHasWitness ==
    ASSUME NEW s \in Seq(Report)
    PROVE  \/ ReportPriority(Decision(s)) = 1
           \/ \E i \in Enforcing(s) : ReportPriority(Decision(s)) = ReportPriority(s[i])
<1>1. CASE Enforcing(s) = {}
  BY <1>1, DefaultDecision DEF Decision
<1>2. CASE Enforcing(s) # {}
  <2>1. Selected(s) \in Enforcing(s) /\ s[Selected(s)] \in Report
    BY <1>2, SelectedIsStrongest DEF Enforcing
  <2>2. QED
    BY <1>2, <2>1, NormalizeKeepsClass DEF Decision
<1>3. QED
  BY <1>1, <1>2

-----------------------------------------------------------------------------
(* Payload kinds.                                                          *)

LEMMA AggregateInKinds ==
    ASSUME NEW s \in Seq(Report)
    PROVE  /\ AggregatePayloadKind(s) \in KindsOf(s)
           /\ \A j \in KindsOf(s) :
                 PayloadKindPriority(j) <= PayloadKindPriority(AggregatePayloadKind(s))
<1> DEFINE K == KindsOf(s)
<1>1. K \subseteq PayloadKinds /\ "safe" \in K
  BY DEF KindsOf, PayloadKinds
<1>2. \E k \in K : \A j \in K : PayloadKindPriority(j) <= PayloadKindPriority(k)
  <2> HIDE DEF K
  <2>1. CASE "technical" \in K
    BY <1>1, <2>1 DEF PayloadKindPriority, PayloadKinds
  <2>2. CASE "technical" \notin K /\ "internal" \in K
    BY <1>1, <2>2 DEF PayloadKindPriority, PayloadKinds
  <2>3. CASE "technical" \notin K /\ "internal" \notin K
    BY <1>1, <2>3 DEF PayloadKindPriority, PayloadKinds
  <2>4. QED
    BY <2>1, <2>2, <2>3
<1>3. QED
  BY <1>2 DEF AggregatePayloadKind

LEMMA AggregateIsStrictest ==
    ASSUME NEW s \in Seq(Report)
    PROVE  /\ AggregatePayloadKind(s) \in PayloadKinds
           /\ \A i \in DOMAIN s :
                 PayloadKindPriority(s[i].kind)
                    <= PayloadKindPriority(AggregatePayloadKind(s))
<1>1. AggregatePayloadKind(s) \in PayloadKinds
  BY AggregateInKinds DEF KindsOf, PayloadKinds
<1>2. ASSUME NEW i \in DOMAIN s
      PROVE  PayloadKindPriority(s[i].kind)
                <= PayloadKindPriority(AggregatePayloadKind(s))
  <2>1. CASE s[i].kind \in PayloadKinds
    <3>1. s[i].kind \in KindsOf(s)
      BY <2>1 DEF KindsOf
    <3>2. QED
      BY <3>1, AggregateInKinds
  <2>2. CASE s[i].kind \notin PayloadKinds
    BY <1>1, <2>2 DEF PayloadKindPriority, PayloadKinds
  <2>3. QED
    BY <2>1, <2>2
<1>3. QED
  BY <1>1, <1>2

(* Composing keeps the strictest kind and yields a report.                 *)
LEMMA ComposeType ==
    ASSUME NEW s \in Seq(Report)
    PROVE  ComposeReports(s) \in Report
<1>1. NormalizeAll(s) \in Seq(Report)
  BY NormalizeType DEF NormalizeAll
<1>2. Decision(NormalizeAll(s)) \in Report
  BY <1>1, DecisionType
<1>3. AggregatePayloadKind(s) \in PayloadKinds
  BY AggregateIsStrictest
<1>4. QED
  BY <1>2, <1>3 DEF ComposeReports, Report
-----------------------------------------------------------------------------
(* What the host sees of a decision.                                       *)

\* The error class and the host-facing disposition that go together.
DispositionOf(class) ==
    CASE class = "nil"     -> "none"
      [] class = "retry"   -> "retryable_correction"
      [] class = "blocked" -> "terminal_deny"
      [] class = "fault"   -> "system_fault"

(* The class of the error is the class of the decision.                    *)
LEMMA ErrorOfReport ==
    ASSUME NEW rep \in Report
    PROVE  /\ ErrorFromDecision(rep) \in ErrorClasses
           /\ DispositionOf(ErrorFromDecision(rep)) = EffectiveDisposition(rep)
<1>1. EffectiveDisposition(rep) = "none" => rep.action \in {"pass", "redact"}
  BY DEF EffectiveDisposition, Malformed, DeriveDisposition, Actions, Dispositions, Report
<1>2. EffectiveDisposition(rep) \in Dispositions
  BY DispositionType
<1>3. QED
  BY <1>1, <1>2 DEF ErrorFromDecision, IsRetryableCorrection, IsTerminalDeny,
                    DispositionOf, Dispositions, ErrorClasses

LEMMA RankOfReport ==
    ASSUME NEW rep \in Report
    PROVE  /\ (ReportPriority(rep) = 7) <=> (EffectiveDisposition(rep) = "system_fault")
           /\ (ReportPriority(rep) \in {4, 5, 6}) <=> (EffectiveDisposition(rep) = "terminal_deny")
           /\ (ReportPriority(rep) = 3) <=> (EffectiveDisposition(rep) = "retryable_correction")
           /\ (ReportPriority(rep) \in {1, 2}) <=> (EffectiveDisposition(rep) = "none")
<1>1. EffectiveDisposition(rep) \in Dispositions
  BY DispositionType
<1>2. QED
  BY <1>1 DEF ReportPriority, IsSystemFault, IsTerminalDeny, IsRetryableCorrection, Dispositions

(* A decision is normalised and enforces.                                  *)
LEMMA DecisionEnforces ==
    ASSUME NEW s \in Seq(Report)
    PROVE  /\ ~IsObservation(Decision(s))
           /\ Decision(s).disposition = EffectiveDisposition(Decision(s))
<1>1. ASSUME NEW rep \in Report
      PROVE  NormalizeReport(rep).disposition = EffectiveDisposition(NormalizeReport(rep))
  <2>1. NormalizeReport(rep).disposition = EffectiveDisposition(rep)
    BY DEF NormalizeReport, Report
  <2>2. QED
    BY <2>1, NormalizeKeepsClass
<1>2. CASE Enforcing(s) # {}
  <2>1. Selected(s) \in Enforcing(s) /\ s[Selected(s)] \in Report
    BY <1>2, SelectedIsStrongest DEF Enforcing
  <2>2. Decision(s) = NormalizeReport(s[Selected(s)]) /\ ~IsObservation(s[Selected(s)])
    BY <1>2, <2>1 DEF Decision, Enforcing
  <2>3. QED
    BY <1>1, <2>1, <2>2, NormalizeKeepsClass
<1>3. CASE Enforcing(s) = {}
  <2> DEFINE b == BlankReport("pass", "safe")
             e == [b EXCEPT !.retryable = FALSE, !.fatal = FALSE]
  <2>1. /\ b \in Report /\ b.action = "pass" /\ b.disposition = "none"
        /\ ~b.fatal /\ ~b.retryable /\ ~b.shadow
    BY DEF BlankReport, Report, Actions, Dispositions, PayloadKinds
  <2>2. Decision(s) = NormalizeReport(e)
    <3>1. FinishReport(b, "pass", FALSE) = NormalizeReport(e)
      BY <2>1 DEF FinishReport, BlankReport
    <3>2. QED
      BY <1>3, <3>1 DEF Decision
  <2>3. e \in Report /\ ~e.shadow
    <3> HIDE DEF b
    <3>1. QED
      BY <2>1 DEF Report
  <2>4. ~IsObservation(e)
    BY <2>3 DEF IsObservation
  <2>5. QED
    <3> HIDE DEF e
    <3>1. QED
      BY <1>1, <2>2, <2>3, <2>4, NormalizeKeepsClass
<1>4. QED
  BY <1>2, <1>3

(* The payload's kind does not change the class of a normalised report.    *)
LEMMA OutputKindKeepsClass ==
    ASSUME NEW rep \in Report, NEW kind \in PayloadKinds,
           rep.disposition = EffectiveDisposition(rep), ~IsObservation(rep)
    PROVE  /\ WithOutputKind(rep, kind) \in Report
           /\ ~IsObservation(WithOutputKind(rep, kind))
           /\ EffectiveDisposition(WithOutputKind(rep, kind)) = EffectiveDisposition(rep)
<1> DEFINE q == [rep EXCEPT !.kind = kind]
<1>1. /\ q \in Report /\ q.action = rep.action /\ q.kind = kind /\ q.fatal = rep.fatal
      /\ q.retryable = rep.retryable /\ q.shadow = rep.shadow
      /\ q.finite = rep.finite /\ q.disposition = rep.disposition
  BY DEF Report
<1>2. EffectiveDisposition(q) = EffectiveDisposition(rep)
  <2> HIDE DEF q
  <2>1. QED
    BY <1>1 DEF EffectiveDisposition, Malformed, DeriveDisposition, Dispositions, Actions,
                Report, PayloadKinds
<1>3. ~IsObservation(q)
  <2> HIDE DEF q
  <2>1. QED
    BY <1>1, <1>2 DEF IsObservation, IsTerminalDeny
<1>4. QED
  BY <1>1, <1>2, <1>3 DEF WithOutputKind

(* The host-facing decision keeps the class of an enforcing report, though *)
(* Fatal and Retryable are gone (decision.go, effectiveDisposition).       *)
LEMMA HostKeepsClass ==
    ASSUME NEW rep \in Report, ~IsObservation(rep), NEW kind \in PayloadKinds
    PROVE  LET d == DecisionFromReport(rep)
           IN  /\ d \in HostDecision
               /\ d.disposition = EffectiveDisposition(rep)
               /\ DecisionDisposition(d) = EffectiveDisposition(rep)
               /\ WithOutputKind(d, kind).disposition = EffectiveDisposition(rep)
               /\ DecisionDisposition(WithOutputKind(d, kind)) = EffectiveDisposition(rep)
<1> DEFINE ed == EffectiveDisposition(rep)
           d == DecisionFromReport(rep)
<1>1. /\ NormalizeReport(rep).action = rep.action /\ NormalizeReport(rep).kind = rep.kind
      /\ NormalizeReport(rep).disposition = ed /\ ~IsObservation(NormalizeReport(rep))
  BY NormalizeKeepsClass DEF NormalizeReport, Report
<1>2. d = [action |-> rep.action, disposition |-> ed, kind |-> rep.kind]
  BY <1>1 DEF DecisionFromReport, ToHostDecision
<1>3. /\ ed \in Dispositions
      /\ ed = "none" => rep.action \in {"pass", "redact"}
      /\ ed = "retryable_correction" => rep.action = "retry"
      /\ ed # "system_fault" => rep.action \in Actions /\ rep.kind \in PayloadKinds
  BY DispositionType
     DEF EffectiveDisposition, Malformed, DeriveDisposition, Dispositions, Actions, Report
<1>4. ASSUME NEW k \in PayloadKinds \cup {rep.kind}
      PROVE  DecisionDisposition([action |-> rep.action, disposition |-> ed, kind |-> k]) = ed
  <2> DEFINE b == [BlankReport(rep.action, k) EXCEPT !.disposition = ed]
  <2>1. /\ b.action = rep.action /\ b.kind = k /\ b.disposition = ed
        /\ ~b.fatal /\ ~b.retryable /\ b.finite
    BY DEF BlankReport
  <2>2. EffectiveDisposition(b) = ed
    <3> HIDE DEF b, ed
    <3>1. QED
      BY <1>3, <2>1 DEF EffectiveDisposition, Malformed, DeriveDisposition, Dispositions, Actions
  <2>3. QED
    BY <2>2 DEF DecisionDisposition
<1>5. d \in HostDecision
  BY <1>2, <1>3 DEF HostDecision, Report
<1>6. \E k \in PayloadKinds \cup {rep.kind} :
         WithOutputKind(d, kind) = [action |-> rep.action, disposition |-> ed, kind |-> k]
  <2> HIDE DEF ed
  <2>1. QED
    BY <1>2 DEF WithOutputKind
<1>7. QED
  <2> HIDE DEF ed
  <2>1. PICK k \in PayloadKinds \cup {rep.kind} :
           WithOutputKind(d, kind) = [action |-> rep.action, disposition |-> ed, kind |-> k]
    BY <1>6
  <2>2. DecisionDisposition(d) = ed /\ DecisionDisposition(WithOutputKind(d, kind)) = ed
    BY <1>2, <1>4, <2>1
  <2>3. d.disposition = ed /\ WithOutputKind(d, kind).disposition = ed
    BY <1>2, <2>1
  <2>4. QED
    BY <1>5, <2>2, <2>3 DEF ed, d

(* A fault anywhere in a slice decides it.                                 *)
LEMMA FaultDecides ==
    ASSUME NEW s \in Seq(Report), NEW i \in DOMAIN s,
           EffectiveDisposition(s[i]) = "system_fault"
    PROVE  EffectiveDisposition(Decision(s)) = "system_fault"
<1>1. s[i] \in Report /\ i \in Enforcing(s)
  BY DEF Enforcing, IsObservation, IsTerminalDeny
<1>2. ReportPriority(s[i]) = 7
  BY <1>1, RankOfReport
<1>3. ReportPriority(Decision(s)) = 7
  BY <1>1, <1>2, DecisionIsStrongest, PriorityRange
<1>4. QED
  BY <1>3, DecisionType, RankOfReport

(* A correction after reports that enforce nothing decides.                *)
LEMMA CorrectionDecides ==
    ASSUME NEW s \in Seq(Report), EffectiveDisposition(Decision(s)) = "none",
           NEW c \in Report, EffectiveDisposition(c) = "retryable_correction"
    PROVE  EffectiveDisposition(Decision(Append(s, c))) = "retryable_correction"
<1> DEFINE t == Append(s, c)
<1>1. t \in Seq(Report) /\ Len(t) = Len(s) + 1 /\ t[Len(s) + 1] = c
      /\ \A i \in 1..Len(s) : t[i] = s[i]
  OBVIOUS
<1> HIDE DEF t
<1>2. Len(s) + 1 \in Enforcing(t)
  BY <1>1 DEF Enforcing, IsObservation, IsTerminalDeny
<1>3. ReportPriority(c) = 3
  BY RankOfReport
<1>4. ReportPriority(Decision(t)) >= 3 /\ ReportPriority(Decision(t)) \in 1..7
  BY <1>1, <1>2, <1>3, DecisionIsStrongest, PriorityRange
<1>5. PICK i \in Enforcing(t) : ReportPriority(Decision(t)) = ReportPriority(t[i])
  BY <1>1, <1>4, DecisionHasWitness
<1>6. CASE i \in 1..Len(s)
  <2>1. i \in Enforcing(s)
    BY <1>1, <1>5, <1>6 DEF Enforcing
  <2>2. ReportPriority(s[i]) <= ReportPriority(Decision(s))
    BY <2>1, DecisionIsStrongest
  <2>3. ReportPriority(Decision(s)) \in {1, 2}
    BY DecisionType, RankOfReport
  <2>4. ReportPriority(s[i]) \in 1..7
    BY PriorityRange
  <2>5. QED
    BY <1>1, <1>4, <1>5, <1>6, <2>2, <2>3, <2>4
<1>7. CASE i = Len(s) + 1
  <2>1. ReportPriority(Decision(t)) = 3
    BY <1>1, <1>3, <1>5, <1>7
  <2>2. QED
    BY <1>1, <2>1, DecisionType, RankOfReport DEF t
<1>8. i \in 1..(Len(s) + 1)
  BY <1>1, <1>5 DEF Enforcing
<1>9. QED
  BY <1>6, <1>7, <1>8

(* A deny after reports that do not make a fault decides or is outranked   *)
(* by another deny.                                                        *)
LEMMA DenyDecides ==
    ASSUME NEW s \in Seq(Report), EffectiveDisposition(Decision(s)) = "none",
           NEW c \in Report, EffectiveDisposition(c) = "terminal_deny", ~IsObservation(c)
    PROVE  EffectiveDisposition(Decision(Append(s, c))) = "terminal_deny"
<1> DEFINE t == Append(s, c)
<1>1. t \in Seq(Report) /\ Len(t) = Len(s) + 1 /\ t[Len(s) + 1] = c
      /\ \A i \in 1..Len(s) : t[i] = s[i]
  OBVIOUS
<1> HIDE DEF t
<1>2. Len(s) + 1 \in Enforcing(t)
  BY <1>1 DEF Enforcing
<1>3. ReportPriority(c) \in {4, 5, 6}
  BY RankOfReport
<1>4. ReportPriority(Decision(t)) >= 4 /\ ReportPriority(Decision(t)) \in 1..7
  BY <1>1, <1>2, <1>3, DecisionIsStrongest, PriorityRange
<1>5. PICK i \in Enforcing(t) : ReportPriority(Decision(t)) = ReportPriority(t[i])
  BY <1>1, <1>4, DecisionHasWitness
<1>6. CASE i \in 1..Len(s)
  <2>1. i \in Enforcing(s)
    BY <1>1, <1>5, <1>6 DEF Enforcing
  <2>2. ReportPriority(s[i]) <= ReportPriority(Decision(s))
    BY <2>1, DecisionIsStrongest
  <2>3. ReportPriority(Decision(s)) \in {1, 2}
    BY DecisionType, RankOfReport
  <2>4. ReportPriority(s[i]) \in 1..7
    BY PriorityRange
  <2>5. QED
    BY <1>1, <1>4, <1>5, <1>6, <2>2, <2>3, <2>4
<1>7. CASE i = Len(s) + 1
  <2>1. ReportPriority(Decision(t)) \in {4, 5, 6}
    BY <1>1, <1>3, <1>5, <1>7
  <2>2. QED
    BY <1>1, <2>1, DecisionType, RankOfReport DEF t
<1>8. i \in 1..(Len(s) + 1)
  BY <1>1, <1>5 DEF Enforcing
<1>9. QED
  BY <1>6, <1>7, <1>8

(* Reports that come later never undo a decision that enforces something.  *)
LEMMA StopStays ==
    ASSUME NEW s \in Seq(Report), EffectiveDisposition(Decision(s)) # "none",
           NEW more \in Seq(Report)
    PROVE  EffectiveDisposition(Decision(s \o more)) # "none"
<1> DEFINE t == s \o more
<1>1. t \in Seq(Report) /\ Len(s) <= Len(t) /\ \A i \in 1..Len(s) : t[i] = s[i]
  OBVIOUS
<1> HIDE DEF t
<1>2. ReportPriority(Decision(s)) \in 3..7
  BY DecisionType, RankOfReport, PriorityRange
<1>3. PICK i \in Enforcing(s) : ReportPriority(Decision(s)) = ReportPriority(s[i])
  BY <1>2, DecisionHasWitness
<1>4. i \in Enforcing(t) /\ t[i] = s[i]
  BY <1>1, <1>3, SMTT(30) DEF Enforcing
<1>5. ReportPriority(t[i]) <= ReportPriority(Decision(t))
  BY <1>1, <1>4, DecisionIsStrongest
<1>6. ReportPriority(Decision(t)) \in 3..7
  <2>1. ReportPriority(Decision(t)) \in 1..7 /\ ReportPriority(t[i]) \in 1..7
    BY PriorityRange
  <2>2. ReportPriority(t[i]) \in 3..7
    BY <1>2, <1>3, <1>4
  <2>3. QED
    BY <1>5, <2>1, <2>2
<1>7. Decision(t) \in Report
  BY <1>1, DecisionType
<1>8. ReportPriority(Decision(t)) \notin {1, 2}
  BY <1>6
<1>9. EffectiveDisposition(Decision(t)) # "none"
  BY <1>7, <1>8, RankOfReport
<1>10. QED
  BY <1>9 DEF t

LEMMA FaultReport ==
    /\ ValidatorFaultReport \in Report
    /\ EffectiveDisposition(ValidatorFaultReport) = "system_fault"
BY DEF ValidatorFaultReport, BlankReport, Report, EffectiveDisposition,
       Actions, Dispositions, PayloadKinds

-----------------------------------------------------------------------------
(* Composing one by one.                                                   *)

(* Reclassifying the payload of a settled report changes nothing else.     *)
LEMMA KindHarmless ==
    ASSUME NEW d \in Report, d.disposition = EffectiveDisposition(d),
           NEW k \in PayloadKinds
    PROVE  LET c == [d EXCEPT !.kind = k]
           IN  /\ c \in Report /\ c.kind = k
               /\ ReportPriority(c) = ReportPriority(d)
               /\ IsObservation(c) = IsObservation(d)
               /\ EffectiveDisposition(c) = EffectiveDisposition(d)
<1> DEFINE c == [d EXCEPT !.kind = k]
<1>1. /\ c \in Report /\ c.kind = k /\ c.action = d.action
      /\ c.disposition = d.disposition /\ c.fatal = d.fatal
      /\ c.retryable = d.retryable /\ c.shadow = d.shadow /\ c.finite = d.finite
  BY DEF Report
<1> HIDE DEF c
<1>2. CASE Malformed(d)
  <2>1. EffectiveDisposition(d) = "system_fault"
    BY <1>2 DEF EffectiveDisposition
  <2>2. EffectiveDisposition(c) = "system_fault"
    BY <1>1, <2>1 DEF EffectiveDisposition
  <2>3. QED
    BY <1>1, <2>1, <2>2 DEF ReportPriority, IsSystemFault, IsTerminalDeny,
                            IsRetryableCorrection, IsObservation, c
<1>3. CASE ~Malformed(d)
  <2>1. ~Malformed(c)
    BY <1>1, <1>3 DEF Malformed
  <2>2. EffectiveDisposition(c) = EffectiveDisposition(d)
    BY <1>1, <1>3, <2>1 DEF EffectiveDisposition, DeriveDisposition
  <2>3. QED
    BY <1>1, <2>2 DEF ReportPriority, IsSystemFault, IsTerminalDeny,
                      IsRetryableCorrection, IsObservation, c
<1>4. QED
  BY <1>2, <1>3

(* The priorities tell the kinds apart.                                    *)
LEMMA KindsApart ==
    ASSUME NEW j \in PayloadKinds, NEW k \in PayloadKinds,
           PayloadKindPriority(j) <= PayloadKindPriority(k),
           PayloadKindPriority(k) <= PayloadKindPriority(j)
    PROVE  j = k
BY DEF PayloadKinds, PayloadKindPriority

LEMMA NormalizeSettled ==
    ASSUME NEW rep \in Report, rep.disposition = EffectiveDisposition(rep)
    PROVE  NormalizeReport(rep) = rep
BY DEF NormalizeReport, Report

LEMMA NormalizeTwice ==
    ASSUME NEW rep \in Report
    PROVE  NormalizeReport(NormalizeReport(rep)) = NormalizeReport(rep)
<1>1. NormalizeReport(rep).disposition = EffectiveDisposition(rep)
  BY DEF NormalizeReport, Report
<1>2. NormalizeReport(rep).disposition = EffectiveDisposition(NormalizeReport(rep))
  BY <1>1, NormalizeKeepsClass
<1>3. QED
  BY <1>2, NormalizeType, NormalizeSettled

LEMMA SelectedUnique ==
    ASSUME NEW s \in Seq(Report), NEW m \in Enforcing(s),
           \A j \in Enforcing(s) :
              \/ ReportPriority(s[j]) < ReportPriority(s[m])
              \/ ReportPriority(s[j]) = ReportPriority(s[m]) /\ j <= m
    PROVE  Selected(s) = m
<1>1. Selected(s) \in Enforcing(s)
  BY SelectedIsLast
<1>2. \/ ReportPriority(s[m]) < ReportPriority(s[Selected(s)])
      \/ ReportPriority(s[m]) = ReportPriority(s[Selected(s)]) /\ m <= Selected(s)
  BY SelectedIsLast
<1>3. \/ ReportPriority(s[Selected(s)]) < ReportPriority(s[m])
      \/ ReportPriority(s[Selected(s)]) = ReportPriority(s[m]) /\ Selected(s) <= m
  BY <1>1
<1>4. ReportPriority(s[m]) \in 1..7 /\ ReportPriority(s[Selected(s)]) \in 1..7
  BY PriorityRange
<1>5. m \in Nat /\ Selected(s) \in Nat
  BY <1>1 DEF Enforcing
<1>6. QED
  BY <1>2, <1>3, <1>4, <1>5

(* The decision is a fold: one more report takes over unless it is only    *)
(* observed or ranks below.                                                *)
LEMMA DecisionAppend ==
    ASSUME NEW s \in Seq(Report), NEW r \in Report
    PROVE  Decision(Append(s, r)) =
              IF ~IsObservation(r) /\ ReportPriority(Decision(s)) <= ReportPriority(r)
              THEN NormalizeReport(r) ELSE Decision(s)
<1> DEFINE t == Append(s, r)
           n == Len(s)
<1>1. /\ t \in Seq(Report) /\ n \in Nat /\ DOMAIN s = 1..n /\ DOMAIN t = 1..(n + 1)
      /\ t[n + 1] = r /\ \A i \in 1..n : t[i] = s[i]
  OBVIOUS
<1> HIDE DEF t, n
<1>2. Enforcing(s) = {i \in 1..n : ~IsObservation(s[i])}
  BY <1>1 DEF Enforcing
<1>3. Enforcing(t) = Enforcing(s) \cup (IF IsObservation(r) THEN {} ELSE {n + 1})
  <2>1. Enforcing(t) = {i \in 1..(n + 1) : ~IsObservation(t[i])}
    BY <1>1 DEF Enforcing
  <2>2. \A i \in 1..(n + 1) : i \in 1..n \/ i = n + 1
    BY <1>1
  <2>3. 1..n \subseteq 1..(n + 1) /\ n + 1 \in 1..(n + 1)
    BY <1>1
  <2>4. QED
    BY <1>1, <1>2, <2>1, <2>2, <2>3
<1>4. ReportPriority(r) \in 1..7 /\ ReportPriority(Decision(s)) \in 1..7
  BY PriorityRange
<1>5. CASE Enforcing(s) = {}
  <2>1. Decision(s) = FinishReport(BlankReport("pass", "safe"), "pass", FALSE)
    BY <1>5 DEF Decision
  <2>2. CASE IsObservation(r)
    BY <1>3, <1>5, <2>1, <2>2 DEF Decision, t
  <2>3. CASE ~IsObservation(r)
    <3>1. Enforcing(t) = {n + 1}
      BY <1>3, <1>5, <2>3
    <3>2. Selected(t) = n + 1
      BY <1>1, <3>1, SelectedIsLast
    <3>3. Decision(t) = NormalizeReport(r)
      BY <1>1, <3>1, <3>2 DEF Decision
    <3>4. ReportPriority(Decision(s)) = 1
      BY <2>1, DefaultDecision
    <3>5. QED
      BY <1>4, <2>3, <3>3, <3>4 DEF t
  <2>4. QED
    BY <2>2, <2>3
<1>6. CASE Enforcing(s) # {}
  <2> DEFINE m == Selected(s)
  <2>1. /\ m \in Enforcing(s) /\ m \in 1..n
        /\ \A j \in Enforcing(s) :
              \/ ReportPriority(s[j]) < ReportPriority(s[m])
              \/ ReportPriority(s[j]) = ReportPriority(s[m]) /\ j <= m
    BY <1>2, <1>6, SelectedIsLast
  <2> HIDE DEF m
  <2>2. Decision(s) = NormalizeReport(s[m]) /\ s[m] \in Report
    <3>1. s[m] \in Report
      BY <1>1, <2>1
    <3>2. Decision(s) = NormalizeReport(s[m])
      BY <1>6 DEF Decision, m
    <3>3. QED
      BY <3>1, <3>2
  <2>3. ReportPriority(Decision(s)) = ReportPriority(s[m])
    BY <2>2, NormalizeKeepsClass
  <2>4. t[m] = s[m] /\ \A j \in Enforcing(s) : t[j] = s[j] /\ j \in 1..n
    BY <1>1, <1>2, <2>1
  <2>5. CASE ~IsObservation(r) /\ ReportPriority(Decision(s)) <= ReportPriority(r)
    <3>1. n + 1 \in Enforcing(t) /\ \A j \in Enforcing(t) : j \in Enforcing(s) \/ j = n + 1
      BY <1>3, <2>5
    <3>2. ASSUME NEW j \in Enforcing(t)
          PROVE  \/ ReportPriority(t[j]) < ReportPriority(t[n + 1])
                 \/ ReportPriority(t[j]) = ReportPriority(t[n + 1]) /\ j <= n + 1
      <4>1. CASE j = n + 1
        <5>1. j <= n + 1
          BY <1>1, <4>1
        <5>2. QED
          BY <4>1, <5>1
      <4>2. CASE j \in Enforcing(s)
        <5>1. /\ t[j] = s[j] /\ j \in 1..n
              /\ \/ ReportPriority(s[j]) < ReportPriority(s[m])
                 \/ ReportPriority(s[j]) = ReportPriority(s[m]) /\ j <= m
          BY <2>1, <2>4, <4>2
        <5>2. ReportPriority(s[j]) \in 1..7 /\ ReportPriority(s[m]) \in 1..7
          BY PriorityRange
        <5>3. ReportPriority(s[m]) <= ReportPriority(r)
          BY <2>3, <2>5
        <5>4. j <= n + 1
          BY <1>1, <5>1
        <5>5. t[n + 1] = r
          BY <1>1
        <5>6. QED
          BY <1>4, <5>1, <5>2, <5>3, <5>4, <5>5
      <4>3. QED
        BY <3>1, <4>1, <4>2
    <3>3. Selected(t) = n + 1
      BY <1>1, <3>1, <3>2, SelectedUnique
    <3>4. Decision(t) = NormalizeReport(r)
      BY <1>1, <3>1, <3>3 DEF Decision
    <3>5. QED
      BY <2>5, <3>4 DEF t
  <2>6. CASE ~(~IsObservation(r) /\ ReportPriority(Decision(s)) <= ReportPriority(r))
    <3>1. m \in Enforcing(t)
      BY <1>3, <2>1
    <3>2. ASSUME NEW j \in Enforcing(t)
          PROVE  \/ ReportPriority(t[j]) < ReportPriority(t[m])
                 \/ ReportPriority(t[j]) = ReportPriority(t[m]) /\ j <= m
      <4>1. CASE j \in Enforcing(s)
        BY <2>1, <2>4, <4>1
      <4>2. CASE j \notin Enforcing(s)
        <5>1. j = n + 1 /\ ~IsObservation(r)
          BY <1>3, <4>2
        <5>2. ReportPriority(t[j]) < ReportPriority(s[m])
          BY <1>1, <1>4, <2>3, <2>6, <5>1
        <5>3. QED
          BY <2>4, <5>2
      <4>3. QED
        BY <4>1, <4>2
    <3>3. Selected(t) = m
      BY <1>1, <3>1, <3>2, SelectedUnique
    <3>4. Decision(t) = NormalizeReport(s[m])
      BY <2>4, <3>1, <3>3 DEF Decision
    <3>5. QED
      BY <2>2, <2>6, <3>4 DEF t
  <2>7. QED
    BY <2>5, <2>6
<1>7. QED
  BY <1>5, <1>6

(* What is composed is normalised, enforces, and carries the kind.         *)
LEMMA ComposeSettled ==
    ASSUME NEW s \in Seq(Report)
    PROVE  /\ ComposeReports(s) \in Report
           /\ ComposeReports(s).disposition = EffectiveDisposition(ComposeReports(s))
           /\ ~IsObservation(ComposeReports(s))
           /\ ComposeReports(s).kind = AggregatePayloadKind(s)
           /\ AggregatePayloadKind(s) \in PayloadKinds
           /\ ReportPriority(ComposeReports(s)) = ReportPriority(Decision(NormalizeAll(s)))
<1> DEFINE d == Decision(NormalizeAll(s))
           k == AggregatePayloadKind(s)
           c == [d EXCEPT !.kind = k]
<1>1. d \in Report /\ d.disposition = EffectiveDisposition(d) /\ ~IsObservation(d)
  BY NormalizeAllType, DecisionType, DecisionEnforces
<1>2. k \in PayloadKinds
  BY AggregateIsStrictest
<1>3. ComposeReports(s) = c
  BY DEF ComposeReports
<1> HIDE DEF d, k
<1>4. /\ c \in Report /\ c.kind = k /\ ReportPriority(c) = ReportPriority(d)
      /\ IsObservation(c) = IsObservation(d) /\ c.disposition = d.disposition
  <2>1. c.disposition = d.disposition
    BY <1>1 DEF Report
  <2>2. QED
    BY <1>1, <1>2, <2>1, KindHarmless
<1>5. EffectiveDisposition(c) = EffectiveDisposition(d)
  BY <1>1, <1>2, KindHarmless
<1>6. QED
  BY <1>1, <1>2, <1>3, <1>4, <1>5 DEF d, k

LEMMA ComposeAppend ==
    ASSUME NEW s \in Seq(Report), NEW r \in Report
    PROVE  ComposeReports(Append(s, r)) =
              [IF /\ ~IsObservation(r)
                  /\ ReportPriority(ComposeReports(s)) <= ReportPriority(r)
               THEN NormalizeReport(r) ELSE ComposeReports(s)
               EXCEPT !.kind = AggregatePayloadKind(Append(s, r))]
<1> DEFINE n == NormalizeAll(s)
           q == NormalizeReport(r)
           d == Decision(n)
           c == ComposeReports(s)
           k == AggregatePayloadKind(Append(s, r))
<1>1. /\ n \in Seq(Report) /\ Len(n) = Len(s)
      /\ \A i \in 1..Len(s) : n[i] = NormalizeReport(s[i])
  BY NormalizeAllType
<1>2. q \in Report /\ NormalizeReport(q) = q /\ ReportPriority(q) = ReportPriority(r)
      /\ IsObservation(q) = IsObservation(r)
  BY NormalizeType, NormalizeTwice, NormalizeKeepsClass
<1>3. NormalizeAll(Append(s, r)) = Append(n, q)
  <2>1. Append(s, r) \in Seq(Report) /\ Len(Append(s, r)) = Len(s) + 1
        /\ Append(s, r)[Len(s) + 1] = r /\ \A i \in 1..Len(s) : Append(s, r)[i] = s[i]
    OBVIOUS
  <2> DEFINE a == NormalizeAll(Append(s, r))
             b == Append(n, q)
  <2>2. a \in Seq(Report) /\ Len(a) = Len(s) + 1
        /\ a[Len(s) + 1] = q /\ \A i \in 1..Len(s) : a[i] = NormalizeReport(s[i])
    <3>1. /\ a \in Seq(Report) /\ Len(a) = Len(Append(s, r))
          /\ \A i \in 1..Len(Append(s, r)) : a[i] = NormalizeReport(Append(s, r)[i])
      BY <2>1, NormalizeAllType
    <3>2. Len(s) \in Nat
      OBVIOUS
    <3> HIDE DEF a
    <3>3. QED
      BY <2>1, <3>1, <3>2
  <2> HIDE DEF n, q
  <2>3. b \in Seq(Report) /\ Len(b) = Len(s) + 1
        /\ b[Len(s) + 1] = q /\ \A i \in 1..Len(s) : b[i] = n[i]
    BY <1>1, <1>2
  <2> HIDE DEF a, b
  <2>4. Len(s) \in Nat
    OBVIOUS
  <2>5. \A i \in 1..(Len(s) + 1) : a[i] = b[i]
    <3>1. \A i \in 1..(Len(s) + 1) : i \in 1..Len(s) \/ i = Len(s) + 1
      BY <2>4
    <3>2. QED
      BY <1>1, <2>2, <2>3, <3>1
  <2>6. QED
    <3>1. a = b
      BY <2>2, <2>3, <2>5
    <3>2. QED
      BY <3>1 DEF a, b
<1>4. Decision(Append(n, q)) =
         IF ~IsObservation(q) /\ ReportPriority(d) <= ReportPriority(q) THEN q ELSE d
  <2> HIDE DEF n, q
  <2>1. QED
    BY <1>1, <1>2, DecisionAppend
<1>5. ReportPriority(c) = ReportPriority(d)
  BY ComposeSettled
<1>6. c = [d EXCEPT !.kind = AggregatePayloadKind(s)]
  BY DEF ComposeReports
<1>7. d \in Report
  BY <1>1, DecisionType
<1>8. [c EXCEPT !.kind = k] = [d EXCEPT !.kind = k]
  <2> HIDE DEF c, d, k
  <2>1. QED
    BY <1>6, <1>7 DEF Report
<1>9. ComposeReports(Append(s, r)) = [Decision(Append(n, q)) EXCEPT !.kind = k]
  BY <1>3 DEF ComposeReports
<1> HIDE DEF n, q, d, c, k
<1>10. QED
  <2>1. CASE ~IsObservation(r) /\ ReportPriority(c) <= ReportPriority(r)
    BY <1>2, <1>4, <1>5, <1>9, <2>1 DEF c, k, q
  <2>2. CASE ~(~IsObservation(r) /\ ReportPriority(c) <= ReportPriority(r))
    <3>1. Decision(Append(n, q)) = d
      BY <1>2, <1>4, <1>5, <2>2
    <3>2. ComposeReports(Append(s, r)) = [c EXCEPT !.kind = k]
      BY <1>8, <1>9, <3>1
    <3>3. QED
      BY <2>2, <3>2 DEF c, k
  <2>3. QED
    BY <2>1, <2>2

(* The strictest kind is a fold as well.                                   *)
LEMMA AggregateAppend ==
    ASSUME NEW s \in Seq(Report), NEW r \in Report
    PROVE  AggregatePayloadKind(Append(s, r)) =
              IF /\ r.kind \in PayloadKinds
                 /\ PayloadKindPriority(AggregatePayloadKind(s)) < PayloadKindPriority(r.kind)
              THEN r.kind ELSE AggregatePayloadKind(s)
<1> DEFINE t == Append(s, r)
           k == AggregatePayloadKind(s)
           j == AggregatePayloadKind(t)
<1>1. t \in Seq(Report) /\ Len(t) = Len(s) + 1 /\ t[Len(s) + 1] = r
      /\ \A i \in 1..Len(s) : t[i] = s[i]
  OBVIOUS
<1>2. KindsOf(t) = KindsOf(s) \cup ({r.kind} \cap PayloadKinds)
  <2> HIDE DEF t
  <2>1. DOMAIN t = 1..(Len(s) + 1) /\ DOMAIN s = 1..Len(s) /\ Len(s) \in Nat
    BY <1>1
  <2>2. {t[i].kind : i \in DOMAIN t} = {s[i].kind : i \in DOMAIN s} \cup {r.kind}
    <3>1. \A i \in DOMAIN t : i \in DOMAIN s \/ i = Len(s) + 1
      BY <2>1
    <3>2. Len(s) + 1 \in DOMAIN t /\ \A i \in DOMAIN s : i \in DOMAIN t /\ t[i] = s[i]
      BY <1>1, <2>1
    <3>3. t[Len(s) + 1] = r
      BY <1>1
    <3>4. QED
      BY <1>1, <2>1, <3>1, <3>2, <3>3
  <2>3. QED
    BY <2>2 DEF KindsOf
<1>3. /\ k \in KindsOf(s) /\ k \in PayloadKinds
      /\ \A i \in KindsOf(s) : PayloadKindPriority(i) <= PayloadKindPriority(k)
  BY AggregateInKinds, AggregateIsStrictest
<1>4. /\ j \in KindsOf(t) /\ j \in PayloadKinds
      /\ \A i \in KindsOf(t) : PayloadKindPriority(i) <= PayloadKindPriority(j)
  <2> HIDE DEF t
  <2>1. QED
    BY <1>1, AggregateInKinds, AggregateIsStrictest
<1>5. \A i \in PayloadKinds : PayloadKindPriority(i) \in 0..3
  BY DEF PayloadKindPriority, PayloadKinds
<1>6. k \in KindsOf(t) /\ PayloadKindPriority(k) <= PayloadKindPriority(j)
  BY <1>2, <1>3, <1>4
<1>7. j \in KindsOf(s) \/ (j = r.kind /\ r.kind \in PayloadKinds)
  BY <1>2, <1>4
<1> HIDE DEF t, k, j
<1>8. CASE r.kind \in PayloadKinds /\ PayloadKindPriority(k) < PayloadKindPriority(r.kind)
  <2>1. r.kind \in KindsOf(t)
    BY <1>2, <1>8
  <2>2. PayloadKindPriority(r.kind) <= PayloadKindPriority(j)
    BY <1>4, <2>1
  <2>3. j \notin KindsOf(s)
    <3>1. SUFFICES ASSUME j \in KindsOf(s) PROVE FALSE
      OBVIOUS
    <3>2. PayloadKindPriority(j) <= PayloadKindPriority(k)
      BY <1>3, <3>1
    <3>3. QED
      BY <1>3, <1>4, <1>5, <1>8, <2>2, <3>2
  <2>4. QED
    BY <1>7, <1>8, <2>3 DEF j, k, t
<1>9. CASE ~(r.kind \in PayloadKinds /\ PayloadKindPriority(k) < PayloadKindPriority(r.kind))
  <2>1. PayloadKindPriority(j) <= PayloadKindPriority(k)
    <3>1. CASE j \in KindsOf(s)
      BY <1>3, <3>1
    <3>2. CASE j = r.kind /\ r.kind \in PayloadKinds
      BY <1>3, <1>5, <1>9, <3>2
    <3>3. QED
      BY <1>7, <3>1, <3>2
  <2>2. j = k
    BY <1>3, <1>4, <1>6, <2>1, KindsApart
  <2>3. QED
    BY <1>9, <2>2 DEF j, k, t
<1>10. QED
  BY <1>8, <1>9

\* Nothing composed is a safe pass of the lowest rank.
LEMMA ComposeNone ==
    /\ <<>> \in Seq(Report)
    /\ AggregatePayloadKind(<<>>) = "safe"
    /\ ReportPriority(ComposeReports(<<>>)) = 1
<1>1. <<>> \in Seq(Report)
  OBVIOUS
<1>2. AggregatePayloadKind(<<>>) = "safe"
  <2>1. KindsOf(<<>>) = {"safe"}
    BY DEF KindsOf
  <2>2. AggregatePayloadKind(<<>>) \in KindsOf(<<>>)
    BY <1>1, AggregateInKinds
  <2>3. QED
    BY <2>1, <2>2
<1>3. ReportPriority(ComposeReports(<<>>)) = 1
  <2>1. Enforcing(NormalizeAll(<<>>)) = {}
    BY DEF NormalizeAll, Enforcing
  <2>2. ReportPriority(Decision(NormalizeAll(<<>>))) = 1
    BY <2>1, DefaultDecision DEF Decision
  <2>3. QED
    BY <1>1, <2>2, ComposeSettled
<1>4. QED
  BY <1>1, <1>2, <1>3

LEMMA Single ==
    ASSUME NEW r \in Report
    PROVE  <<r>> \in Seq(Report) /\ <<r>> = Append(<<>>, r)
OBVIOUS

LEMMA AggregateSingle ==
    ASSUME NEW r \in Report, r.kind \in PayloadKinds
    PROVE  AggregatePayloadKind(<<r>>) = r.kind
<1>1. AggregatePayloadKind(<<r>>) =
         IF PayloadKindPriority("safe") < PayloadKindPriority(r.kind) THEN r.kind ELSE "safe"
  BY Single, ComposeNone, AggregateAppend
<1>2. QED
  BY <1>1 DEF PayloadKindPriority, PayloadKinds

\* One report that enforces, composed alone.
LEMMA ComposeSingle ==
    ASSUME NEW r \in Report, ~IsObservation(r)
    PROVE  ComposeReports(<<r>>) =
              [NormalizeReport(r) EXCEPT !.kind = AggregatePayloadKind(<<r>>)]
<1>1. ReportPriority(r) \in 1..7
  BY PriorityRange
<1>2. ReportPriority(ComposeReports(<<>>)) <= ReportPriority(r)
  BY <1>1, ComposeNone
<1>3. QED
  BY <1>2, Single, ComposeNone, ComposeAppend

(* Composing what is composed changes nothing.                             *)
LEMMA ComposeOnce ==
    ASSUME NEW s \in Seq(Report)
    PROVE  ComposeReports(<<ComposeReports(s)>>) = ComposeReports(s)
<1> DEFINE c == ComposeReports(s)
<1>1. /\ c \in Report /\ c.disposition = EffectiveDisposition(c) /\ ~IsObservation(c)
      /\ c.kind \in PayloadKinds
  BY ComposeSettled
<1> HIDE DEF c
<1>2. NormalizeReport(c) = c
  BY <1>1, NormalizeSettled
<1>3. ComposeReports(<<c>>) = [c EXCEPT !.kind = AggregatePayloadKind(<<c>>)]
  BY <1>1, <1>2, ComposeSingle
<1>4. AggregatePayloadKind(<<c>>) = c.kind
  BY <1>1, AggregateSingle
<1>5. [c EXCEPT !.kind = c.kind] = c
  BY <1>1 DEF Report
<1>6. QED
  BY <1>3, <1>4, <1>5 DEF c

LEMMA AggregateFurther ==
    ASSUME NEW s \in Seq(Report), NEW r \in Report
    PROVE  AggregatePayloadKind(<<ComposeReports(s), r>>) = AggregatePayloadKind(Append(s, r))
<1> DEFINE c == ComposeReports(s)
<1>1. /\ c \in Report /\ c.kind \in PayloadKinds /\ c.kind = AggregatePayloadKind(s)
  BY ComposeSettled
<1> HIDE DEF c
<1>2. <<c>> \in Seq(Report) /\ <<c, r>> = Append(<<c>>, r)
  BY <1>1
<1>3. AggregatePayloadKind(<<c>>) = AggregatePayloadKind(s)
  BY <1>1, AggregateSingle
<1>4. AggregatePayloadKind(Append(<<c>>, r)) = AggregatePayloadKind(Append(s, r))
  <2>1. AggregatePayloadKind(Append(<<c>>, r)) =
           IF /\ r.kind \in PayloadKinds
              /\ PayloadKindPriority(AggregatePayloadKind(<<c>>)) < PayloadKindPriority(r.kind)
           THEN r.kind ELSE AggregatePayloadKind(<<c>>)
    BY <1>2, AggregateAppend
  <2>2. AggregatePayloadKind(Append(s, r)) =
           IF /\ r.kind \in PayloadKinds
              /\ PayloadKindPriority(AggregatePayloadKind(s)) < PayloadKindPriority(r.kind)
           THEN r.kind ELSE AggregatePayloadKind(s)
    BY AggregateAppend
  <2>3. QED
    BY <1>3, <2>1, <2>2
<1>5. QED
  BY <1>2, <1>4 DEF c

(* A report added to what is composed is a report added to what it was     *)
(* composed from.                                                          *)
LEMMA ComposeFurther ==
    ASSUME NEW s \in Seq(Report), NEW r \in Report
    PROVE  ComposeReports(<<ComposeReports(s), r>>) = ComposeReports(Append(s, r))
<1> DEFINE c == ComposeReports(s)
<1>1. c \in Report
  BY ComposeSettled
<1>2. ComposeReports(<<c>>) = c
  BY ComposeOnce
<1>3. AggregatePayloadKind(<<c, r>>) = AggregatePayloadKind(Append(s, r))
  BY AggregateFurther
<1>4. ComposeReports(Append(s, r)) =
         [IF ~IsObservation(r) /\ ReportPriority(c) <= ReportPriority(r)
          THEN NormalizeReport(r) ELSE c
          EXCEPT !.kind = AggregatePayloadKind(Append(s, r))]
  BY ComposeAppend
<1> HIDE DEF c
<1>5. <<c>> \in Seq(Report) /\ <<c, r>> = Append(<<c>>, r)
  BY <1>1
<1>6. ComposeReports(Append(<<c>>, r)) =
         [IF ~IsObservation(r) /\ ReportPriority(ComposeReports(<<c>>)) <= ReportPriority(r)
          THEN NormalizeReport(r) ELSE ComposeReports(<<c>>)
          EXCEPT !.kind = AggregatePayloadKind(Append(<<c>>, r))]
  BY <1>5, ComposeAppend
<1>7. ComposeReports(<<c, r>>) = ComposeReports(Append(s, r))
  BY <1>2, <1>3, <1>4, <1>5, <1>6
<1>8. QED
  BY <1>7 DEF c

LEMMA PassedOn ==
    ASSUME NEW rep \in Report, rep.disposition = EffectiveDisposition(rep),
           ReportPriority(rep) = 1
    PROVE  DecisionFromReport(rep) =
              [action |-> "pass", disposition |-> "none", kind |-> rep.kind]
<1>1. EffectiveDisposition(rep) = "none"
  BY RankOfReport
<1>2. rep.action \in {"pass", "redact"}
  BY <1>1 DEF EffectiveDisposition, DeriveDisposition, Malformed, Actions
<1>3. rep.action # "redact"
  BY <1>1 DEF ReportPriority, IsSystemFault, IsTerminalDeny, IsRetryableCorrection
<1>4. NormalizeReport(rep) = rep /\ ~IsObservation(rep)
  BY <1>2, <1>3, NormalizeSettled DEF IsObservation
<1>5. QED
  BY <1>1, <1>2, <1>3, <1>4 DEF DecisionFromReport, ToHostDecision

LEMMA AggregateOfSingle ==
    ASSUME NEW s \in Seq(Report), NEW r \in Report, NEW d \in Report,
           d.kind = AggregatePayloadKind(<<r>>)
    PROVE  AggregatePayloadKind(Append(s, d)) = AggregatePayloadKind(Append(s, r))
<1> DEFINE k == AggregatePayloadKind(s)
           P(j) == PayloadKindPriority(j)
<1>1. k \in PayloadKinds
  BY AggregateIsStrictest
<1>2. d.kind = IF r.kind \in PayloadKinds /\ P("safe") < P(r.kind) THEN r.kind ELSE "safe"
  BY Single, ComposeNone, AggregateAppend
<1>3. AggregatePayloadKind(Append(s, r)) =
         IF r.kind \in PayloadKinds /\ P(k) < P(r.kind) THEN r.kind ELSE k
  BY AggregateAppend
<1>4. AggregatePayloadKind(Append(s, d)) =
         IF d.kind \in PayloadKinds /\ P(k) < P(d.kind) THEN d.kind ELSE k
  BY AggregateAppend
<1> HIDE DEF k
<1>5. P(k) \in 1..3 /\ P("safe") = 1
  BY <1>1 DEF PayloadKindPriority, PayloadKinds
<1>6. \A j \in PayloadKinds : P(j) \in 1..3
  BY DEF PayloadKindPriority, PayloadKinds
<1> HIDE DEF P
<1>7. CASE r.kind \in PayloadKinds /\ P("safe") < P(r.kind)
  BY <1>2, <1>3, <1>4, <1>7
<1>8. CASE ~(r.kind \in PayloadKinds /\ P("safe") < P(r.kind))
  <2>1. d.kind = "safe"
    BY <1>2, <1>8
  <2>2. ~(P(k) < P(d.kind))
    BY <1>5, <2>1
  <2>3. ~(r.kind \in PayloadKinds /\ P(k) < P(r.kind))
    BY <1>5, <1>6, <1>8
  <2>4. QED
    BY <1>3, <1>4, <2>2, <2>3
<1>9. QED
  BY <1>7, <1>8

(* To a host, composing what one report composes to is composing it.       *)
LEMMA ComposeSingleFurther ==
    ASSUME NEW s \in Seq(Report), NEW r \in Report
    PROVE  DecisionFromReport(ComposeReports(<<ComposeReports(s), ComposeReports(<<r>>)>>)) =
              DecisionFromReport(ComposeReports(Append(s, r)))
<1> DEFINE c == ComposeReports(s)
           d == ComposeReports(<<r>>)
           k == AggregatePayloadKind(Append(s, r))
<1>1. c \in Report /\ c.disposition = EffectiveDisposition(c)
  BY ComposeSettled
<1>2. /\ d \in Report /\ d.disposition = EffectiveDisposition(d) /\ ~IsObservation(d)
      /\ d.kind = AggregatePayloadKind(<<r>>)
  BY Single, ComposeSettled
<1>3. k \in PayloadKinds
  <2>1. Append(s, r) \in Seq(Report)
    OBVIOUS
  <2>2. QED
    BY <2>1, AggregateIsStrictest
<1>4. ComposeReports(<<c, d>>) = ComposeReports(Append(s, d))
  BY <1>2, ComposeFurther
<1>5. AggregatePayloadKind(Append(s, d)) = k
  BY <1>2, AggregateOfSingle
<1>6. NormalizeReport(d) = d
  BY <1>2, NormalizeSettled
<1>7. ComposeReports(Append(s, d)) =
         [IF ReportPriority(c) <= ReportPriority(d) THEN d ELSE c EXCEPT !.kind = k]
  <2> HIDE DEF d
  <2>1. ComposeReports(Append(s, d)) =
           [IF ~IsObservation(d) /\ ReportPriority(c) <= ReportPriority(d)
            THEN NormalizeReport(d) ELSE c EXCEPT !.kind = AggregatePayloadKind(Append(s, d))]
    BY <1>2, ComposeAppend
  <2>2. QED
    BY <1>2, <1>5, <1>6, <2>1
<1>8. ComposeReports(Append(s, r)) =
         [IF ~IsObservation(r) /\ ReportPriority(c) <= ReportPriority(r)
          THEN NormalizeReport(r) ELSE c EXCEPT !.kind = k]
  BY ComposeAppend
<1>9. CASE ~IsObservation(r)
  <2>1. d = [NormalizeReport(r) EXCEPT !.kind = AggregatePayloadKind(<<r>>)]
    BY <1>9, ComposeSingle
  <2>2. NormalizeReport(r) \in Report
    BY NormalizeType
  <2>3. NormalizeReport(r).disposition = EffectiveDisposition(NormalizeReport(r))
    <3>1. NormalizeReport(r).disposition = EffectiveDisposition(r)
      BY DEF NormalizeReport, Report
    <3>2. QED
      BY <3>1, NormalizeKeepsClass
  <2>4. AggregatePayloadKind(<<r>>) \in PayloadKinds
    BY Single, AggregateIsStrictest
  <2>5. ReportPriority(d) = ReportPriority(r)
    <3>1. ReportPriority(d) = ReportPriority(NormalizeReport(r))
      BY <2>1, <2>2, <2>3, <2>4, KindHarmless
    <3>2. QED
      BY <3>1, NormalizeKeepsClass
  <2> HIDE DEF c, d, k
  <2>6. [d EXCEPT !.kind = k] = [NormalizeReport(r) EXCEPT !.kind = k]
    <3> DEFINE q == NormalizeReport(r)
    <3> HIDE DEF q
    <3>1. QED
      BY <2>1, <2>2 DEF Report, q
  <2>7. ComposeReports(Append(s, d)) = ComposeReports(Append(s, r))
    BY <1>7, <1>8, <1>9, <2>5, <2>6
  <2>8. QED
    BY <1>4, <2>7 DEF c, d
<1>10. CASE IsObservation(r)
  <2>1. ReportPriority(d) = 1
    <3> DEFINE z == ComposeReports(<<>>)
    <3>1. z \in Report /\ z.disposition = EffectiveDisposition(z) /\ ReportPriority(z) = 1
      BY ComposeNone, ComposeSettled
    <3>2. d = [z EXCEPT !.kind = AggregatePayloadKind(<<r>>)]
      BY <1>10, Single, ComposeNone, ComposeAppend
    <3>3. AggregatePayloadKind(<<r>>) \in PayloadKinds
      BY Single, AggregateIsStrictest
    <3> HIDE DEF z, d
    <3>4. QED
      BY <3>1, <3>2, <3>3, KindHarmless
  <2> HIDE DEF c, d, k
  <2>2. ComposeReports(Append(s, r)) = [c EXCEPT !.kind = k]
    BY <1>8, <1>10
  <2>3. CASE ~(ReportPriority(c) <= ReportPriority(d))
    BY <1>4, <1>7, <2>2, <2>3 DEF c, d
  <2>4. CASE ReportPriority(c) <= ReportPriority(d)
    <3>1. ReportPriority(c) = 1
      <4>1. ReportPriority(c) \in 1..7
        BY PriorityRange
      <4>2. QED
        BY <2>1, <2>4, <4>1
    <3>2. ASSUME NEW rep \in Report, rep.disposition = EffectiveDisposition(rep),
                 ReportPriority(rep) = 1
          PROVE  DecisionFromReport([rep EXCEPT !.kind = k]) =
                    [action |-> "pass", disposition |-> "none", kind |-> k]
      <4> DEFINE q == [rep EXCEPT !.kind = k]
      <4>1. /\ q \in Report /\ q.kind = k /\ ReportPriority(q) = 1
            /\ EffectiveDisposition(q) = EffectiveDisposition(rep)
        BY <1>3, <3>2, KindHarmless
      <4>2. q.disposition = rep.disposition
        BY DEF Report
      <4> HIDE DEF q
      <4>3. DecisionFromReport(q) = [action |-> "pass", disposition |-> "none", kind |-> k]
        BY <3>2, <4>1, <4>2, PassedOn
      <4>4. QED
        BY <4>3 DEF q
    <3>3. ComposeReports(Append(s, d)) = [d EXCEPT !.kind = k]
      BY <1>7, <2>4
    <3>4. DecisionFromReport(ComposeReports(Append(s, d))) =
             DecisionFromReport(ComposeReports(Append(s, r)))
      BY <1>1, <1>2, <2>1, <2>2, <3>1, <3>2, <3>3
    <3>5. QED
      BY <1>4, <3>4 DEF c, d
  <2>5. QED
    BY <2>3, <2>4
<1>11. QED
  BY <1>9, <1>10
=============================================================================
