--------------------------- MODULE ReadApiProofs ---------------------------
(***************************************************************************)
(* Machine-checked proofs about LocalTime and ReadApi, for every calendar, *)
(* curve and date of the clock's changes: which instants a wall clock can  *)
(* be read back to, which hours are billed as high tariff, that months and *)
(* years cut by instants are those cut by local dates; that what a fetch   *)
(* stores was measured at its hour and leaves out nothing that was         *)
(* published; that totals, curve and split of an answer never run ahead of *)
(* each other while the collection writes, and agree when it rests; and    *)
(* that what is offered to choose from begins with the newest.             *)
(***************************************************************************)
EXTENDS ReadApi, FiniteSetTheorems, TLAPS

-----------------------------------------------------------------------------
(* Sums of rows *)

(* Induction over the finite subsets of a set: a family of them that has the      *)
(* empty set, and every set whose parts with one element less it all has, has    *)
(* them all.                                                                *)
LEMMA FiniteSetsOneByOne ==
    ASSUME NEW S, IsFiniteSet(S), NEW P,
           {} \in P,
           \A s \in SUBSET S : s # {} /\ (\A x \in s : s \ {x} \in P) => s \in P
    PROVE  \A s \in SUBSET S : s \in P
  <1> DEFINE T == {s \in SUBSET S : s \notin P}
  <1> SUFFICES ASSUME T # {} PROVE FALSE
    OBVIOUS
  <1>1. IsWellFoundedOn(StrictSubsetOrdering(S), SUBSET S)
    BY FS_StrictSubsetOrderingWellFounded, FS_FiniteSubsetsOfFinite
  <1>2. PICK s \in T : \A u \in T : ~(<<u, s>> \in StrictSubsetOrdering(S))
    BY <1>1, WFMin, T \subseteq SUBSET S
  <1>3. s # {} /\ s \in SUBSET S
    BY <1>2
  <1>4. ASSUME NEW x \in s PROVE s \ {x} \in P
    <2>1. <<s \ {x}, s>> \in StrictSubsetOrdering(S)
      <3>1. s \ {x} \in SUBSET S /\ s \ {x} \subseteq s /\ s \ {x} # s
        BY <1>3
      <3> QED BY <1>3, <3>1 DEF StrictSubsetOrdering
    <2>2. s \ {x} \notin T
      BY <1>2, <2>1
    <2> QED BY <1>3, <2>2
  <1> QED BY <1>2, <1>3, <1>4

(* g has the sums of table f over the subsets of S: what the fold computes.        *)
Step(f, g, s) ==
    IF s = {} THEN 0 ELSE f[CHOOSE x \in s : TRUE] + g[s \ {CHOOSE x \in s : TRUE}]

Sums(f, S, g) == g = [s \in SUBSET S |-> Step(f, g, s)]

(* ... those of less than n elements. *)
SumsBelow(f, S, g, n) ==
    /\ g = [s \in SUBSET S |-> g[s]]
    /\ \A s \in SUBSET S : Cardinality(s) < n => g[s] = Step(f, g, s)

(* Up to any size of the subsets there is such a function ... *)
LEMMA SumsUpTo ==
    ASSUME NEW f, NEW S, IsFiniteSet(S)
    PROVE  \A n \in Nat : \E g : SumsBelow(f, S, g, n)
  <1> DEFINE T == {n \in Nat : ~ \E g : SumsBelow(f, S, g, n)}
  <1>0. \A s \in SUBSET S : IsFiniteSet(s) /\ Cardinality(s) \in Nat
    BY FS_Subset, FS_CardinalityType
  <1> SUFFICES ASSUME T # {} PROVE FALSE
    OBVIOUS
  <1>1. PICK n \in T : \A k \in T : ~(<<k, n>> \in OpToRel(<, Nat))
    BY NatLessThanWellFounded, WFMin, T \subseteq Nat
  <1>2. n \in Nat /\ \A k \in T : ~(k < n)
    BY <1>1 DEF OpToRel
  <1>3. n # 0
    <2>1. SumsBelow(f, S, [s \in SUBSET S |-> 0], 0)
      BY <1>0 DEF SumsBelow
    <2> QED BY <1>1, <2>1
  <1>4. n - 1 \in Nat /\ n - 1 \notin T
    <2>1. n - 1 \in Nat /\ n - 1 < n
      BY <1>2, <1>3
    <2> HIDE DEF T
    <2> QED BY <1>2, <2>1
  <1>5. PICK g : SumsBelow(f, S, g, n - 1)
    BY <1>4
  <1> DEFINE h == [s \in SUBSET S |-> Step(f, g, s)]
  <1>6. ASSUME NEW s \in SUBSET S, Cardinality(s) < n PROVE h[s] = Step(f, h, s)
    <2>1. CASE s = {}
      BY <2>1 DEF Step
    <2>2. CASE s # {}
      <3> DEFINE c == CHOOSE x \in s : TRUE
                 u == s \ {c}
      <3>1. c \in s
        BY <2>2
      <3> HIDE DEF c
      <3>2. u \in SUBSET S /\ Cardinality(u) = Cardinality(s) - 1
        BY <1>0, <3>1, FS_RemoveElement
      <3>3. Cardinality(u) < n - 1
        <4>1. Cardinality(s) \in Nat /\ n \in Nat
          BY <1>0, <1>2
        <4> HIDE DEF u, T
        <4> QED BY <1>6, <3>2, <4>1
      <3>4. g[u] = Step(f, g, u)
        BY <1>5, <3>2, <3>3 DEF SumsBelow
      <3>5. h[u] = g[u]
        BY <3>2, <3>4
      <3>6. h[s] = f[c] + g[u]
        BY <2>2 DEF Step, c
      <3>7. Step(f, h, s) = f[c] + h[u]
        BY <2>2 DEF Step, c
      <3> QED BY <3>5, <3>6, <3>7
    <2> QED BY <2>1, <2>2
  <1>7. h = [s \in SUBSET S |-> h[s]]
    OBVIOUS
  <1>8. SumsBelow(f, S, h, n)
    BY <1>6, <1>7 DEF SumsBelow
  <1> QED BY <1>1, <1>8

(* ... and so there is one for all of them. *)
LEMMA SumsExist == ASSUME NEW f, NEW S, IsFiniteSet(S) PROVE \E g : Sums(f, S, g)
  <1>1. /\ Cardinality(S) + 1 \in Nat
        /\ \A s \in SUBSET S : Cardinality(s) < Cardinality(S) + 1
    <2>1. \A s \in SUBSET S : /\ Cardinality(s) \in Nat /\ Cardinality(S) \in Nat
                             /\ Cardinality(s) <= Cardinality(S)
      BY FS_Subset, FS_CardinalityType
    <2> QED BY <2>1
  <1> DEFINE n == Cardinality(S) + 1
  <1> HIDE DEF n
  <1>2. PICK g : SumsBelow(f, S, g, n)
    <2>1. n \in Nat
      BY <1>1 DEF n
    <2> QED BY <2>1, SumsUpTo
  <1>3. \A s \in SUBSET S : g[s] = Step(f, g, s)
    BY <1>1, <1>2 DEF n, SumsBelow
  <1>4. g = [s \in SUBSET S |-> Step(f, g, s)]
    BY <1>2, <1>3 DEF SumsBelow
  <1> QED BY <1>4 DEF Sums

(* The fold takes one. *)
LEMMA SumIsOfSums ==
    ASSUME NEW f, NEW S, IsFiniteSet(S) PROVE \E g : Sums(f, S, g) /\ Sum(f, S) = g[S]
  <1> DEFINE Fold(h) == h = [s \in SUBSET S |->
                                IF s = {} THEN 0
                                ELSE f[CHOOSE x \in s : TRUE]
                                        + h[s \ {CHOOSE x \in s : TRUE}]]
             g == CHOOSE h : Fold(h)
  <1>0. \E h : Fold(h)
    <2>1. PICK h : Sums(f, S, h)
      BY SumsExist
    <2>2. Fold(h)
      BY <2>1 DEF Sums, Step
    <2> HIDE DEF Fold
    <2> QED BY <2>2
  <1>1. Sums(f, S, g)
    <2>1. Fold(g)
      <3> HIDE DEF Fold
      <3> QED BY <1>0
    <2> QED BY <2>1 DEF Sums, Step
  <1>2. Sum(f, S) = g[S]
    BY DEF Sum, MapThenSumSet, MapThenFoldSet
  <1> QED BY <1>1, <1>2

(* On a common subset all of them agree. *)
LEMMA SumsAgree ==
    ASSUME NEW f, NEW S, IsFiniteSet(S), NEW T \in SUBSET S, NEW g, NEW h,
           Sums(f, S, g), Sums(f, T, h)
    PROVE  \A s \in SUBSET T : g[s] = h[s]
  <1> DEFINE P == {s \in SUBSET T : g[s] = h[s]}
  <1>1. IsFiniteSet(T)
    BY FS_Subset
  <1>2. ASSUME NEW s \in SUBSET T PROVE g[s] = Step(f, g, s) /\ h[s] = Step(f, h, s)
    BY <1>2 DEF Sums
  <1>3. {} \in P
    BY <1>2 DEF Step
  <1>4. ASSUME NEW s \in SUBSET T, s # {}, \A x \in s : s \ {x} \in P PROVE s \in P
    <2>1. PICK c \in s : c = CHOOSE x \in s : TRUE
      BY <1>4
    <2>2. g[s \ {c}] = h[s \ {c}]
      BY <1>4, <2>1
    <2>3. Step(f, g, s) = Step(f, h, s)
      BY <1>4, <2>1, <2>2 DEF Step
    <2> QED BY <1>2, <2>3
  <1>5. \A s \in SUBSET T : s \in P
    BY <1>1, <1>3, <1>4, FiniteSetsOneByOne
  <1> QED BY <1>5

(* Nothing sums up to zero. *)
LEMMA SumEmpty == ASSUME NEW f PROVE Sum(f, {}) = 0
  <1>1. PICK g : Sums(f, {}, g) /\ Sum(f, {}) = g[{}]
    BY SumIsOfSums, FS_EmptySet
  <1> QED BY <1>1 DEF Sums, Step

(* A sum is one of its rows and the sum of the others. *)
LEMMA SumStep ==
    ASSUME NEW f, NEW S, IsFiniteSet(S), S # {}
    PROVE  \E c \in S : Sum(f, S) = f[c] + Sum(f, S \ {c})
  <1>1. PICK c \in S : c = CHOOSE x \in S : TRUE
    OBVIOUS
  <1>2. PICK g : Sums(f, S, g) /\ Sum(f, S) = g[S]
    BY SumIsOfSums
  <1>3. IsFiniteSet(S \ {c}) /\ S \ {c} \in SUBSET S
    BY FS_RemoveElement
  <1>4. PICK h : Sums(f, S \ {c}, h) /\ Sum(f, S \ {c}) = h[S \ {c}]
    BY <1>3, SumIsOfSums
  <1>5. g[S] = f[c] + g[S \ {c}]
    BY <1>1, <1>2 DEF Sums, Step
  <1>6. g[S \ {c}] = h[S \ {c}]
    BY <1>2, <1>3, <1>4, SumsAgree
  <1> QED BY <1>2, <1>4, <1>5, <1>6

(* Sums of natural numbers are one, ... *)
LEMMA SumType ==
    ASSUME NEW S, IsFiniteSet(S), NEW f, \A t \in S : f[t] \in Nat
    PROVE  Sum(f, S) \in Nat
  <1> DEFINE P == {s \in SUBSET S : Sum(f, s) \in Nat}
  <1>1. {} \in P
    BY SumEmpty
  <1>2. ASSUME NEW s \in SUBSET S, s # {}, \A x \in s : s \ {x} \in P PROVE s \in P
    <2>1. PICK c \in s : Sum(f, s) = f[c] + Sum(f, s \ {c})
      BY <1>2, SumStep, FS_Subset
    <2>2. f[c] \in Nat /\ Sum(f, s \ {c}) \in Nat
      BY <1>2
    <2> QED BY <2>1, <2>2
  <1>3. \A s \in SUBSET S : s \in P
    <2> HIDE DEF P
    <2> QED BY <1>1, <1>2, FiniteSetsOneByOne
  <1> QED BY <1>3

(* ... and may be begun with any element. *)
LEMMA SumRemove ==
    ASSUME NEW S, IsFiniteSet(S), NEW f, \A t \in S : f[t] \in Nat
    PROVE  \A x \in S : Sum(f, S) = f[x] + Sum(f, S \ {x})
  <1> DEFINE P == {s \in SUBSET S : \A x \in s : Sum(f, s) = f[x] + Sum(f, s \ {x})}
  <1>1. {} \in P
    OBVIOUS
  <1>2. ASSUME NEW s \in SUBSET S, s # {}, \A x \in s : s \ {x} \in P PROVE s \in P
    <2> SUFFICES ASSUME NEW x \in s PROVE Sum(f, s) = f[x] + Sum(f, s \ {x})
      OBVIOUS
    <2>1. PICK c \in s : Sum(f, s) = f[c] + Sum(f, s \ {c})
      BY <1>2, SumStep, FS_Subset
    <2>2. CASE c = x
      BY <2>1, <2>2
    <2>3. CASE c # x
      <3> DEFINE rest == (s \ {c}) \ {x}
      <3>1. Sum(f, s \ {c}) = f[x] + Sum(f, rest)
        BY <1>2, <2>3
      <3>2. Sum(f, s \ {x}) = f[c] + Sum(f, rest)
        <4>1. (s \ {x}) \ {c} = rest
          OBVIOUS
        <4> QED BY <1>2, <2>3, <4>1
      <3>3. IsFiniteSet(rest) /\ rest \subseteq S
        BY FS_Subset
      <3>4. Sum(f, rest) \in Nat /\ f[c] \in Nat /\ f[x] \in Nat
        BY <3>3, SumType
      <3> HIDE DEF rest
      <3> QED BY <2>1, <3>1, <3>2, <3>4
    <2> QED BY <2>2, <2>3
  <1> HIDE DEF P
  <1>3. \A s \in SUBSET S : s \in P
    BY ONLY IsFiniteSet(S), <1>1, <1>2, FiniteSetsOneByOne, ZenonT(30)
  <1> QED BY <1>3 DEF P

(* A sum depends on the values of its rows only, ... *)
LEMMA SumSame ==
    ASSUME NEW S, IsFiniteSet(S), NEW f, NEW g,
           \A t \in S : f[t] \in Nat /\ f[t] = g[t]
    PROVE  Sum(f, S) = Sum(g, S)
  <1> DEFINE P == {s \in SUBSET S : Sum(f, s) = Sum(g, s)}
  <1>1. {} \in P
    BY SumEmpty
  <1>2. ASSUME NEW s \in SUBSET S, s # {}, \A x \in s : s \ {x} \in P PROVE s \in P
    <2>1. PICK c \in s : TRUE
      BY <1>2
    <2>2. IsFiniteSet(s)
      BY FS_Subset
    <2>3. Sum(f, s) = f[c] + Sum(f, s \ {c}) /\ Sum(g, s) = g[c] + Sum(g, s \ {c})
      BY <2>2, SumRemove
    <2>4. Sum(f, s \ {c}) = Sum(g, s \ {c}) /\ f[c] = g[c]
      BY <1>2
    <2> QED BY <2>3, <2>4
  <1>3. \A s \in SUBSET S : s \in P
    BY <1>1, <1>2, FiniteSetsOneByOne
  <1> QED BY <1>3

(* ... is that of two parts together ... *)
LEMMA SumOfParts ==
    ASSUME NEW S, IsFiniteSet(S), NEW f, \A t \in S : f[t] \in Nat,
           NEW A \in SUBSET S
    PROVE  Sum(f, S) = Sum(f, A) + Sum(f, S \ A)
  <1> DEFINE P == {s \in SUBSET A : Sum(f, S) = Sum(f, s) + Sum(f, S \ s)}
  <1>0. IsFiniteSet(A) /\ \A s \in SUBSET S : IsFiniteSet(s) /\ Sum(f, s) \in Nat
    BY FS_Subset, SumType
  <1>1. {} \in P
    <2>1. Sum(f, S) \in Nat /\ S \ {} = S
      BY <1>0
    <2> QED BY <2>1, SumEmpty
  <1>2. ASSUME NEW s \in SUBSET A, s # {}, \A x \in s : s \ {x} \in P PROVE s \in P
    <2>1. PICK c \in s : TRUE
      BY <1>2
    <2>2. Sum(f, s) = f[c] + Sum(f, s \ {c})
      BY <1>0, SumRemove
    <2>3. Sum(f, S \ (s \ {c})) = f[c] + Sum(f, S \ s)
      <3>1. c \in S \ (s \ {c}) /\ (S \ (s \ {c})) \ {c} = S \ s
        BY <1>2, <2>1
      <3>2. IsFiniteSet(S \ (s \ {c})) /\ \A t \in S \ (s \ {c}) : f[t] \in Nat
        BY <1>0
      <3>3. Sum(f, S \ (s \ {c})) = f[c] + Sum(f, (S \ (s \ {c})) \ {c})
        BY <3>1, <3>2, SumRemove
      <3> QED BY <3>1, <3>3
    <2>4. Sum(f, S) = Sum(f, s \ {c}) + Sum(f, S \ (s \ {c}))
      BY <1>2
    <2>5. /\ Sum(f, s) \in Nat /\ Sum(f, s \ {c}) \in Nat /\ Sum(f, S \ s) \in Nat
          /\ f[c] \in Nat
      <3>1. s \in SUBSET S /\ s \ {c} \in SUBSET S /\ S \ s \in SUBSET S /\ c \in S
        OBVIOUS
      <3> QED BY <1>0, <3>1
    <2> QED BY <2>2, <2>3, <2>4, <2>5
  <1>3. \A s \in SUBSET A : s \in P
    BY <1>0, <1>1, <1>2, FiniteSetsOneByOne
  <1> QED BY <1>3

(* ... and does not get less with more rows. *)
LEMMA SumOfMore ==
    ASSUME NEW S, IsFiniteSet(S), NEW f, \A t \in S : f[t] \in Nat,
           NEW A \in SUBSET S
    PROVE  Sum(f, A) <= Sum(f, S) /\ Sum(f, A) \in Nat /\ Sum(f, S) \in Nat
  <1>1. IsFiniteSet(A) /\ IsFiniteSet(S \ A)
    BY FS_Subset
  <1>2. Sum(f, A) \in Nat /\ Sum(f, S \ A) \in Nat /\ Sum(f, S) \in Nat
    BY <1>1, SumType
  <1> QED BY <1>2, SumOfParts

(* The least that is stated of totals: none is more than the sum of its rows. Then *)
(* no total of totals is.                                                    *)
LEMMA SumOfSmaller ==
    ASSUME NEW S, IsFiniteSet(S), NEW f, NEW g,
           \A t \in S : f[t] \in Nat /\ g[t] \in Nat /\ f[t] <= g[t]
    PROVE  Sum(f, S) <= Sum(g, S)
  <1> DEFINE P == {s \in SUBSET S : Sum(f, s) <= Sum(g, s)}
  <1>1. {} \in P
    BY SumEmpty
  <1>2. ASSUME NEW s \in SUBSET S, s # {}, \A x \in s : s \ {x} \in P PROVE s \in P
    <2>1. PICK c \in s : TRUE
      BY <1>2
    <2>2. IsFiniteSet(s) /\ IsFiniteSet(s \ {c})
      BY FS_Subset
    <2>3. Sum(f, s) = f[c] + Sum(f, s \ {c}) /\ Sum(g, s) = g[c] + Sum(g, s \ {c})
      BY <2>2, SumRemove
    <2>4. Sum(f, s \ {c}) <= Sum(g, s \ {c})
      BY <1>2
    <2>5. /\ Sum(f, s \ {c}) \in Nat /\ Sum(g, s \ {c}) \in Nat
          /\ f[c] \in Nat /\ g[c] \in Nat /\ f[c] <= g[c]
      BY <2>2, SumType
    <2> QED BY <2>3, <2>4, <2>5
  <1>3. \A s \in SUBSET S : s \in P
    BY <1>1, <1>2, FiniteSetsOneByOne
  <1> QED BY <1>3

(* The rows of a group, and of several. *)
Group(S, group, b)  == {t \in S : group[t] = b}
Groups(S, group, K) == {t \in S : group[t] \in K}

(* A table of totals sums up the rows of its groups. *)
LEMMA SumOfGroups ==
    ASSUME NEW S, IsFiniteSet(S), NEW f, \A t \in S : f[t] \in Nat,
           NEW group, NEW K, IsFiniteSet(K), NEW totals,
           \A b \in K : totals[b] = Sum(f, Group(S, group, b))
    PROVE  /\ \A b \in K : totals[b] \in Nat
           /\ Sum(totals, K) = Sum(f, Groups(S, group, K))
  <1> DEFINE Of(k) == {t \in S : group[t] \in k}
             P == {k \in SUBSET K : Sum(totals, k) = Sum(f, Of(k))}
  <1>0. \A s \in SUBSET S : IsFiniteSet(s) /\ Sum(f, s) \in Nat
    BY FS_Subset, SumType
  <1>1. \A b \in K : totals[b] \in Nat
    BY <1>0 DEF Group
  <1>2. {} \in P
    <2>1. Of({}) = {}
      OBVIOUS
    <2> QED BY <2>1, SumEmpty
  <1>3. ASSUME NEW k \in SUBSET K, k # {}, \A x \in k : k \ {x} \in P PROVE k \in P
    <2>1. PICK b \in k : TRUE
      BY <1>3
    <2> DEFINE mine == {t \in S : group[t] = b}
    <2>2. Sum(totals, k) = totals[b] + Sum(totals, k \ {b})
      BY <1>1, FS_Subset, SumRemove
    <2>3. Sum(totals, k \ {b}) = Sum(f, Of(k \ {b}))
      BY <1>3
    <2>4. mine \in SUBSET Of(k) /\ Of(k) \ mine = Of(k \ {b}) /\ Of(k) \in SUBSET S
      OBVIOUS
    <2>5. totals[b] = Sum(f, mine)
      BY DEF Group
    <2> HIDE DEF mine, Of
    <2>6. Sum(f, Of(k)) = Sum(f, mine) + Sum(f, Of(k) \ mine)
      <3>1. IsFiniteSet(Of(k)) /\ \A t \in Of(k) : f[t] \in Nat
        BY <1>0, <2>4
      <3> QED BY <2>4, <3>1, SumOfParts
    <2> QED BY <2>2, <2>3, <2>4, <2>5, <2>6
  <1> HIDE DEF Of
  <1>4. \A k \in SUBSET K : k \in P
    BY <1>2, <1>3, FiniteSetsOneByOne
  <1>5. K \in P
    BY <1>4
  <1> QED BY <1>1, <1>5 DEF Of, Groups

-----------------------------------------------------------------------------
(* The clock *)

USE LocalTimeAssumption

(* A wall clock is read back to the instant it showed, but for the hour that   *)
(* the clock repeats: its first pass is taken for the second, so that the two  *)
(* hours of readings meet in one (hep_client.go 263-276).                      *)
THEOREM WallClockReadsBack ==
    ASSUME NEW t \in Int
    PROVE  Instant(Local(t)) = IF t = FirstPass THEN t + 1 ELSE t
  BY DEF Instant, Local, Offset, FirstPass

(* The window of the high tariff is the same fourteen hours of UTC, in winter  *)
(* and in summer (repository.go 45-52).                                        *)
THEOREM HighTariffHours ==
    ASSUME NEW t \in Int
    PROVE  IsVT(t) <=> t % 24 \in 6 .. 19
  BY DEF IsVT, LocalHour, Local, Offset

(* A local midnight divides the instants as it divides the wall clocks.        *)
LEMMA MidnightDivides ==
    ASSUME NEW t \in Int, NEW w \in Int, w % 24 = 0
    PROVE  t >= Instant(w) <=> Local(t) >= w
  BY DEF Instant, Local, Offset

(* The first wall clock of a month is a midnight. *)
LEMMA MonthBeginsAtMidnight ==
    ASSUME NEW m \in Int
    PROVE  24 * DaysPerMonth * m \in Int /\ (24 * DaysPerMonth * m) % 24 = 0
  <1>1. DaysPerMonth * m \in Int /\ 24 * DaysPerMonth * m = 24 * (DaysPerMonth * m)
    OBVIOUS
  <1>2. \A k \in Int : (24 * k) % 24 = 0
    OBVIOUS
  <1> QED
    BY <1>1, <1>2

(* Instants are numbers. *)
LEMMA InstantType ==
    ASSUME NEW w \in Int PROVE Instant(w) \in Int
  BY DEF Instant, Offset

(* The days of a month are those between its first midnight and the next one's. *)
LEMMA MonthOfWallClock ==
    ASSUME NEW w \in Int, NEW m \in Int
    PROVE  (w \div 24) \div DaysPerMonth = m <=>
              24 * DaysPerMonth * m <= w /\ w < 24 * DaysPerMonth * (m + 1)
  <1> DEFINE D == DaysPerMonth
             d == w \div 24
             q == d \div D
  <1>1. d \in Int /\ 24 * d <= w /\ w < 24 * d + 24
    OBVIOUS
  <1>2. D \in Nat \ {0}
    OBVIOUS
  <1> HIDE DEF D, d
  <1>3. q \in Int /\ D * q <= d /\ d < D * q + D
    BY <1>1, <1>2
  <1> HIDE DEF q
  <1>4. /\ D * m \in Int /\ D * q \in Int
        /\ D * (m + 1) = D * m + D
        /\ 24 * D * m = 24 * (D * m) /\ 24 * D * (m + 1) = 24 * (D * m) + 24 * D
    BY <1>2, <1>3
  <1>5. ASSUME q = m PROVE 24 * D * m <= w /\ w < 24 * D * (m + 1)
    BY <1>1, <1>2, <1>3, <1>4, <1>5
  <1>6. ASSUME q < m PROVE w < 24 * D * m
    <2>1. q + 1 <= m /\ m - (q + 1) \in Nat
      BY <1>3, <1>6
    <2>2. D * (m - (q + 1)) \in Nat
      BY <1>2, <2>1
    <2>3. D * (m - (q + 1)) = D * m - (D * q + D)
      BY <1>2, <1>3
    <2>4. D * q + D <= D * m
      BY <1>2, <1>4, <2>2, <2>3
    <2> QED
      BY <1>1, <1>2, <1>3, <1>4, <2>4
  <1>7. ASSUME q > m PROVE w >= 24 * D * (m + 1)
    <2>1. q - (m + 1) \in Nat
      BY <1>3, <1>7
    <2>2. D * (q - (m + 1)) \in Nat
      BY <1>2, <2>1
    <2>3. D * (q - (m + 1)) = D * q - (D * m + D)
      BY <1>2, <1>3
    <2>4. D * m + D <= D * q
      BY <1>2, <1>4, <2>2, <2>3
    <2> QED
      BY <1>1, <1>2, <1>3, <1>4, <2>4
  <1>8. q = m <=> 24 * D * m <= w /\ w < 24 * D * (m + 1)
    <2>1. q = m \/ q < m \/ q > m
      BY <1>3
    <2>2. 24 * D * m \in Int /\ 24 * D * (m + 1) \in Int
      BY <1>2
    <2> QED
      BY <1>1, <1>3, <1>5, <1>6, <1>7, <2>1, <2>2
  <1> QED
    BY <1>8 DEF q, d, D

(* The range of instants of a month has exactly the instants whose local date  *)
(* lies in the month, whatever the clock does in between: daily totals, which   *)
(* are cut by date, and rows, which are cut by instants, are about the same     *)
(* readings (repository.go 54-72, 180-213).                                    *)
THEOREM RangesAreMonths ==
    ASSUME NEW t \in Int, NEW m \in Int
    PROVE  t \in MonthRange(m) <=> MonthOf(t) = m
  <1> DEFINE from == 24 * DaysPerMonth * m
             to == 24 * DaysPerMonth * (m + 1)
  <1>1. from \in Int /\ from % 24 = 0 /\ to \in Int /\ to % 24 = 0
    <2>1. from \in Int /\ from % 24 = 0
      BY MonthBeginsAtMidnight, Zenon
    <2>2. m + 1 \in Int
      OBVIOUS
    <2> HIDE DEF from
    <2>3. to \in Int /\ to % 24 = 0
      BY <2>2, MonthBeginsAtMidnight, Zenon
    <2> QED
      BY <2>1, <2>3
  <1>2. Local(t) \in Int
    BY DEF Local, Offset
  <1>3. MonthOf(t) = m <=> from <= Local(t) /\ Local(t) < to
    BY <1>2, MonthOfWallClock DEF MonthOf, LocalDay
  <1> HIDE DEF from, to
  <1>4. (t >= Instant(from) <=> Local(t) >= from) /\ (t >= Instant(to) <=> Local(t) >= to)
    BY <1>1, MidnightDivides
  <1>5. Instant(from) \in Int /\ Instant(to) \in Int
    BY <1>1, InstantType
  <1>6. t \in Instant(from) .. (Instant(to) - 1) <=> MonthOf(t) = m
    BY <1>1, <1>2, <1>3, <1>4, <1>5
  <1> QED
    BY <1>6 DEF MonthRange, FirstOfMonth, from, to

(* A month has begun from its first instant on. *)
LEMMA MonthHasBegun ==
    ASSUME NEW t \in Int, NEW m \in Int
    PROVE  /\ t >= FirstOfMonth(m) <=> MonthOf(t) >= m
           /\ FirstOfMonth(m) \in Int /\ MonthOf(t) \in Int /\ LocalDay(t) \in Int
  <1> DEFINE D == DaysPerMonth
             w == Local(t)
             q == MonthOf(t)
  <1>1. D \in Nat \ {0} /\ w \in Int
    BY DEF Local, Offset
  <1>2. LocalDay(t) \in Int /\ q \in Int
    BY <1>1 DEF LocalDay, MonthOf
  <1>3. 24 * D * q <= w /\ w < 24 * D * (q + 1)
    <2>1. (w \div 24) \div D = q
      BY DEF MonthOf, LocalDay
    <2> HIDE DEF w, q
    <2> QED BY <1>1, <1>2, <2>1, MonthOfWallClock
  <1>4. 24 * D * m \in Int /\ (24 * D * m) % 24 = 0
    BY MonthBeginsAtMidnight, Zenon
  <1>5. t >= FirstOfMonth(m) <=> w >= 24 * D * m
    BY <1>4, MidnightDivides DEF FirstOfMonth
  <1>6. FirstOfMonth(m) \in Int
    BY <1>4, InstantType DEF FirstOfMonth
  <1> HIDE DEF D, w, q
  <1>7. /\ 24 * D * m = 24 * (D * m) /\ 24 * D * q = 24 * (D * q)
        /\ 24 * D * (q + 1) = 24 * (D * q) + 24 * D
        /\ D * m \in Int /\ D * q \in Int
    BY <1>1, <1>2
  <1>8. CASE q >= m
    <2>1. D * (q - m) \in Nat /\ D * (q - m) = D * q - D * m
      BY <1>1, <1>2, <1>8
    <2> QED BY <1>1, <1>2, <1>3, <1>5, <1>6, <1>7, <1>8, <2>1 DEF q
  <1>9. CASE q < m
    <2>1. D * (m - (q + 1)) \in Nat /\ D * (m - (q + 1)) = D * m - (D * q + D)
      BY <1>1, <1>2, <1>9
    <2> QED BY <1>1, <1>2, <1>3, <1>5, <1>6, <1>7, <1>9, <2>1 DEF q
  <1> QED BY <1>2, <1>8, <1>9

(* The range of instants of a year has exactly the instants whose local date lies *)
(* in it (repository.go 68-72, 343-428).                                        *)
THEOREM RangesAreYears ==
    ASSUME NEW t \in Int, NEW y \in Int
    PROVE  t \in YearRange(y) <=> MonthOf(t) \in MonthsOf(y)
  <1> DEFINE a == MonthsPerYear * y
             b == MonthsPerYear * (y + 1)
  <1>1. a \in Int /\ b \in Int /\ y * MonthsPerYear = a /\ (y + 1) * MonthsPerYear = b
    OBVIOUS
  <1> HIDE DEF a, b
  <1>2. /\ t >= FirstOfMonth(a) <=> MonthOf(t) >= a
        /\ t >= FirstOfMonth(b) <=> MonthOf(t) >= b
        /\ FirstOfMonth(a) \in Int /\ FirstOfMonth(b) \in Int /\ MonthOf(t) \in Int
    BY <1>1, MonthHasBegun
  <1>3. t \in FirstOfMonth(a) .. (FirstOfMonth(b) - 1) <=> MonthOf(t) \in a .. (b - 1)
    BY <1>1, <1>2
  <1>4. YearRange(y) = FirstOfMonth(a) .. (FirstOfMonth(b) - 1) /\ MonthsOf(y) = a .. (b - 1)
    BY <1>1 DEF YearRange, MonthsOf, a, b
  <1> QED BY <1>3, <1>4

(* The days of a month. *)
LEMMA DayOfMonth ==
    ASSUME NEW d \in Int, NEW m \in Int
    PROVE  d \in DaysOf(m) <=> d \div DaysPerMonth = m
  <1> DEFINE D == DaysPerMonth
             q == d \div D
  <1>1. D \in Nat \ {0} /\ q \in Int /\ D * q <= d /\ d < D * q + D
    OBVIOUS
  <1> HIDE DEF D, q
  <1>2. /\ D * m \in Int /\ D * q \in Int /\ m * D = D * m /\ (m + 1) * D = D * m + D
    BY <1>1
  <1>3. CASE q = m
    BY <1>1, <1>2, <1>3 DEF DaysOf, D, q
  <1>4. CASE q < m
    <2>1. D * (m - (q + 1)) \in Nat /\ D * (m - (q + 1)) = D * m - (D * q + D)
      BY <1>1, <1>4
    <2>2. d < D * m
      BY <1>1, <1>2, <2>1
    <2> QED BY <1>1, <1>2, <1>4, <2>2 DEF DaysOf, D, q
  <1>5. CASE q > m
    <2>1. D * (q - (m + 1)) \in Nat /\ D * (q - (m + 1)) = D * q - (D * m + D)
      BY <1>1, <1>5
    <2>2. d >= D * m + D
      BY <1>1, <1>2, <2>1
    <2> QED BY <1>1, <1>2, <1>5, <2>2 DEF DaysOf, D, q
  <1> QED BY <1>1, <1>3, <1>4, <1>5

-----------------------------------------------------------------------------
(* The API *)

(* A request at work is a record of its parts. *)
RequestShape ==
    request # NoRequest =>
        /\ request.pc # "idle"
        /\ request.pc = "totals" => request.kind \in {"month", "year", "calendar"}
        /\ request = [pc |-> request.pc, kind |-> request.kind, of |-> request.of,
                      quiet |-> request.quiet, totals |-> request.totals,
                      curve |-> request.curve, tariff |-> request.tariff,
                      vt |-> request.vt, nt |-> request.nt]

(* What a quiet request has split is what the table still holds. *)
SplitIsCurrent ==
    request # NoRequest /\ request.quiet /\ request.vt # Absent =>
        request.vt = Split(request, TRUE)

(* Invariant of the API. *)
ApiInv == RequestShape /\ SplitIsCurrent

(* The splitting of two requests for the same is the same. *)
LEMMA SplitDependsOn ==
    ASSUME NEW r, NEW q, r.kind = q.kind, r.of = q.of
    PROVE  Split(r, TRUE) = Split(q, TRUE)
  <1>1. Rows(r) = Rows(q)
    BY DEF Rows, OfMonth
  <1>2. \A t : Bucket(r, t) = Bucket(q, t)
    BY DEF Bucket
  <1>3. {Bucket(r, t) : t \in Rows(r)} = {Bucket(q, t) : t \in Rows(q)}
    BY <1>1, <1>2
  <1>4. \A b : {t \in Rows(r) : Bucket(r, t) = b /\ IsVT(t) = TRUE}
             = {t \in Rows(q) : Bucket(q, t) = b /\ IsVT(t) = TRUE}
    BY <1>1, <1>2
  <1> QED
    BY <1>3, <1>4 DEF Split

(* The request goes on to another step, and is about the same. *)
GoesOn ==
    /\ request # NoRequest
    /\ stored' = stored
    /\ request'.kind = request.kind /\ request'.of = request.of
    /\ request'.vt = request.vt /\ request'.quiet = request.quiet
    /\ RequestShape'

(* A step of the request that does not split keeps the invariant. *)
LEMMA GoingOn == ASSUME ApiInv, GoesOn PROVE ApiInv'
  <1>1. Split(request, TRUE)' = Split(request', TRUE)
    BY DEF GoesOn, Split, Rows, Bucket, OfMonth
  <1>2. Split(request', TRUE) = Split(request, TRUE)
    BY SplitDependsOn DEF GoesOn
  <1> QED
    BY <1>1, <1>2 DEF ApiInv, GoesOn, SplitIsCurrent

(* The collection disturbs a request at work. *)
LEMMA DisturbKeeps ==
    ASSUME ApiInv, request' = Disturb(request) PROVE ApiInv'
  <1>1. CASE request = NoRequest
    BY <1>1 DEF Disturb, NoRequest, ApiInv, RequestShape, SplitIsCurrent
  <1>2. CASE request # NoRequest
    <2>1. request' = [request EXCEPT !.quiet = FALSE]
      BY <1>2 DEF Disturb, ApiInv, RequestShape
    <2>2. RequestShape' /\ ~request'.quiet
      BY <1>2, <2>1 DEF ApiInv, RequestShape
    <2> QED
      BY <2>2 DEF ApiInv, SplitIsCurrent
  <1> QED
    BY <1>1, <1>2

(* Every step keeps the invariant. *)
LEMMA NextApiInv == ASSUME ApiInv, [Next]_vars PROVE ApiInv'
  <1> USE DEF ApiInv
  <1>1. ASSUME UNCHANGED <<stored, request>> PROVE ApiInv'
    BY <1>1 DEF RequestShape, SplitIsCurrent, Split, Rows, Bucket, OfMonth
  <1>2. CASE NextDay \/ Publish \/ UNCHANGED vars
    BY <1>1, <1>2 DEF NextDay, Publish, vars
  <1>3. ASSUME NEW model \in Submitted, UpdateTariff(model) PROVE ApiInv'
    BY <1>1, <1>3 DEF UpdateTariff
  <1>4. ASSUME NEW m \in Months, Fetch(m) PROVE ApiInv'
    BY <1>1, <1>4 DEF Fetch
  <1>5. CASE Store \/ Refresh
    BY <1>5, DisturbKeeps DEF Store, Refresh
  <1>13. CASE StoreFails \/ RefreshFails
    BY <1>1, <1>13 DEF StoreFails, RefreshFails
  <1>6. ASSUME NEW kind \in {"month", "hours", "year", "calendar"}, NEW of, Begin(kind, of)
        PROVE  ApiInv'
    BY <1>6 DEF Begin, RequestShape, SplitIsCurrent, NoRequest
  <1>7. CASE ReadTotals
    <2>1. /\ request # NoRequest /\ stored' = stored
          /\ request.kind \in {"month", "year", "calendar"}
      BY <1>7 DEF ReadTotals, NoRequest, RequestShape
    <2>2. PICK next \in {"curve", "tariff", "done"} :
             request' = [request EXCEPT !.totals = Totals(request), !.pc = next]
      <3>1. CASE request.kind = "month"
        BY <1>7, <3>1 DEF ReadTotals
      <3>2. CASE request.kind = "year"
        BY <1>7, <3>2 DEF ReadTotals
      <3>3. CASE request.kind = "calendar"
        BY <1>7, <3>3 DEF ReadTotals
      <3> QED
        BY <2>1, <3>1, <3>2, <3>3
    <2>3. GoesOn
      BY <2>1, <2>2 DEF GoesOn, RequestShape, NoRequest
    <2> QED
      BY <2>3, GoingOn
  <1>8. CASE ReadHours \/ ReadCurve
    <2>1. request # NoRequest
      BY <1>8 DEF ReadHours, ReadCurve, NoRequest
    <2>2. CASE ReadHours
      <3>1. GoesOn
        BY <2>1, <2>2 DEF ReadHours, GoesOn, RequestShape, NoRequest
      <3> QED
        BY <3>1, GoingOn
    <2>3. CASE ReadCurve
      <3>1. GoesOn
        BY <2>1, <2>3 DEF ReadCurve, GoesOn, RequestShape, NoRequest
      <3> QED
        BY <3>1, GoingOn
    <2> QED
      BY <1>8, <2>2, <2>3
  <1>9. CASE ReadTariff
    <2>1. request # NoRequest /\ stored' = stored
      BY <1>9 DEF ReadTariff, NoRequest
    <2>2. PICK next \in {"done", "split"} :
             request' = [request EXCEPT !.tariff = tariff, !.pc = next]
      BY <1>9 DEF ReadTariff
    <2>3. GoesOn
      BY <2>1, <2>2 DEF GoesOn, RequestShape, NoRequest
    <2> QED
      BY <2>3, GoingOn
  <1>10. CASE TariffFails \/ SplitFails
    BY <1>10, GoingOn DEF TariffFails, SplitFails, GoesOn, RequestShape, NoRequest
  <1>11. CASE ReadSplit
    <2>1. request # NoRequest
      BY <1>11 DEF ReadSplit, NoRequest
    <2>2. /\ request'.kind = request.kind /\ request'.of = request.of
          /\ request'.vt = Split(request, TRUE) /\ stored' = stored
          /\ RequestShape'
      BY <1>11, <2>1 DEF ReadSplit, RequestShape
    <2>3. Split(request, TRUE)' = Split(request', TRUE)
      BY <2>2 DEF Split, Rows, Bucket, OfMonth
    <2>4. Split(request', TRUE) = Split(request, TRUE)
      BY <2>2, SplitDependsOn
    <2> QED
      BY <2>2, <2>3, <2>4 DEF SplitIsCurrent
  <1>12. CASE ReadFails \/ Deliver \/ Die
    BY <1>12 DEF ReadFails, Deliver, Die, RequestShape, SplitIsCurrent
  <1> QED
    BY <1>2, <1>3, <1>4, <1>5, <1>6, <1>7, <1>8, <1>9, <1>10, <1>11, <1>12, <1>13
       DEF Next, CollectionStep, RequestStep

(* What an undisturbed answer bills as high tariff is what was used in the     *)
(* same fourteen hours of UTC, on every day of the year (repository.go 45-52,  *)
(* 300-384).                                                                   *)
THEOREM HighTariffBilled == Spec => []HighTariffIsFixedInUTC
  <1>1. Init => ApiInv
    BY DEF Init, ApiInv, RequestShape, SplitIsCurrent
  <1>2. ApiInv => HighTariffIsFixedInUTC
    <2> SUFFICES ASSUME ApiInv, request.pc = "done", request.quiet, request.vt # Absent,
                        NEW b \in DOMAIN request.vt
                 PROVE  request.vt[b] =
                           Sum(stored, {t \in Rows(request) : Bucket(request, t) = b
                                                                 /\ t % 24 \in 6 .. 19})
      BY DEF HighTariffIsFixedInUTC
    <2>1. request.vt = Split(request, TRUE)
      <3>1. request # NoRequest
        BY DEF NoRequest
      <3> QED
        BY <3>1 DEF ApiInv, SplitIsCurrent
    <2>2. request.vt[b] = Sum(stored, {t \in Rows(request) : Bucket(request, t) = b
                                                               /\ IsVT(t) = TRUE})
      BY <2>1 DEF Split
    <2>3. Rows(request) \subseteq Int
      BY DEF Rows, MonthRange, YearRange
    <2>4. {t \in Rows(request) : Bucket(request, t) = b /\ IsVT(t) = TRUE}
             = {t \in Rows(request) : Bucket(request, t) = b /\ t % 24 \in 6 .. 19}
      BY <2>3, HighTariffHours
    <2> QED
      BY <2>2, <2>4
  <1> QED
    BY <1>1, <1>2, NextApiInv, PTL DEF Spec

-----------------------------------------------------------------------------
(* The rows of an answer *)

(* Local midnights follow one another, each of them before the following morning; *)
(* none lies between the two passes of the hour that is repeated.            *)
LEMMA MidnightsInOrder ==
    ASSUME NEW v \in Int, NEW w \in Int, v <= w
    PROVE  /\ Instant(24 * v) <= Instant(24 * w)
           /\ Instant(24 * v) < Instant(24 * w + 6)
           /\ FirstPass < Instant(24 * v) => FirstPass + 1 < Instant(24 * v)
  BY DEF Instant, Offset, FirstPass

(* The months of the calendar lie within it. *)
LEMMA MonthInCalendar ==
    ASSUME NEW m \in Months PROVE MonthRange(m) \subseteq Calendar /\ m \in Nat
  <1> DEFINE D == DaysPerMonth
             n == NMonths - (m + 1)
  <1>1. m \in Nat /\ n \in Nat /\ D \in Nat
    BY DEF Months
  <1>2. D * m \in Nat /\ D * n \in Nat
    BY <1>1
  <1>3. D * (m + 1) = D * m + D /\ D * NMonths = D * (m + 1) + D * n
    BY <1>1
  <1>4. /\ 24 * D * m = 24 * (D * m) /\ 24 * D * (m + 1) = 24 * (D * (m + 1))
        /\ 24 * D * NMonths = 24 * (D * NMonths) /\ 24 * D * 0 = 24 * 0
    BY <1>1
  <1>5. 0 <= D * m /\ D * (m + 1) <= D * NMonths
    BY <1>1, <1>2, <1>3
  <1>6. /\ D * m \in Int /\ D * (m + 1) \in Int /\ D * NMonths \in Int
    BY <1>1, <1>2, <1>3
  <1>7. Instant(24 * 0) <= Instant(24 * (D * m))
    BY <1>5, <1>6, MidnightsInOrder
  <1>8. Instant(24 * (D * (m + 1))) <= Instant(24 * (D * NMonths))
    BY <1>5, <1>6, MidnightsInOrder
  <1>9. /\ FirstOfMonth(0) <= FirstOfMonth(m) /\ FirstOfMonth(m + 1) <= FirstOfMonth(NMonths)
    BY <1>4, <1>7, <1>8 DEF FirstOfMonth
  <1>10. /\ FirstOfMonth(0) \in Int /\ FirstOfMonth(m) \in Int
         /\ FirstOfMonth(m + 1) \in Int /\ FirstOfMonth(NMonths) \in Int
    <2>1. 24 * 0 \in Int /\ 24 * (D * m) \in Int /\ 24 * (D * (m + 1)) \in Int
          /\ 24 * (D * NMonths) \in Int
      BY <1>6
    <2> QED BY <1>4, <2>1, InstantType DEF FirstOfMonth
  <1> QED BY <1>1, <1>9, <1>10 DEF MonthRange, Calendar

(* A value that was measured, and published, when the wall clock showed the hour  *)
(* of t. *)
Measured(t, v) ==
    \E u \in {t - 1, t} \cap Calendar :
        Local(u) = Local(t) /\ u < PublishedTo /\ v = Curve[u]

(* The entry of an answer for instant u, and the row made of it. *)
RowOf(u, upto) == [at |-> Instant(Local(u)), value |-> IF u < upto THEN Curve[u] ELSE 0]

(* The rows that an answer is parsed to. *)
LEMMA ParsedRows ==
    ASSUME NEW m, NEW upto, NEW now
    PROVE  /\ \A row \in Parsed(HepAnswer(m, upto), now) :
                 \E u \in Calendar \ Garbled : row = RowOf(u, upto)
           /\ \A u \in (MonthRange(m) \cap Calendar) \ Garbled :
                 Instant(Local(u)) <= now => RowOf(u, upto) \in Parsed(HepAnswer(m, upto), now)
  <1>1. ASSUME NEW row \in Parsed(HepAnswer(m, upto), now)
        PROVE  \E u \in Calendar \ Garbled : row = RowOf(u, upto)
    <2>1. PICK e \in HepAnswer(m, upto) :
              e.ok /\ row = [at |-> Instant(e.wall), value |-> e.value]
      BY <1>1 DEF Parsed
    <2>2. PICK u \in Calendar :
              e = [wall |-> Local(u), ok |-> u \notin Garbled,
                   value |-> IF u < upto THEN Curve[u] ELSE 0]
      BY DEF HepAnswer
    <2> QED BY <2>1, <2>2 DEF RowOf
  <1>2. ASSUME NEW u \in (MonthRange(m) \cap Calendar) \ Garbled, Instant(Local(u)) <= now
        PROVE  RowOf(u, upto) \in Parsed(HepAnswer(m, upto), now)
    <2> DEFINE e == [wall |-> Local(u), ok |-> u \notin Garbled,
                     value |-> IF u < upto THEN Curve[u] ELSE 0]
    <2>1. e \in HepAnswer(m, upto)
      BY <1>2 DEF HepAnswer
    <2>2. e.ok /\ e.wall = Local(u) /\ e.value = IF u < upto THEN Curve[u] ELSE 0
      BY <1>2
    <2> HIDE DEF e
    <2> QED BY <1>2, <2>1, <2>2 DEF Parsed, RowOf
  <1> QED BY <1>1, <1>2

(* The calendar is one of instants. *)
LEMMA CalendarType == Calendar \subseteq Int /\ FirstPass \in Int
  BY DEF Calendar, FirstPass

(* What is left after the trimming was measured and published: a row of padding   *)
(* has none after it that is not zero.                                       *)
LEMMA RowsAreMeasured ==
    ASSUME published \in Nat, NEW m, NEW now,
           NEW row \in Trimmed(Parsed(HepAnswer(m, PublishedTo), now))
    PROVE  row.at \in Int /\ Measured(row.at, row.value)
  <1>1. PICK q \in Parsed(HepAnswer(m, PublishedTo), now) :
            row \in Parsed(HepAnswer(m, PublishedTo), now) /\ q.at >= row.at /\ q.value # 0
    BY DEF Trimmed
  <1>2. PICK u \in Calendar : row = RowOf(u, PublishedTo)
    BY <1>1, ParsedRows
  <1>3. PICK w \in Calendar : q = RowOf(w, PublishedTo)
    BY <1>1, ParsedRows
  <1>4. u \in Int /\ w \in Int /\ FirstPass \in Int /\ PublishedTo \in Int
    BY CalendarType, InstantType DEF PublishedTo
  <1>5. /\ row.at = IF u = FirstPass THEN u + 1 ELSE u
        /\ q.at = IF w = FirstPass THEN w + 1 ELSE w
    BY <1>2, <1>3, <1>4, WallClockReadsBack DEF RowOf
  <1>6. w < PublishedTo
    BY <1>1, <1>3 DEF RowOf
  <1>7. FirstPass < PublishedTo => FirstPass + 1 < PublishedTo
    BY MidnightsInOrder DEF PublishedTo
  <1>8. u < PublishedTo
    BY <1>1, <1>4, <1>5, <1>6, <1>7
  <1>9. Local(u) = Local(row.at)
    BY <1>4, <1>5 DEF Local, Offset, FirstPass
  <1>10. row.value = Curve[u]
    BY <1>2, <1>8 DEF RowOf
  <1> QED BY <1>4, <1>5, <1>8, <1>9, <1>10 DEF Measured

(* HEP has published something of the month that is not zero at t or after it. *)
Published(m, upto, t) ==
    \E u \in MonthRange(m) \ Garbled : u >= t /\ u < upto /\ Curve[u] # 0

(* Then the row of t is not trimmed. *)
LEMMA RowsAreComplete ==
    ASSUME published \in Nat, today \in Nat, published <= today, NEW m \in Months,
           NEW t \in MonthRange(m) \ (Garbled \cup {FirstPass}),
           Published(m, PublishedTo, t)
    PROVE  \E row \in Trimmed(Parsed(HepAnswer(m, PublishedTo), Now)) : row.at = t
  <1> DEFINE rows == Parsed(HepAnswer(m, PublishedTo), Now)
  <1>1. PICK u \in MonthRange(m) \ Garbled : u >= t /\ u < PublishedTo /\ Curve[u] # 0
    BY DEF Published
  <1>2. /\ u \in Calendar /\ t \in Calendar /\ u \in Int /\ t \in Int
        /\ PublishedTo \in Int /\ Now \in Int /\ FirstPass \in Int
    <2>1. 24 * published \in Int /\ 24 * today + 6 \in Int
      OBVIOUS
    <2> QED BY <1>1, <2>1, MonthInCalendar, CalendarType, InstantType DEF PublishedTo, Now
  <1>3. PublishedTo < Now
    BY MidnightsInOrder DEF PublishedTo, Now
  <1>4. Instant(Local(t)) = t /\ Instant(Local(u)) = IF u = FirstPass THEN u + 1 ELSE u
    BY <1>2, WallClockReadsBack
  <1>5. Instant(Local(t)) <= Now /\ Instant(Local(u)) <= Now
    BY <1>1, <1>2, <1>3, <1>4
  <1>6. RowOf(t, PublishedTo) \in rows /\ RowOf(u, PublishedTo) \in rows
    BY <1>1, <1>2, <1>5, ParsedRows
  <1>7. /\ RowOf(t, PublishedTo).at = t
        /\ RowOf(u, PublishedTo).at >= t
        /\ RowOf(u, PublishedTo).value # 0
    BY <1>1, <1>2, <1>4 DEF RowOf
  <1>8. RowOf(t, PublishedTo) \in Trimmed(rows)
    BY <1>6, <1>7 DEF Trimmed
  <1> QED BY <1>7, <1>8

(* The least and the greatest of one or two numbers are among them. *)
LEMMA LeastOfTwo ==
    ASSUME NEW a \in Nat, NEW b \in Nat, NEW S \in SUBSET {a, b}, S # {}
    PROVE  Min(S) \in S /\ Max(S) \in S
  <1>0. a \in S \/ b \in S
    OBVIOUS
  <1>1. PICK x \in S : \A y \in S : x <= y
    <2>1. CASE a \in S /\ (b \in S => a <= b)
      BY <2>1
    <2>2. CASE b \in S /\ (a \in S => b <= a)
      BY <2>2
    <2> QED BY <1>0, <2>1, <2>2
  <1>2. PICK z \in S : \A y \in S : z >= y
    <2>1. CASE a \in S /\ (b \in S => a >= b)
      BY <2>1
    <2>2. CASE b \in S /\ (a \in S => b >= a)
      BY <2>2
    <2> QED BY <1>0, <2>1, <2>2
  <1> QED BY <1>1, <1>2 DEF Min, Max

(* Rows that may be stored. *)
AllMeasured(rows) == \A r \in rows : r.at \in Int /\ Measured(r.at, r.value)

(* The stored rows are as they were, and each new row is one of those that were to *)
(* be inserted.                                                             *)
Inserted(table, rows, result) ==
    /\ DOMAIN result = DOMAIN table \cup {r.at : r \in rows}
    /\ \A t \in DOMAIN table : result[t] = table[t]
    /\ \A t \in DOMAIN result \ DOMAIN table : \E r \in rows : r.at = t /\ result[t] = r.value

(* This is what an insert does, whichever of two values for an hour comes first. *)
LEMMA InsertsRows ==
    ASSUME NEW table, NEW rows, NEW result \in Inserts(table, rows), AllMeasured(rows)
    PROVE  Inserted(table, rows, result)
  <1> DEFINE new == {r \in rows : r.at \notin DOMAIN table}
             values(t) == {r.value : r \in {r \in new : r.at = t}}
             times == {r.at : r \in new}
             stored1(first) == [t \in DOMAIN table \cup times |->
                                 IF t \in DOMAIN table THEN table[t]
                                 ELSE IF first = "least" THEN Min(values(t)) ELSE Max(values(t))]
  <1>1. PICK first \in {"least", "most"} : result = stored1(first)
    BY DEF Inserts
  <1>a. \A r \in rows : r.at \in Int /\ Measured(r.at, r.value)
    BY DEF AllMeasured
  <1>2. ASSUME NEW t \in times PROVE Min(values(t)) \in values(t) /\ Max(values(t)) \in values(t)
    <2>1. values(t) # {} /\ t \in Int
      BY <1>a, <1>2
    <2>2. \A v \in values(t) : Measured(t, v)
      BY <1>a, <1>2
    <2>3. ASSUME NEW v, Measured(t, v) PROVE v \in {Curve[t - 1], Curve[t]} /\ v \in Nat
      <3>1. PICK u \in {t - 1, t} \cap Calendar : v = Curve[u]
        BY <2>3 DEF Measured
      <3> QED BY <3>1, ReadingsAssumption
    <2> DEFINE V == values(t)
    <2> HIDE DEF values
    <2>4. V # {} /\ V \subseteq Nat /\ V \subseteq {Curve[t - 1], Curve[t]}
      BY <2>1, <2>2, <2>3
    <2> HIDE DEF V
    <2>5. PICK a \in V : TRUE
      BY <2>4
    <2>6. \E b \in V : V \subseteq {a, b}
      BY <2>4, <2>5
    <2>7. Min(V) \in V /\ Max(V) \in V
      BY ZenonT(30), <2>4, <2>5, <2>6, LeastOfTwo
    <2> QED BY <2>7 DEF V
  <1>3. DOMAIN result = DOMAIN table \cup times
    BY <1>1
  <1>4. times \cup DOMAIN table = DOMAIN table \cup {r.at : r \in rows}
    OBVIOUS
  <1>5. \A t \in DOMAIN table : result[t] = table[t]
    BY <1>1
  <1>6. ASSUME NEW t \in times, t \notin DOMAIN table
        PROVE  \E r \in rows : r.at = t /\ result[t] = r.value
    <2>1. result[t] = Min(values(t)) \/ result[t] = Max(values(t))
      BY <1>1, <1>6
    <2>2. result[t] \in values(t)
      BY <1>2, <1>6, <2>1
    <2> QED BY <2>2
  <1> QED BY <1>3, <1>4, <1>5, <1>6 DEF Inserted

-----------------------------------------------------------------------------
(* What the tables hold *)

(* HEP is never ahead of the calendar. *)
DayInv == today \in Nat /\ published \in Nat /\ published <= today

(* Every row is a measured and published value. *)
TableInv == \A t \in DOMAIN stored : t \in Int /\ Measured(t, stored[t])

(* The hours of month m that a complete fetch brings. *)
Due(m, upto) ==
    {t \in MonthRange(m) \ (Garbled \cup {FirstPass}) : Published(m, upto, t)}

(* What a month fetch is about to store is measured and complete; what it has     *)
(* stored is in the table.                                                  *)
WriterInv ==
    /\ writer.pc \in {"idle", "store", "refresh"}
    /\ writer.pc = "store" =>
          /\ AllMeasured(writer.rows)
          /\ Due(writer.month, writer.upto) \subseteq {r.at : r \in writer.rows}
    /\ writer.pc = "refresh" =>
          /\ writer = [pc |-> "refresh", month |-> writer.month, upto |-> writer.upto,
                       touched |-> writer.touched]
          /\ Due(writer.month, writer.upto) \subseteq DOMAIN stored

RowsInv == DayInv /\ TableInv /\ WriterInv

(* What is measured and published stays so. *)
LEMMA MeasuredStays ==
    ASSUME NEW t, NEW v, Measured(t, v), PublishedTo <= PublishedTo', PublishedTo \in Int,
           PublishedTo' \in Int
    PROVE  Measured(t, v)'
  BY CalendarType DEF Measured

(* HEP's publication goes forward. *)
LEMMA PublishedGrows ==
    ASSUME DayInv, published' \in {published, published + 1}
    PROVE  PublishedTo <= PublishedTo' /\ PublishedTo \in Int /\ PublishedTo' \in Int
  <1>1. published \in Int /\ published' \in Int /\ published <= published'
    BY DEF DayInv
  <1>2. 24 * published \in Int /\ 24 * published' \in Int
    BY <1>1
  <1>3. PublishedTo = Instant(24 * published) /\ PublishedTo' = Instant(24 * published')
    BY DEF PublishedTo, Instant, Offset
  <1> QED BY <1>1, <1>2, <1>3, MidnightsInOrder, InstantType

(* The steps that neither fetch nor write. *)
LEMMA QuietStepRows ==
    ASSUME RowsInv, DayInv', published' \in {published, published + 1},
           UNCHANGED <<stored, writer>>
    PROVE  RowsInv'
  <1>1. \A t, v : Measured(t, v) => Measured(t, v)'
    BY PublishedGrows, MeasuredStays DEF RowsInv
  <1>2. TableInv'
    BY <1>1 DEF RowsInv, TableInv
  <1>3. writer.pc = "store" => AllMeasured(writer.rows)'
    BY <1>1 DEF RowsInv, WriterInv, AllMeasured
  <1>4. Due(writer.month, writer.upto)' = Due(writer.month, writer.upto)
    BY DEF Due, Published
  <1>5. WriterInv'
    BY <1>3, <1>4 DEF RowsInv, WriterInv
  <1> QED BY <1>2, <1>5 DEF RowsInv

(* The fetch of a month. *)
LEMMA FetchRows == ASSUME RowsInv, NEW m \in Months, Fetch(m) PROVE RowsInv'
  <1> DEFINE rows == Trimmed(Parsed(HepAnswer(m, PublishedTo), Now))
  <1>1. /\ writer' = [pc |-> "store", month |-> m, rows |-> rows, upto |-> PublishedTo]
        /\ UNCHANGED <<today, published, stored>>
    BY DEF Fetch
  <1>2. AllMeasured(rows)
    BY RowsAreMeasured DEF RowsInv, DayInv, AllMeasured
  <1>3. Due(m, PublishedTo) \subseteq {r.at : r \in rows}
    <2> SUFFICES ASSUME NEW t \in Due(m, PublishedTo) PROVE \E r \in rows : r.at = t
      OBVIOUS
    <2> QED BY RowsAreComplete DEF Due, RowsInv, DayInv
  <1> HIDE DEF rows
  <1>4. /\ writer'.pc = "store" /\ writer'.month = m /\ writer'.rows = rows
        /\ writer'.upto = PublishedTo
    BY <1>1
  <1>5. \A t, v : Measured(t, v) => Measured(t, v)'
    BY <1>1 DEF Measured, PublishedTo
  <1>6. TableInv'
    BY <1>1, <1>5 DEF RowsInv, TableInv
  <1>7. AllMeasured(writer.rows)'
    BY <1>2, <1>4, <1>5 DEF AllMeasured
  <1>8. Due(writer.month, writer.upto)' = Due(m, PublishedTo)
    BY <1>4 DEF Due, Published
  <1>9. WriterInv'
    BY <1>3, <1>4, <1>7, <1>8 DEF WriterInv
  <1> QED BY <1>1, <1>6, <1>9 DEF RowsInv, DayInv

(* The insert. *)
LEMMA StoreRows == ASSUME RowsInv, Store PROVE RowsInv'
  <1>1. /\ writer.pc = "store" /\ stored' \in Inserts(stored, writer.rows)
        /\ writer' = [pc |-> "refresh", month |-> writer.month, upto |-> writer.upto,
                      touched |-> MonthsTouched(writer.rows)]
        /\ UNCHANGED <<today, published>>
    BY DEF Store
  <1>2. /\ AllMeasured(writer.rows)
        /\ Due(writer.month, writer.upto) \subseteq {r.at : r \in writer.rows}
    BY <1>1 DEF RowsInv, WriterInv
  <1>3. Inserted(stored, writer.rows, stored')
    BY <1>1, <1>2, InsertsRows
  <1>4. \A t \in DOMAIN stored' : t \in Int /\ Measured(t, stored'[t])
    BY <1>2, <1>3 DEF RowsInv, TableInv, Inserted, AllMeasured
  <1>5. \A t, v : Measured(t, v) => Measured(t, v)'
    BY <1>1 DEF Measured, PublishedTo
  <1>6. TableInv'
    BY <1>4, <1>5 DEF TableInv
  <1>7. /\ writer'.pc = "refresh" /\ writer'.month = writer.month
        /\ writer'.upto = writer.upto /\ writer'.touched = MonthsTouched(writer.rows)
    BY <1>1
  <1>8. Due(writer.month, writer.upto)' \subseteq DOMAIN stored'
    BY <1>2, <1>3, <1>7 DEF Due, Published, Inserted
  <1>9. WriterInv'
    BY <1>1, <1>7, <1>8 DEF WriterInv
  <1> QED BY <1>1, <1>6, <1>9 DEF RowsInv, DayInv

(* The recomputation of the totals, whether it succeeds, fails or is lost, and a   *)
(* failed insert.                                                            *)
LEMMA RefreshRows ==
    ASSUME RowsInv, Refresh \/ RefreshFails \/ StoreFails \/ Die PROVE RowsInv'
  <1>1. /\ UNCHANGED <<today, published, stored>>
        /\ \/ writer' = Idle
           \/ writer.pc = "refresh" /\ \E s : writer' = [writer EXCEPT !.touched = s]
    <2>1. ASSUME NEW m, Recomputed(m)
          PROVE  writer' = Idle \/ \E s : writer' = [writer EXCEPT !.touched = s]
      BY <2>1 DEF Recomputed
    <2>2. CASE Refresh
      BY <2>1, <2>2 DEF Refresh
    <2>3. CASE RefreshFails
      BY <2>1, <2>3 DEF RefreshFails
    <2>4. CASE StoreFails \/ Die
      BY <2>4 DEF StoreFails, Die
    <2> QED BY <2>2, <2>3, <2>4
  <1>2. writer'.pc = "idle" \/ /\ writer.pc = "refresh"
                               /\ writer'.pc = "refresh" /\ writer'.month = writer.month
                               /\ writer'.upto = writer.upto
                               /\ writer' = [pc |-> "refresh", month |-> writer'.month,
                                             upto |-> writer'.upto, touched |-> writer'.touched]
    BY <1>1 DEF RowsInv, WriterInv, Idle
  <1>3. \A t, v : Measured(t, v) => Measured(t, v)'
    BY <1>1 DEF Measured, PublishedTo
  <1> QED
    BY <1>1, <1>2, <1>3 DEF RowsInv, DayInv, TableInv, WriterInv, Due, Published

(* Every step. *)
LEMMA NextRowsInv == ASSUME RowsInv, [Next]_vars PROVE RowsInv'
  <1>1. ASSUME UNCHANGED <<today, published, stored, writer>> PROVE RowsInv'
    BY <1>1, QuietStepRows DEF RowsInv, DayInv
  <1>2. CASE NextDay \/ Publish
    BY <1>2, QuietStepRows DEF NextDay, Publish, RowsInv, DayInv
  <1>3. CASE RequestStep
    BY <1>1, <1>3 DEF RequestStep, Begin, ReadTotals, ReadHours, ReadCurve, ReadTariff,
       TariffFails, ReadSplit, SplitFails, ReadFails, Deliver
  <1>4. ASSUME NEW model, UpdateTariff(model) PROVE RowsInv'
    BY <1>1, <1>4 DEF UpdateTariff
  <1>5. CASE UNCHANGED vars
    BY <1>1, <1>5 DEF vars
  <1> QED
    BY <1>2, <1>3, <1>4, <1>5, FetchRows, StoreRows, RefreshRows DEF Next, CollectionStep

(* The invariant of the rows. *)
THEOREM RowsInvariance == Spec => []RowsInv
  <1>1. Init => RowsInv
    BY DEF Init, RowsInv, DayInv, TableInv, WriterInv, Idle
  <1> QED BY <1>1, NextRowsInv, PTL DEF Spec

(* A row is stored only if it was measured when the wall clock showed that hour,  *)
(* and never as padding of an hour HEP has not published: for every calendar,   *)
(* curve and lag, and with any values that cannot be parsed.                 *)
THEOREM RowsAreTrue == Spec => []StoredIsMeasured
  <1>1. RowsInv => StoredIsMeasured
    BY DEF RowsInv, TableInv, Measured, StoredIsMeasured
  <1> QED BY <1>1, RowsInvariance, PTL

(* A stored fetch has all that HEP had published of the month, measured zeros     *)
(* between other values included; the hour that the clock repeats is had once.  *)
THEOREM FetchesAreComplete == Spec => []NothingIsMissed
  <1>1. RowsInv => NothingIsMissed
    BY DEF RowsInv, WriterInv, Due, Published, NothingIsMissed
  <1> QED BY <1>1, RowsInvariance, PTL

-----------------------------------------------------------------------------
(* What the totals hold *)

(* A table of readings: finitely many instants of the calendar, each with a value. *)
Sound(table) ==
    /\ IsFiniteSet(DOMAIN table) /\ DOMAIN table \subseteq Calendar
    /\ \A t \in DOMAIN table : table[t] \in Nat

(* The days that have readings, and the readings of a day. *)
StoredDays == {LocalDay(t) : t \in DOMAIN stored}
DayRows(d) == {t \in DOMAIN stored : LocalDay(t) = d}

(* The total of a day is summed up, and agrees with its rows. *)
Summed(d) == d \in DOMAIN agg /\ agg[d] = Sum(stored, DayRows(d))

(* The totals of month m are not those of its rows yet: the month fetch at work has *)
(* still to recompute them, or an earlier one has failed to.                 *)
Pending(m) == m \in behind \/ (writer.pc = "refresh" /\ m \in writer.touched)

(* A total is never more than the rows of its day come to, and agrees with them   *)
(* unless its month is pending.                                              *)
TotalsInv ==
    /\ \A d \in DOMAIN agg : d \in StoredDays /\ agg[d] \in Nat /\ agg[d] <= Sum(stored, DayRows(d))
    /\ \A d \in StoredDays : ~Pending(d \div DaysPerMonth) => Summed(d)

(* The days of the calendar. *)
LEMMA CalendarDays ==
    ASSUME NEW t \in Int
    PROVE  /\ t \in Calendar <=> MonthOf(t) \in Months
           /\ t \in Calendar => LocalDay(t) \in Days
  <1> DEFINE D == DaysPerMonth
             m == MonthOf(t)
             d == LocalDay(t)
  <1>1. /\ t >= FirstOfMonth(0) <=> m >= 0
        /\ t >= FirstOfMonth(NMonths) <=> m >= NMonths
        /\ FirstOfMonth(0) \in Int /\ FirstOfMonth(NMonths) \in Int /\ m \in Int /\ d \in Int
    <2>1. 0 \in Int /\ NMonths \in Int
      OBVIOUS
    <2> HIDE DEF m, d
    <2> QED BY <2>1, MonthHasBegun DEF m, d
  <1>2. t \in Calendar <=> m \in Months
    BY <1>1 DEF Calendar, Months
  <1>3. ASSUME m \in Months PROVE d \in Days
    <2>1. d \in DaysOf(m)
      BY <1>1, DayOfMonth DEF MonthOf
    <2> HIDE DEF m, d
    <2>2. D \in Nat \ {0} /\ m \in Nat /\ NMonths - (m + 1) \in Nat
      BY <1>3 DEF Months
    <2> HIDE DEF D
    <2>3. D * m \in Nat /\ D * (NMonths - (m + 1)) \in Nat
      BY <2>2
    <2>4. /\ m * D = D * m /\ (m + 1) * D = D * m + D
          /\ D * (NMonths - (m + 1)) = NMonths * D - (D * m + D)
          /\ NMonths * D \in Int
      BY <2>2
    <2>5. D * m <= d /\ d <= D * m + D - 1
      BY <1>1, <2>1, <2>2, <2>3, <2>4 DEF DaysOf, D, d
    <2> QED BY <1>1, <2>2, <2>3, <2>4, <2>5 DEF Days, D, d
  <1> QED BY <1>2, <1>3

(* Whatever is measured makes a table of readings. *)
LEMMA MeasuredIsSound ==
    ASSUME NEW table,
           \A t \in DOMAIN table :
              t \in Int /\ \E u \in {t - 1, t} \cap Calendar :
                               Local(u) = Local(t) /\ table[t] = Curve[u]
    PROVE  Sound(table)
  <1>1. ASSUME NEW t \in DOMAIN table PROVE t \in Calendar /\ table[t] \in Nat
    <2>1. PICK u \in {t - 1, t} \cap Calendar : Local(u) = Local(t) /\ table[t] = Curve[u]
      OBVIOUS
    <2>2. u \in Calendar /\ u \in Int /\ table[t] \in Nat
      BY <2>1, CalendarType, ReadingsAssumption
    <2>3. MonthOf(t) = MonthOf(u)
      BY <2>1 DEF MonthOf, LocalDay
    <2> QED BY <2>2, <2>3, CalendarDays
  <1>2. IsFiniteSet(Calendar)
    <2>1. FirstOfMonth(0) \in Int /\ FirstOfMonth(NMonths) \in Int
      BY MonthHasBegun
    <2> QED BY <2>1, FS_Interval DEF Calendar
  <1>3. IsFiniteSet(DOMAIN table)
    BY <1>1, <1>2, FS_Subset
  <1> QED BY <1>1, <1>3 DEF Sound

(* What is stored has a value for each of finitely many instants. *)
LEMMA StoredIsSound ==
    /\ TableInv => Sound(stored)
    /\ TableInv' => Sound(stored')
  BY MeasuredIsSound DEF TableInv, Measured

(* The sums of its rows grow with a table. *)
Grows(f, g) == DOMAIN f \subseteq DOMAIN g /\ \A t \in DOMAIN f : g[t] = f[t]

(* More rows of a grown table sum up to no less. *)
LEMMA SumsGrow ==
    ASSUME NEW f, NEW g, Sound(f), Sound(g), Grows(f, g),
           NEW S \in SUBSET DOMAIN f, NEW T \in SUBSET DOMAIN g, S \subseteq T
    PROVE  Sum(f, S) \in Nat /\ Sum(g, T) \in Nat /\ Sum(f, S) <= Sum(g, T)
  <1>1. IsFiniteSet(S) /\ IsFiniteSet(T)
    BY FS_Subset DEF Sound
  <1>2. \A t \in S : f[t] \in Nat /\ f[t] = g[t]
    BY DEF Sound, Grows
  <1>3. Sum(f, S) = Sum(g, S)
    BY <1>1, <1>2, SumSame
  <1>4. \A t \in T : g[t] \in Nat
    BY DEF Sound
  <1> QED BY <1>1, <1>3, <1>4, SumOfMore

(* A set of numbers has a least one. *)
LEMMA LeastElement ==
    ASSUME NEW S \in SUBSET Nat, S # {} PROVE \E n \in S : \A k \in S : n <= k
  <1>1. PICK n \in S : \A k \in S : ~(<<k, n>> \in OpToRel(<, Nat))
    BY NatLessThanWellFounded, WFMin
  <1>2. n \in Nat /\ \A k \in S : ~(k < n)
    BY <1>1 DEF OpToRel
  <1>3. \A k \in S : n <= k
    BY <1>2
  <1> QED BY <1>3

(* A set of numbers with a member has a least one. *)
LEMMA LeastOfMany == ASSUME NEW S \in SUBSET Nat, S # {} PROVE Min(S) \in S
  BY LeastElement DEF Min

(* A month fetch that stores has rows, and one that refreshes has months left; only *)
(* months of the calendar are behind.                                        *)
TouchedInv ==
    /\ writer.pc = "store" => writer.rows # {}
    /\ writer.pc = "refresh" => writer.touched \in SUBSET Months /\ writer.touched # {}
    /\ behind \in SUBSET Months

(* The steps that leave the tables alone, and after which no fewer months are pending. *)
LEMMA QuietStepTotals ==
    ASSUME TotalsInv, UNCHANGED <<stored, agg>>, \A m : Pending(m) => Pending(m)'
    PROVE  TotalsInv'
  <1>1. /\ StoredDays' = StoredDays
        /\ \A d : DayRows(d)' = DayRows(d)
    BY DEF StoredDays, DayRows
  <1>2. \A d : Summed(d)' <=> Summed(d)
    BY <1>1 DEF Summed
  <1>3. \A d \in DOMAIN agg' : /\ d \in StoredDays' /\ agg'[d] \in Nat
                               /\ agg'[d] <= Sum(stored', DayRows(d)')
    BY <1>1 DEF TotalsInv
  <1> QED BY <1>1, <1>2, <1>3 DEF TotalsInv

(* A recomputation that fails or is lost leaves its months behind. *)
LEMMA LostTotals ==
    ASSUME RowsInv, TotalsInv, TouchedInv, RefreshFails \/ StoreFails \/ Die
    PROVE  TotalsInv' /\ TouchedInv'
  <1>1. CASE RefreshFails
    <2> DEFINE m == Min(writer.touched)
    <2>1. /\ writer.pc = "refresh" /\ UNCHANGED <<stored, agg>>
          /\ writer' = IF writer.touched = {m} THEN Idle ELSE [writer EXCEPT !.touched = @ \ {m}]
          /\ behind' = behind \cup {m}
      BY <1>1 DEF RefreshFails, Recomputed
    <2>2. writer.touched \in SUBSET Months /\ m \in writer.touched
      BY <2>1, LeastOfMany DEF TouchedInv, Months
    <2> HIDE DEF m
    <2>3. \/ writer.touched = {m} /\ writer'.pc = "idle"
          \/ /\ writer.touched # {m} /\ writer'.pc = "refresh"
             /\ writer'.touched = writer.touched \ {m}
      BY <2>1 DEF RowsInv, WriterInv, Idle
    <2>4. \A k : Pending(k) => Pending(k)'
      BY <2>1, <2>3 DEF Pending
    <2>5. TouchedInv'
      BY <2>1, <2>2, <2>3 DEF TouchedInv
    <2> QED BY <2>1, <2>4, <2>5, QuietStepTotals
  <1>2. CASE StoreFails
    <2>1. UNCHANGED <<stored, agg, behind>> /\ writer.pc = "store" /\ writer'.pc = "idle"
      BY <1>2 DEF StoreFails, Idle
    <2>2. \A k : Pending(k) => Pending(k)'
      BY <2>1 DEF Pending
    <2> QED BY <2>1, <2>2, QuietStepTotals DEF TouchedInv
  <1>3. CASE Die
    <2>1. /\ UNCHANGED <<stored, agg>> /\ writer'.pc = "idle"
          /\ behind' = IF writer.pc = "refresh" THEN behind \cup writer.touched ELSE behind
      BY <1>3 DEF Die, Idle
    <2>2. \A k : Pending(k) => Pending(k)'
      BY <2>1 DEF Pending
    <2>3. TouchedInv'
      BY <2>1 DEF TouchedInv
    <2> QED BY <2>1, <2>2, <2>3, QuietStepTotals
  <1> QED BY <1>1, <1>2, <1>3

(* The insert makes the rows of a day more, and only of days whose month it has   *)
(* noted as touched. *)
LEMMA StoreTotals ==
    ASSUME RowsInv, RowsInv', TotalsInv, TouchedInv, Store
    PROVE  TotalsInv' /\ TouchedInv' /\ Grows(stored, stored')
  <1>1. /\ writer.pc = "store" /\ stored' \in Inserts(stored, writer.rows)
        /\ writer'.pc = "refresh" /\ writer'.touched = MonthsTouched(writer.rows)
        /\ agg' = agg /\ behind' = behind
    BY DEF Store
  <1>2. AllMeasured(writer.rows) /\ Inserted(stored, writer.rows, stored')
    BY <1>1, InsertsRows DEF RowsInv, WriterInv
  <1>3. Sound(stored) /\ Sound(stored') /\ Grows(stored, stored')
    <2>1. Sound(stored) /\ Sound(stored')
      BY StoredIsSound DEF RowsInv
    <2> QED BY <1>2, <2>1 DEF Sound, Grows, Inserted
  <1>4. ASSUME NEW d \in DOMAIN agg
        PROVE  d \in StoredDays' /\ agg[d] \in Nat /\ agg[d] <= Sum(stored', DayRows(d)')
    <2>1. d \in StoredDays /\ agg[d] \in Nat /\ agg[d] <= Sum(stored, DayRows(d))
      BY DEF TotalsInv
    <2>2. d \in StoredDays' /\ DayRows(d) \subseteq DayRows(d)'
      BY <1>3, <2>1 DEF Grows, StoredDays, DayRows
    <2>3. DayRows(d) \in SUBSET DOMAIN stored /\ DayRows(d)' \in SUBSET DOMAIN stored'
      BY DEF DayRows
    <2>4. /\ Sum(stored, DayRows(d)) \in Nat /\ Sum(stored', DayRows(d)') \in Nat
          /\ Sum(stored, DayRows(d)) <= Sum(stored', DayRows(d)')
      BY <1>3, <2>2, <2>3, SumsGrow
    <2> QED BY <2>1, <2>2, <2>4
  <1>5. ASSUME NEW d \in StoredDays', ~Pending(d \div DaysPerMonth)'
        PROVE  Summed(d)'
    <2>0. d \div DaysPerMonth \notin writer'.touched /\ ~Pending(d \div DaysPerMonth)
      BY <1>1, <1>5 DEF Pending
    <2>1. DayRows(d)' = DayRows(d)
      <3>1. ASSUME NEW t \in DOMAIN stored', LocalDay(t) = d PROVE t \in DOMAIN stored
        <4>1. MonthOf(t) \notin MonthsTouched(writer.rows)
          BY <1>1, <2>0, <3>1 DEF MonthOf
        <4> QED BY <1>2, <3>1, <4>1 DEF Inserted, MonthsTouched
      <3> QED BY <1>3, <3>1 DEF DayRows, Grows
    <2>2. d \in StoredDays
      BY <2>1 DEF StoredDays, DayRows
    <2>3. Summed(d)
      BY <2>0, <2>2 DEF TotalsInv
    <2>4. Sum(stored', DayRows(d)) = Sum(stored, DayRows(d))
      <3>1. IsFiniteSet(DayRows(d))
        BY <1>3, FS_Subset DEF DayRows, Sound
      <3>2. \A t \in DayRows(d) : stored[t] \in Nat /\ stored[t] = stored'[t]
        BY <1>3 DEF DayRows, Sound, Grows
      <3> QED BY <3>1, <3>2, SumSame
    <2> QED BY <1>1, <2>1, <2>3, <2>4 DEF Summed
  <1>6. TouchedInv'
    <2>1. \A r \in writer.rows : MonthOf(r.at) \in Months
      <3> SUFFICES ASSUME NEW r \in writer.rows PROVE MonthOf(r.at) \in Months
        OBVIOUS
      <3>1. r.at \in Calendar /\ r.at \in Int
        BY <1>2, <1>3 DEF Inserted, Sound, AllMeasured
      <3> QED BY <3>1, CalendarDays
    <2> QED BY <1>1, <2>1 DEF TouchedInv, MonthsTouched
  <1> QED BY <1>1, <1>3, <1>4, <1>5, <1>6 DEF TotalsInv

(* The refresh takes the totals of a month from its rows, all of them. *)
LEMMA RefreshTotals ==
    ASSUME RowsInv, TotalsInv, TouchedInv, Refresh
    PROVE  TotalsInv' /\ TouchedInv'
  <1> DEFINE m == Min(writer.touched)
             totals == DayTotals(m)
             rows(d) == {t \in DOMAIN stored \cap MonthRange(m) : LocalDay(t) = d}
  <1>1. /\ writer.pc = "refresh" /\ stored' = stored
        /\ agg' = [d \in DOMAIN agg \cup DOMAIN totals |->
                     IF d \in DOMAIN totals THEN totals[d] ELSE agg[d]]
        /\ writer' = IF writer.touched = {m} THEN Idle
                     ELSE [writer EXCEPT !.touched = @ \ {m}]
        /\ behind' = behind \ {m}
    BY DEF Refresh, Recomputed
  <1>2. m \in writer.touched /\ writer.touched \in SUBSET Months /\ m \in Nat
    BY <1>1, LeastOfMany DEF TouchedInv, Months
  <1>3. /\ DOMAIN totals = {LocalDay(t) : t \in DOMAIN stored \cap MonthRange(m)}
        /\ \A d \in DOMAIN totals : totals[d] = Sum(stored, rows(d))
    BY DEF DayTotals
  <1>4. \/ writer.touched = {m} /\ writer'.pc = "idle"
        \/ /\ writer.touched # {m} /\ writer'.pc = "refresh"
           /\ writer'.touched = writer.touched \ {m}
    BY <1>1 DEF RowsInv, WriterInv, Idle
  <1>5. TouchedInv'
    BY <1>1, <1>2, <1>4 DEF TouchedInv
  <1>6. Sound(stored) /\ \A t \in DOMAIN stored : t \in Int
    BY StoredIsSound DEF RowsInv, TableInv
  <1> HIDE DEF m, totals
  <1>7. ASSUME NEW d, d \div DaysPerMonth = m PROVE rows(d) = DayRows(d)
    <2>1. \A t \in DOMAIN stored : LocalDay(t) = d => t \in MonthRange(m)
      BY <1>2, <1>6, <1>7, RangesAreMonths DEF MonthOf
    <2> QED BY <2>1 DEF DayRows
  <1>8. ASSUME NEW d \in DOMAIN totals
        PROVE  d \div DaysPerMonth = m /\ d \in StoredDays
    BY <1>2, <1>3, <1>6, RangesAreMonths DEF MonthOf, StoredDays
  <1>9. ASSUME NEW d \in DOMAIN totals PROVE totals[d] = Sum(stored, DayRows(d))
    BY <1>3, <1>7, <1>8
  <1>10. ASSUME NEW d PROVE IsFiniteSet(DayRows(d)) /\ Sum(stored, DayRows(d)) \in Nat
    <2>1. DayRows(d) \in SUBSET DOMAIN stored
      BY DEF DayRows
    <2>2. IsFiniteSet(DayRows(d)) /\ \A t \in DayRows(d) : stored[t] \in Nat
      BY <1>6, <2>1, FS_Subset DEF Sound
    <2> QED BY <2>2, SumType
  <1>11. StoredDays' = StoredDays /\ \A d : DayRows(d)' = DayRows(d)
    BY <1>1 DEF StoredDays, DayRows
  <1>12. ASSUME NEW d \in DOMAIN agg'
         PROVE  d \in StoredDays /\ agg'[d] \in Nat /\ agg'[d] <= Sum(stored, DayRows(d))
    <2>1. CASE d \in DOMAIN totals
      <3>1. agg'[d] = Sum(stored, DayRows(d))
        BY <1>1, <1>9, <2>1
      <3> QED BY <1>8, <1>10, <2>1, <3>1
    <2>2. CASE d \notin DOMAIN totals
      BY <1>1, <2>2 DEF TotalsInv
    <2> QED BY <2>1, <2>2
  <1>13. ASSUME NEW d \in StoredDays, ~Pending(d \div DaysPerMonth)'
         PROVE  d \in DOMAIN agg' /\ agg'[d] = Sum(stored, DayRows(d))
    <2>1. CASE d \div DaysPerMonth = m
      <3>1. d \in DOMAIN totals
        <4>1. PICK t \in DOMAIN stored : LocalDay(t) = d
          BY DEF StoredDays
        <4>2. t \in rows(d)
          BY <1>7, <2>1, <4>1 DEF DayRows
        <4> QED BY <1>3, <4>2
      <3> QED BY <1>1, <1>9, <3>1
    <2>2. CASE d \div DaysPerMonth # m
      <3>1. ~Pending(d \div DaysPerMonth)
        BY <1>1, <1>4, <1>13, <2>2 DEF Pending
      <3>2. Summed(d) /\ d \notin DOMAIN totals
        BY <1>8, <2>2, <3>1 DEF TotalsInv
      <3> QED BY <1>1, <3>2 DEF Summed
    <2> QED BY <2>1, <2>2
  <1>14. TotalsInv'
    BY <1>1, <1>11, <1>12, <1>13 DEF TotalsInv, Summed
  <1> QED BY <1>5, <1>14

(* Every step. *)
LEMMA NextTotalsInv ==
    ASSUME RowsInv, RowsInv', TotalsInv, TouchedInv, [Next]_vars
    PROVE  TotalsInv' /\ TouchedInv'
  <1>1. ASSUME UNCHANGED <<stored, agg, writer, behind>> PROVE TotalsInv' /\ TouchedInv'
    <2>1. \A m : Pending(m) => Pending(m)'
      BY <1>1 DEF Pending
    <2> QED BY <1>1, <2>1, QuietStepTotals DEF TouchedInv
  <1>2. CASE NextDay \/ Publish \/ UNCHANGED vars
    BY <1>1, <1>2 DEF NextDay, Publish, vars
  <1>3. CASE RequestStep
    BY <1>1, <1>3 DEF RequestStep, Begin, ReadTotals, ReadHours, ReadCurve, ReadTariff,
       TariffFails, ReadSplit, SplitFails, ReadFails, Deliver
  <1>4. ASSUME NEW model, UpdateTariff(model) PROVE TotalsInv' /\ TouchedInv'
    BY <1>1, <1>4 DEF UpdateTariff
  <1>5. ASSUME NEW m \in Months, Fetch(m) PROVE TotalsInv' /\ TouchedInv'
    <2>1. UNCHANGED <<stored, agg, behind>> /\ writer.pc # "refresh"
      BY <1>5 DEF Fetch, Idle
    <2>2. writer'.pc = "store" /\ writer'.rows # {}
      BY <1>5 DEF Fetch
    <2>3. \A k : Pending(k) => Pending(k)'
      BY <2>1 DEF Pending
    <2> QED BY <2>1, <2>2, <2>3, QuietStepTotals DEF TouchedInv
  <1> QED
    BY <1>2, <1>3, <1>4, <1>5, StoreTotals, RefreshTotals, LostTotals DEF Next, CollectionStep

(* A total is never more than its rows come to; it falls short of them only while  *)
(* its month waits for its recomputation, or after that has failed or was lost     *)
(* and until the next one that succeeds (worker.go 691-702).                       *)
THEOREM TotalsInvariance == Spec => [](TotalsInv /\ TouchedInv)
  <1>1. Init => TotalsInv /\ TouchedInv
    BY DEF Init, TotalsInv, TouchedInv, StoredDays, Idle
  <1> QED BY <1>1, NextTotalsInv, RowsInvariance, PTL DEF Spec

-----------------------------------------------------------------------------
(* What an answer is made of *)

(* The days or months of an answer that have rows, and their rows. *)
Buckets(r) == {Bucket(r, t) : t \in Rows(r)}
InBucket(r, b) == {t \in Rows(r) : Bucket(r, t) = b}

(* A request that can be made. *)
Question(r) == r.kind \in {"month", "hours", "year", "calendar"} /\ r.of \in Int

(* Day d is in the month or the year that is asked for, by its date. *)
Dated(r, d) ==
    IF OfMonth(r) THEN d \in DaysOf(r.of) ELSE d \div DaysPerMonth \in MonthsOf(r.of)

(* Cut by instants or by dates, the rows are the same. *)
LEMMA RowsByDate ==
    ASSUME NEW r, Question(r), TableInv, NEW t \in DOMAIN stored
    PROVE  /\ t \in Rows(r) <=> Dated(r, LocalDay(t))
           /\ Bucket(r, t) = BucketOfDay(r, LocalDay(t))
  <1>1. t \in Int /\ r.of \in Int /\ LocalDay(t) \in Int
    BY MonthHasBegun DEF TableInv, Question
  <1>2. MonthOf(t) = LocalDay(t) \div DaysPerMonth
    BY DEF MonthOf
  <1>3. CASE OfMonth(r)
    BY <1>1, <1>2, <1>3, RangesAreMonths, DayOfMonth DEF Rows, Dated, Bucket, BucketOfDay
  <1>4. CASE ~OfMonth(r)
    BY <1>1, <1>2, <1>4, RangesAreYears DEF Rows, Dated, Bucket, BucketOfDay
  <1> QED BY <1>3, <1>4

(* There are finitely many rows, days with rows and days with totals. *)
LEMMA FiniteTables ==
    ASSUME RowsInv, TotalsInv
    PROVE  /\ Sound(stored) /\ StoredDays \subseteq Days
           /\ \A S \in SUBSET DOMAIN stored : IsFiniteSet(S) /\ Sum(stored, S) \in Nat
           /\ \A D \in SUBSET StoredDays : IsFiniteSet(D)
           /\ DOMAIN agg \subseteq StoredDays
  <1>1. Sound(stored) /\ \A t \in DOMAIN stored : t \in Int
    BY StoredIsSound DEF RowsInv, TableInv
  <1>2. ASSUME NEW S \in SUBSET DOMAIN stored PROVE IsFiniteSet(S) /\ Sum(stored, S) \in Nat
    <2>1. IsFiniteSet(S) /\ \A t \in S : stored[t] \in Nat
      BY <1>1, FS_Subset DEF Sound
    <2> QED BY <2>1, SumType
  <1>3. StoredDays \subseteq Days
    BY <1>1, CalendarDays DEF Sound, StoredDays
  <1>4. IsFiniteSet(Days)
    <2>1. 0 \in Int /\ NMonths * DaysPerMonth - 1 \in Int
      OBVIOUS
    <2> QED BY <2>1, FS_Interval DEF Days
  <1>5. \A D \in SUBSET StoredDays : IsFiniteSet(D)
    BY <1>3, <1>4, FS_Subset
  <1>6. DOMAIN agg \subseteq StoredDays
    BY DEF TotalsInv
  <1> QED BY <1>1, <1>2, <1>3, <1>5, <1>6

(* The rows of some days come to what the days come to. *)
LEMMA SumOfDays ==
    ASSUME RowsInv, TotalsInv, NEW D \in SUBSET StoredDays
    PROVE  Sum([d \in StoredDays |-> Sum(stored, DayRows(d))], D)
              = Sum(stored, {t \in DOMAIN stored : LocalDay(t) \in D})
  <1> DEFINE group == [t \in DOMAIN stored |-> LocalDay(t)]
             sums == [d \in StoredDays |-> Sum(stored, DayRows(d))]
             S == DOMAIN stored
  <1>1. IsFiniteSet(S) /\ IsFiniteSet(D) /\ \A t \in S : stored[t] \in Nat
    BY FiniteTables DEF Sound
  <1>2. \A d \in D : sums[d] = Sum(stored, Group(S, group, d))
    <2>1. \A d : Group(S, group, d) = DayRows(d)
      BY DEF DayRows, Group
    <2> QED BY <2>1
  <1>3. Groups(S, group, D) = {t \in S : LocalDay(t) \in D}
    BY DEF Groups
  <1> HIDE DEF sums, group, S
  <1>4. Sum(sums, D) = Sum(stored, Groups(S, group, D))
    BY <1>1, <1>2, SumOfGroups
  <1> QED BY <1>3, <1>4 DEF sums, S

(* No recomputation of a month asked for is to come, nor has one failed. *)
Settled(r) == writer.pc # "refresh" /\ MonthsAsked(r) \cap behind = {}

(* Then the days of what is asked for are summed up. *)
LEMMA SettledDays ==
    ASSUME TotalsInv, NEW r, Question(r), Settled(r), NEW d \in StoredDays \cap Int, Dated(r, d)
    PROVE  Summed(d)
  <1>1. d \div DaysPerMonth \in MonthsAsked(r)
    <2>1. CASE OfMonth(r)
      <3>1. d \in DaysOf(r.of) /\ r.of \in Int
        BY <2>1 DEF Dated, Question
      <3>2. d \div DaysPerMonth = r.of
        BY <3>1, DayOfMonth
      <3> QED BY <2>1, <3>2 DEF MonthsAsked
    <2>2. CASE ~OfMonth(r)
      BY <2>2 DEF Dated, MonthsAsked
    <2> QED BY <2>1, <2>2
  <1>2. ~Pending(d \div DaysPerMonth)
    BY <1>1 DEF Settled, Pending
  <1> QED BY <1>2 DEF TotalsInv

(* No total that is answered is more than the rows it stands for; with no refresh *)
(* to come and none failed it agrees with them, and none is missing.         *)
LEMMA TotalsOfRows ==
    ASSUME RowsInv, TotalsInv, NEW r, Question(r)
    PROVE  /\ \A b \in DOMAIN Totals(r) : /\ b \in Buckets(r) /\ Totals(r)[b] \in Nat
                                          /\ Totals(r)[b] <= Sum(stored, InBucket(r, b))
           /\ Settled(r) =>
                 Totals(r) = [b \in Buckets(r) |-> Sum(stored, InBucket(r, b))]
  <1> DEFINE days(b) == {d \in DatedIn(r) : BucketOfDay(r, d) = b}
             sums == [d \in StoredDays |-> Sum(stored, DayRows(d))]
             rows(b) == {t \in DOMAIN stored : LocalDay(t) \in days(b)}
  <1>1. DatedIn(r) = {d \in DOMAIN agg : Dated(r, d)}
    BY DEF DatedIn, Dated
  <1>2. \A b : days(b) \in SUBSET StoredDays /\ IsFiniteSet(days(b))
    BY <1>1, FiniteTables
  <1>3. ASSUME NEW d \in DOMAIN agg
        PROVE  d \in StoredDays /\ agg[d] \in Nat /\ sums[d] \in Nat /\ agg[d] <= sums[d]
    <2>1. DayRows(d) \in SUBSET DOMAIN stored
      BY DEF DayRows
    <2> QED BY <2>1, FiniteTables DEF TotalsInv
  <1>4. \A b : Sum(sums, days(b)) = Sum(stored, rows(b))
    BY <1>2, SumOfDays
  <1>5. \A b : rows(b) \subseteq InBucket(r, b)
    BY <1>1, RowsByDate DEF InBucket, RowsInv
  <1>6. /\ DOMAIN Totals(r) = {BucketOfDay(r, d) : d \in DatedIn(r)}
        /\ \A b \in DOMAIN Totals(r) : Totals(r)[b] = Sum(agg, days(b))
    BY DEF Totals
  <1>7. \A b : InBucket(r, b) \in SUBSET DOMAIN stored
    BY DEF InBucket, Rows
  <1> HIDE DEF sums
  <1>8. ASSUME NEW b \in DOMAIN Totals(r)
        PROVE  /\ b \in Buckets(r) /\ Totals(r)[b] \in Nat
               /\ Totals(r)[b] <= Sum(stored, InBucket(r, b))
    <2>1. \A d \in days(b) : agg[d] \in Nat /\ sums[d] \in Nat /\ agg[d] <= sums[d]
      BY <1>1, <1>3
    <2>2. PICK d \in DOMAIN agg : Dated(r, d) /\ BucketOfDay(r, d) = b
      BY <1>1, <1>6
    <2>3. PICK t \in DOMAIN stored : LocalDay(t) = d
      BY <1>3 DEF StoredDays
    <2>4. b \in Buckets(r)
      BY <2>2, <2>3, RowsByDate DEF Buckets, RowsInv
    <2> HIDE DEF days
    <2>5. Sum(agg, days(b)) \in Nat
      BY <1>2, <2>1, SumType
    <2>6. Sum(agg, days(b)) <= Sum(sums, days(b))
      BY <1>2, <2>1, SumOfSmaller
    <2>7. IsFiniteSet(InBucket(r, b)) /\ \A u \in InBucket(r, b) : stored[u] \in Nat
      BY <1>7, FiniteTables DEF Sound
    <2> HIDE DEF rows
    <2>8. /\ Sum(stored, rows(b)) <= Sum(stored, InBucket(r, b))
          /\ Sum(stored, rows(b)) \in Nat /\ Sum(stored, InBucket(r, b)) \in Nat
      BY <1>5, <2>7, SumOfMore
    <2>9. Totals(r)[b] = Sum(agg, days(b)) /\ Sum(sums, days(b)) = Sum(stored, rows(b))
      BY <1>4, <1>6
    <2> QED BY <2>4, <2>5, <2>6, <2>8, <2>9
  <1>9. ASSUME Settled(r)
        PROVE  Totals(r) = [b \in Buckets(r) |-> Sum(stored, InBucket(r, b))]
    <2>1. \A d \in StoredDays : Dated(r, d) => d \in DOMAIN agg /\ agg[d] = sums[d]
      BY <1>9, SettledDays, FiniteTables DEF Summed, sums, Days
    <2>2. Buckets(r) \subseteq DOMAIN Totals(r)
      <3> SUFFICES ASSUME NEW t \in Rows(r) PROVE Bucket(r, t) \in DOMAIN Totals(r)
        BY DEF Buckets
      <3>1. t \in DOMAIN stored
        BY DEF Rows
      <3>2. LocalDay(t) \in DatedIn(r)
        BY <1>1, <2>1, <3>1, RowsByDate DEF StoredDays, RowsInv
      <3> QED BY <1>6, <3>1, <3>2, RowsByDate DEF RowsInv
    <2>3. ASSUME NEW b PROVE rows(b) = InBucket(r, b)
      <3>1. \A t \in InBucket(r, b) : LocalDay(t) \in days(b)
        BY <1>1, <1>7, <2>1, RowsByDate DEF InBucket, StoredDays, RowsInv
      <3> QED BY <1>5, <1>7, <3>1
    <2>4. ASSUME NEW b PROVE Sum(agg, days(b)) = Sum(sums, days(b))
      <3>1. \A d \in days(b) : agg[d] \in Nat /\ agg[d] = sums[d]
        BY <1>1, <1>2, <1>3, <2>1
      <3> HIDE DEF days
      <3> QED BY <1>2, <3>1, SumSame
    <2>5. DOMAIN Totals(r) = Buckets(r)
      BY <1>8, <2>2
    <2>6. \A b \in Buckets(r) : Totals(r)[b] = Sum(stored, InBucket(r, b))
      BY <1>4, <1>6, <2>3, <2>4, <2>5
    <2>7. Totals(r) = [b \in DOMAIN Totals(r) |-> Totals(r)[b]]
      BY DEF Totals
    <2> QED BY <2>5, <2>6, <2>7
  <1> QED BY <1>8, <1>9

(* High and low tariff together are all of the rows. *)
LEMMA SplitOfRows ==
    ASSUME Sound(stored), NEW r
    PROVE  /\ DOMAIN Split(r, TRUE) = Buckets(r) /\ DOMAIN Split(r, FALSE) = Buckets(r)
           /\ \A b \in Buckets(r) : /\ Split(r, TRUE)[b] + Split(r, FALSE)[b] = Sum(stored, InBucket(r, b))
                                    /\ Sum(stored, InBucket(r, b)) \in Nat
  <1>1. DOMAIN Split(r, TRUE) = Buckets(r) /\ DOMAIN Split(r, FALSE) = Buckets(r)
    BY DEF Split, Buckets
  <1>2. ASSUME NEW b \in Buckets(r)
        PROVE  /\ Split(r, TRUE)[b] + Split(r, FALSE)[b] = Sum(stored, InBucket(r, b))
               /\ Sum(stored, InBucket(r, b)) \in Nat
    <2> DEFINE S == InBucket(r, b)
               high == {t \in Rows(r) : Bucket(r, t) = b /\ IsVT(t) = TRUE}
               low == {t \in Rows(r) : Bucket(r, t) = b /\ IsVT(t) = FALSE}
    <2>1. S \in SUBSET DOMAIN stored
      BY DEF InBucket, Rows
    <2>2. IsFiniteSet(S) /\ \A t \in S : stored[t] \in Nat
      BY <2>1, FS_Subset DEF Sound
    <2>3. high \in SUBSET S /\ low = S \ high
      BY DEF InBucket, IsVT
    <2>4. Split(r, TRUE)[b] = Sum(stored, high) /\ Split(r, FALSE)[b] = Sum(stored, low)
      BY <1>1, <1>2 DEF Split
    <2> HIDE DEF S, high, low
    <2>5. Sum(stored, S) = Sum(stored, high) + Sum(stored, S \ high)
      BY <2>2, <2>3, SumOfParts
    <2>6. Sum(stored, S) \in Nat
      BY <2>2, SumType
    <2> QED BY <2>3, <2>4, <2>5, <2>6 DEF S
  <1> QED BY <1>1, <1>2

(* The hours of the day together are the days of the month together, and no hour  *)
(* is averaged over more days than the month has, nor over none.             *)
LEMMA HoursOfRows ==
    ASSUME RowsInv, TotalsInv, NEW r, Question(r), Settled(r), r.kind = "hours"
    PROVE  /\ Sum(agg, DatedIn(r)) =
                 Sum([h \in DOMAIN Hours(r) |-> Hours(r)[h].kwh], DOMAIN Hours(r))
           /\ \A h \in DOMAIN Hours(r) : Hours(r)[h].days \in 1 .. DaysPerMonth
  <1> DEFINE S == Rows(r)
             H == DOMAIN Hours(r)
             kwh == [h \in H |-> Hours(r)[h].kwh]
             rows(h) == {t \in S : LocalHour(t) = h}
             group == [t \in S |-> LocalHour(t)]
             days(h) == {LocalDay(t) : t \in rows(h)}
  <1>1. /\ H = {LocalHour(t) : t \in S}
        /\ \A h \in H : /\ Hours(r)[h].kwh = Sum(stored, rows(h))
                        /\ Hours(r)[h].days = Cardinality(days(h))
    BY DEF Hours
  <1>2. /\ S \in SUBSET DOMAIN stored /\ IsFiniteSet(S)
        /\ \A t \in S : stored[t] \in Nat /\ t \in Int
    <2>1. S \in SUBSET DOMAIN stored
      BY DEF Rows
    <2> QED BY <2>1, FiniteTables DEF Sound, RowsInv, TableInv
  <1>3. Sum(kwh, H) = Sum(stored, S)
    <2>1. IsFiniteSet(H)
      <3>1. H \in SUBSET (0 .. 23)
        <4> SUFFICES ASSUME NEW t \in S PROVE LocalHour(t) \in 0 .. 23
          BY <1>1
        <4>1. Local(t) \in Int
          BY <1>2 DEF Local, Offset
        <4> QED BY <4>1 DEF LocalHour
      <3>2. 0 \in Int /\ 23 \in Int
        OBVIOUS
      <3>3. IsFiniteSet(0 .. 23)
        BY <3>2, FS_Interval, Zenon
      <3> HIDE DEF H
      <3> QED BY <3>1, <3>3, FS_Subset
    <2>2. \A h \in H : kwh[h] = Sum(stored, Group(S, group, h))
      <3>1. \A h : Group(S, group, h) = rows(h)
        BY DEF Group
      <3>2. \A h \in H : kwh[h] = Hours(r)[h].kwh
        OBVIOUS
      <3>3. \A h \in H : Hours(r)[h].kwh = Sum(stored, rows(h))
        BY <1>1
      <3> HIDE DEF rows, kwh, H, group, S
      <3> QED BY ONLY <3>1, <3>2, <3>3
    <2>3. Groups(S, group, H) = S
      BY <1>1 DEF Groups
    <2> HIDE DEF S, H, kwh, group
    <2> QED BY <1>2, <2>1, <2>2, <2>3, SumOfGroups
  <1>4. Sum(agg, DatedIn(r)) = Sum(stored, S)
    <2> DEFINE sums == [d \in StoredDays |-> Sum(stored, DayRows(d))]
    <2>0. \A d \in StoredDays : Dated(r, d) => Summed(d)
      BY SettledDays, FiniteTables DEF Days
    <2>1. DatedIn(r) = {d \in StoredDays : Dated(r, d)}
      BY <2>0, FiniteTables DEF DatedIn, Dated, Summed
    <2>2. \A d \in DatedIn(r) : agg[d] \in Nat /\ agg[d] = sums[d]
      BY <2>0, <2>1 DEF TotalsInv, Summed
    <2>3. DatedIn(r) \in SUBSET StoredDays /\ IsFiniteSet(DatedIn(r))
      BY <2>1, FiniteTables
    <2>4. Sum(sums, DatedIn(r)) = Sum(stored, {t \in DOMAIN stored : LocalDay(t) \in DatedIn(r)})
      BY <2>3, SumOfDays
    <2>5. {t \in DOMAIN stored : LocalDay(t) \in DatedIn(r)} = S
      BY <1>2, <2>1, RowsByDate DEF StoredDays, RowsInv
    <2> HIDE DEF sums
    <2>6. Sum(agg, DatedIn(r)) = Sum(sums, DatedIn(r))
      BY <2>2, <2>3, SumSame
    <2> QED BY <2>4, <2>5, <2>6
  <1>5. ASSUME NEW h \in H PROVE Hours(r)[h].days \in 1 .. DaysPerMonth
    <2>1. Hours(r)[h].days = Cardinality(days(h))
      BY <1>1, <1>5
    <2>2. days(h) \in SUBSET DaysOf(r.of)
      <3> SUFFICES ASSUME NEW t \in S PROVE LocalDay(t) \in DaysOf(r.of)
        OBVIOUS
      <3>1. t \in DOMAIN stored /\ t \in Rows(r)
        BY <1>2
      <3> QED BY <3>1, RowsByDate DEF Dated, OfMonth, RowsInv
    <2>3. days(h) # {}
      BY <1>1, <1>5
    <2>4. IsFiniteSet(DaysOf(r.of)) /\ Cardinality(DaysOf(r.of)) = DaysPerMonth
      <3> DEFINE a == r.of * DaysPerMonth
                 b == (r.of + 1) * DaysPerMonth - 1
      <3>1. a \in Int /\ b = a + DaysPerMonth - 1 /\ DaysPerMonth \in Nat \ {0}
        BY DEF Question
      <3> HIDE DEF a, b
      <3>2. IsFiniteSet(a .. b) /\ Cardinality(a .. b) = IF a > b THEN 0 ELSE b - a + 1
        <4>1. a \in Int /\ b \in Int
          BY <3>1
        <4> QED BY ONLY <4>1, FS_Interval, Zenon
      <3>3. Cardinality(a .. b) = DaysPerMonth
        BY <3>1, <3>2
      <3> QED BY <3>2, <3>3 DEF DaysOf, a, b
    <2> HIDE DEF days
    <2>5. IsFiniteSet(days(h)) /\ Cardinality(days(h)) <= DaysPerMonth
      BY <2>2, <2>4, FS_Subset
    <2>6. Cardinality(days(h)) \in Nat /\ Cardinality(days(h)) # 0
      BY <2>3, <2>5, FS_CardinalityType, FS_EmptySet
    <2> QED BY <2>1, <2>5, <2>6
  <1> QED BY <1>3, <1>4, <1>5

-----------------------------------------------------------------------------
(* An answer while the collection writes *)

(* The totals of a month or a year have been read. *)
HasTotals == request.pc \in {"curve", "tariff", "split", "done"} /\ request.kind # "hours"

(* The parts of an answer are read in order, and each is there only for the kinds *)
(* of request that have it. *)
PartsInOrder ==
    /\ Question(request)
    /\ request.pc \in {"totals", "hours", "curve", "tariff", "split", "done"}
    /\ request.pc = "totals" => request.kind # "hours"
    /\ request.pc = "hours" => request.kind = "hours"
    /\ request.pc = "curve" => request.kind = "month"
    /\ request.pc \in {"tariff", "split"} => request.kind \in {"month", "year"}
    /\ request.curve # Absent => request.kind = "month" /\ request.pc \in {"tariff", "split", "done"}
    /\ request.vt # Absent => request.kind \in {"month", "year"} /\ request.pc = "done"

(* The totals, once read, are of rows that are stored, and not more than they. *)
TotalsBehind ==
    HasTotals => \A b \in DOMAIN request.totals :
        /\ b \in Buckets(request) /\ request.totals[b] \in Nat
        /\ request.totals[b] <= Sum(stored, InBucket(request, b))

(* So is the curve, which has all the rows of the totals; *)
CurveBehind ==
    request.curve # Absent =>
        /\ DOMAIN request.curve \subseteq Rows(request)
        /\ \A t \in DOMAIN request.curve : request.curve[t] = stored[t]
        /\ \A b \in DOMAIN request.totals : request.totals[b] <= CurveOn(b)

(* and the split has all the rows of both. *)
SplitAhead ==
    request.vt # Absent =>
        /\ \A b \in DOMAIN request.totals : request.totals[b] <= request.vt[b] + request.nt[b]
        /\ request.curve # Absent =>
              \A t \in DOMAIN request.curve :
                  CurveOn(LocalDay(t)) <= request.vt[LocalDay(t)] + request.nt[LocalDay(t)]

(* What a quiet request has read would be read again, and no refresh is to come. *)
QuietIsCurrent ==
    request.quiet =>
        /\ writer.pc # "refresh"
        /\ HasTotals => request.totals = Totals(request)
        /\ request.kind = "hours" /\ request.pc = "done" => request.totals = Hours(request)
        /\ request.curve # Absent => request.curve = [t \in Rows(request) |-> stored[t]]
        /\ request.vt # Absent =>
              request.vt = Split(request, TRUE) /\ request.nt = Split(request, FALSE)

(* Invariant of the answers. *)
AnswerInv ==
    request # NoRequest =>
        PartsInOrder /\ TotalsBehind /\ CurveBehind /\ SplitAhead /\ QuietIsCurrent

(* Two requests for the same have the same answers, ... *)
LEMMA AnswersDependOn ==
    ASSUME NEW r, NEW q, r.kind = q.kind, r.of = q.of
    PROVE  /\ Rows(r) = Rows(q) /\ Buckets(r) = Buckets(q)
           /\ \A b : InBucket(r, b) = InBucket(q, b)
           /\ Totals(r) = Totals(q) /\ Hours(r) = Hours(q)
           /\ Split(r, TRUE) = Split(q, TRUE) /\ Split(r, FALSE) = Split(q, FALSE)
  <1>1. Rows(r) = Rows(q) /\ DatedIn(r) = DatedIn(q)
    BY DEF Rows, DatedIn, OfMonth
  <1>2. /\ \A t : Bucket(r, t) = Bucket(q, t)
        /\ \A d : BucketOfDay(r, d) = BucketOfDay(q, d)
    BY DEF Bucket, BucketOfDay
  <1>3. Buckets(r) = Buckets(q) /\ \A b : InBucket(r, b) = InBucket(q, b)
    BY <1>1, <1>2 DEF Buckets, InBucket
  <1>4. Totals(r) = Totals(q)
    <2>1. \A b : {d \in DatedIn(r) : BucketOfDay(r, d) = b} = {d \in DatedIn(q) : BucketOfDay(q, d) = b}
      BY <1>1, <1>2
    <2>2. {BucketOfDay(r, d) : d \in DatedIn(r)} = {BucketOfDay(q, d) : d \in DatedIn(q)}
      BY <1>1, <1>2
    <2> QED BY <2>1, <2>2 DEF Totals
  <1>5. Hours(r) = Hours(q)
    BY <1>1 DEF Hours
  <1>6. ASSUME NEW vt \in BOOLEAN PROVE Split(r, vt) = Split(q, vt)
    <2>1. \A b : {t \in Rows(r) : Bucket(r, t) = b /\ IsVT(t) = vt}
               = {t \in Rows(q) : Bucket(q, t) = b /\ IsVT(t) = vt}
      BY <1>1, <1>2
    <2>2. {Bucket(r, t) : t \in Rows(r)} = {Bucket(q, t) : t \in Rows(q)}
      BY <1>1, <1>2
    <2> QED BY <2>1, <2>2 DEF Split
  <1> QED BY <1>1, <1>3, <1>4, <1>5, <1>6

(* ... also at the next step, when the tables are left alone. *)
SameAnswers ==
    /\ Rows(request)' = Rows(request) /\ Buckets(request)' = Buckets(request)
    /\ \A b : InBucket(request, b)' = InBucket(request, b)
    /\ Totals(request)' = Totals(request) /\ Hours(request)' = Hours(request)
    /\ Split(request, TRUE)' = Split(request, TRUE)
    /\ Split(request, FALSE)' = Split(request, FALSE)

(* What a request would be answered depends on its kind and month, and on the tables. *)
LEMMA AnswersStay ==
    ASSUME request'.kind = request.kind, request'.of = request.of, UNCHANGED <<stored, agg>>
    PROVE  SameAnswers
  <1>1. /\ Rows(request)' = Rows(request') /\ Buckets(request)' = Buckets(request')
        /\ \A b : InBucket(request, b)' = InBucket(request', b)
        /\ Hours(request)' = Hours(request')
    BY DEF Rows, Buckets, InBucket, Bucket, OfMonth, Hours
  <1>2. Totals(request)' = Totals(request')
    BY DEF Totals, DatedIn, BucketOfDay, OfMonth
  <1>3. /\ Split(request, TRUE)' = Split(request', TRUE)
        /\ Split(request, FALSE)' = Split(request', FALSE)
    BY DEF Split, Rows, Bucket, OfMonth
  <1>4. /\ Rows(request') = Rows(request) /\ Buckets(request') = Buckets(request)
        /\ \A b : InBucket(request', b) = InBucket(request, b)
        /\ Totals(request') = Totals(request) /\ Hours(request') = Hours(request)
        /\ Split(request', TRUE) = Split(request, TRUE)
        /\ Split(request', FALSE) = Split(request, FALSE)
    BY AnswersDependOn
  <1> QED BY <1>1, <1>2, <1>3, <1>4 DEF SameAnswers

(* The request is about the same, and the parts of the answer stay. *)
PartsStay ==
    /\ request # NoRequest
    /\ request'.kind = request.kind /\ request'.of = request.of
    /\ request'.totals = request.totals /\ request'.curve = request.curve
    /\ request'.vt = request.vt /\ request'.nt = request.nt
    /\ HasTotals' => HasTotals

(* Parts that are read stay behind a table that grows. *)
LEMMA BehindStays ==
    ASSUME AnswerInv, PartsStay, Sound(stored), Sound(stored'), Grows(stored, stored')
    PROVE  TotalsBehind' /\ CurveBehind' /\ SplitAhead'
  <1>1. TotalsBehind /\ CurveBehind /\ SplitAhead
    BY DEF AnswerInv, PartsStay
  <1>2. /\ Rows(request) \subseteq Rows(request)'
        /\ \A t : Bucket(request, t)' = Bucket(request, t)
    BY DEF PartsStay, Grows, Rows, OfMonth, Bucket
  <1>3. /\ Buckets(request) \subseteq Buckets(request)'
        /\ \A b : InBucket(request, b) \subseteq InBucket(request, b)'
    BY <1>2 DEF Buckets, InBucket
  <1>4. ASSUME NEW b
        PROVE  /\ Sum(stored, InBucket(request, b)) \in Nat
               /\ Sum(stored', InBucket(request, b)') \in Nat
               /\ Sum(stored, InBucket(request, b)) <= Sum(stored', InBucket(request, b)')
    <2>1. /\ InBucket(request, b) \in SUBSET DOMAIN stored
          /\ InBucket(request, b)' \in SUBSET DOMAIN stored'
      BY DEF InBucket, Rows
    <2> QED BY <1>3, <2>1, SumsGrow
  <1>5. \A b : CurveOn(b)' = CurveOn(b)
    BY DEF CurveOn, PartsStay
  <1>6. TotalsBehind'
    <2> SUFFICES ASSUME HasTotals', NEW b \in DOMAIN request'.totals
                 PROVE  /\ b \in Buckets(request)' /\ request'.totals[b] \in Nat
                        /\ request'.totals[b] <= Sum(stored', InBucket(request, b)')
      BY DEF TotalsBehind
    <2>1. /\ b \in Buckets(request) /\ request.totals[b] \in Nat
          /\ request.totals[b] <= Sum(stored, InBucket(request, b))
      BY <1>1 DEF TotalsBehind, PartsStay
    <2>2. request'.totals[b] = request.totals[b]
      BY DEF PartsStay
    <2> QED BY <1>3, <1>4, <2>1, <2>2
  <1>7. CurveBehind'
    <2> SUFFICES ASSUME request'.curve # Absent
                 PROVE  /\ DOMAIN request'.curve \subseteq Rows(request)'
                        /\ \A t \in DOMAIN request'.curve : request'.curve[t] = stored'[t]
                        /\ \A b \in DOMAIN request'.totals : request'.totals[b] <= CurveOn(b)'
      BY DEF CurveBehind
    <2>1. /\ DOMAIN request.curve \subseteq Rows(request)
          /\ \A t \in DOMAIN request.curve : request.curve[t] = stored[t]
          /\ \A b \in DOMAIN request.totals : request.totals[b] <= CurveOn(b)
          /\ request'.curve = request.curve /\ request'.totals = request.totals
      BY <1>1 DEF CurveBehind, PartsStay
    <2>2. Rows(request) \subseteq DOMAIN stored
      BY DEF Rows
    <2> QED BY <1>2, <1>5, <2>1, <2>2 DEF Grows
  <1>8. SplitAhead'
    BY <1>1, <1>5 DEF SplitAhead, PartsStay
  <1> QED BY <1>6, <1>7, <1>8

(* Undisturbed, they stay current. *)
LEMMA CurrentStays ==
    ASSUME AnswerInv, PartsStay, UNCHANGED <<stored, agg>>, request'.quiet = request.quiet,
           writer'.pc = "refresh" => writer.pc = "refresh",
           request.kind = "hours" /\ request'.pc = "done" => request.pc = "done"
    PROVE  QuietIsCurrent'
  <1>1. SameAnswers
    BY AnswersStay DEF PartsStay
  <1>2. QuietIsCurrent
    BY DEF AnswerInv, PartsStay
  <1> QED BY <1>1, <1>2 DEF QuietIsCurrent, PartsStay, SameAnswers

(* The steps of which the request knows nothing. *)
LEMMA QuietStepAnswers ==
    ASSUME RowsInv, AnswerInv, UNCHANGED <<stored, agg, request>>,
           writer'.pc = "refresh" => writer.pc = "refresh"
    PROVE  AnswerInv'
  <1>1. CASE request = NoRequest
    BY <1>1 DEF AnswerInv
  <1>2. CASE request # NoRequest
    <2>1. PartsStay
      BY <1>2 DEF PartsStay, HasTotals
    <2>2. Sound(stored) /\ Sound(stored') /\ Grows(stored, stored')
      BY StoredIsSound DEF RowsInv, Grows
    <2>3. PartsInOrder'
      BY <1>2 DEF AnswerInv, PartsInOrder, Question
    <2> QED BY <2>1, <2>2, <2>3, BehindStays, CurrentStays DEF AnswerInv
  <1> QED BY <1>1, <1>2

(* The steps that write. *)
LEMMA DisturbedAnswers ==
    ASSUME RowsInv, RowsInv', ApiInv, AnswerInv, Grows(stored, stored'),
           request' = Disturb(request)
    PROVE  AnswerInv'
  <1>1. CASE request = NoRequest
    BY <1>1 DEF Disturb, NoRequest, AnswerInv
  <1>2. CASE request # NoRequest
    <2>1. request' = [request EXCEPT !.quiet = FALSE]
      BY <1>2 DEF Disturb, ApiInv, RequestShape
    <2>2. /\ request'.pc = request.pc /\ request'.quiet = FALSE
          /\ request'.kind = request.kind /\ request'.of = request.of
          /\ request'.totals = request.totals /\ request'.curve = request.curve
          /\ request'.vt = request.vt /\ request'.nt = request.nt
      BY <1>2, <2>1 DEF ApiInv, RequestShape
    <2>3. PartsStay
      BY <1>2, <2>2 DEF PartsStay, HasTotals
    <2>4. PartsInOrder' /\ QuietIsCurrent'
      BY <1>2, <2>2 DEF AnswerInv, PartsInOrder, QuietIsCurrent, Question
    <2>5. Sound(stored) /\ Sound(stored')
      BY StoredIsSound DEF RowsInv
    <2> QED BY <2>3, <2>4, <2>5, BehindStays DEF AnswerInv
  <1> QED BY <1>1, <1>2

(* A new request has no answer yet. *)
LEMMA BeginAnswers ==
    ASSUME NEW kind \in {"month", "hours", "year", "calendar"}, NEW of \in Int, Begin(kind, of)
    PROVE  AnswerInv'
  <1>1. /\ request'.pc = IF kind = "hours" THEN "hours" ELSE "totals"
        /\ request'.kind = kind /\ request'.of = of /\ request'.curve = Absent
        /\ request'.vt = Absent /\ request'.quiet = (writer.pc # "refresh")
        /\ writer' = writer
    BY DEF Begin
  <1>2. ~HasTotals'
    BY <1>1 DEF HasTotals
  <1>3. PartsInOrder' /\ TotalsBehind' /\ CurveBehind' /\ SplitAhead'
    BY <1>1, <1>2 DEF PartsInOrder, TotalsBehind, CurveBehind, SplitAhead, Question
  <1>4. QuietIsCurrent'
    BY <1>1, <1>2 DEF QuietIsCurrent
  <1> QED BY <1>3, <1>4 DEF AnswerInv

(* The totals. *)
LEMMA ReadTotalsAnswers ==
    ASSUME RowsInv, TotalsInv, ApiInv, AnswerInv, ReadTotals PROVE AnswerInv'
  <1>1. /\ request # NoRequest /\ request.pc = "totals"
        /\ UNCHANGED <<stored, agg, writer>>
    BY DEF ReadTotals, NoRequest
  <1>2. /\ PartsInOrder /\ QuietIsCurrent /\ request.kind # "hours"
        /\ request.curve = Absent /\ request.vt = Absent
    BY <1>1 DEF AnswerInv, PartsInOrder
  <1>3. PICK next \in {"curve", "tariff", "done"} :
           /\ request' = [request EXCEPT !.totals = Totals(request), !.pc = next]
           /\ next = "curve" => request.kind = "month"
           /\ next = "tariff" => request.kind = "year"
    <2>1. request.kind \in {"month", "year", "calendar"}
      BY <1>2 DEF PartsInOrder, Question
    <2>2. CASE request.kind = "month"
      BY <2>2 DEF ReadTotals
    <2>3. CASE request.kind = "year"
      BY <2>3 DEF ReadTotals
    <2>4. CASE request.kind = "calendar"
      BY <2>4 DEF ReadTotals
    <2> QED BY <2>1, <2>2, <2>3, <2>4
  <1>4. /\ request'.pc = next /\ request'.totals = Totals(request)
        /\ request'.kind = request.kind /\ request'.of = request.of
        /\ request'.curve = Absent /\ request'.vt = Absent /\ request'.quiet = request.quiet
    BY <1>1, <1>2, <1>3 DEF ApiInv, RequestShape
  <1>5. SameAnswers
    BY <1>1, <1>4, AnswersStay
  <1>6. PartsInOrder' /\ CurveBehind' /\ SplitAhead'
    BY <1>2, <1>3, <1>4 DEF PartsInOrder, CurveBehind, SplitAhead, Question
  <1>7. TotalsBehind'
    <2>1. \A b \in DOMAIN Totals(request) :
             /\ b \in Buckets(request) /\ Totals(request)[b] \in Nat
             /\ Totals(request)[b] <= Sum(stored, InBucket(request, b))
      BY <1>2, TotalsOfRows DEF PartsInOrder
    <2> QED BY <1>1, <1>4, <1>5, <2>1 DEF TotalsBehind, SameAnswers
  <1>8. QuietIsCurrent'
    BY <1>1, <1>2, <1>4, <1>5 DEF QuietIsCurrent, SameAnswers
  <1> QED BY <1>6, <1>7, <1>8 DEF AnswerInv

(* The hours of the day. *)
LEMMA ReadHoursAnswers == ASSUME ApiInv, AnswerInv, ReadHours PROVE AnswerInv'
  <1>1. /\ request # NoRequest /\ request.pc = "hours"
        /\ request' = [request EXCEPT !.totals = Hours(request), !.pc = "done"]
        /\ UNCHANGED <<stored, agg, writer>>
    BY DEF ReadHours, NoRequest
  <1>2. /\ PartsInOrder /\ QuietIsCurrent /\ request.kind = "hours"
        /\ request.curve = Absent /\ request.vt = Absent
    BY <1>1 DEF AnswerInv, PartsInOrder
  <1>3. /\ request'.pc = "done" /\ request'.totals = Hours(request)
        /\ request'.kind = request.kind /\ request'.of = request.of
        /\ request'.curve = Absent /\ request'.vt = Absent /\ request'.quiet = request.quiet
    BY <1>1, <1>2 DEF ApiInv, RequestShape
  <1>4. SameAnswers /\ ~HasTotals'
    BY <1>1, <1>2, <1>3, AnswersStay DEF HasTotals
  <1>5. PartsInOrder' /\ TotalsBehind' /\ CurveBehind' /\ SplitAhead'
    BY <1>2, <1>3, <1>4 DEF PartsInOrder, TotalsBehind, CurveBehind, SplitAhead, Question
  <1>6. QuietIsCurrent'
    BY <1>1, <1>2, <1>3, <1>4 DEF QuietIsCurrent, SameAnswers
  <1> QED BY <1>5, <1>6 DEF AnswerInv

(* The curve of a month: its rows of a day are those the total of the day stands for. *)
LEMMA ReadCurveAnswers == ASSUME RowsInv, ApiInv, AnswerInv, ReadCurve PROVE AnswerInv'
  <1> DEFINE curve == [t \in Rows(request) |-> stored[t]]
  <1>1. /\ request # NoRequest /\ request.pc = "curve"
        /\ request' = [request EXCEPT !.curve = curve, !.pc = "tariff"]
        /\ UNCHANGED <<stored, agg, writer>>
    BY DEF ReadCurve, NoRequest
  <1>2. /\ PartsInOrder /\ TotalsBehind /\ QuietIsCurrent /\ request.kind = "month"
        /\ HasTotals /\ request.vt = Absent
    BY <1>1 DEF AnswerInv, PartsInOrder, HasTotals
  <1>3. /\ request'.pc = "tariff" /\ request'.curve = curve
        /\ request'.kind = request.kind /\ request'.of = request.of
        /\ request'.totals = request.totals
        /\ request'.vt = Absent /\ request'.quiet = request.quiet
    BY <1>1, <1>2 DEF ApiInv, RequestShape
  <1>4. SameAnswers
    BY <1>1, <1>3, AnswersStay
  <1>5. PartsInOrder' /\ SplitAhead'
    BY <1>2, <1>3 DEF PartsInOrder, SplitAhead, Question
  <1>6. TotalsBehind'
    BY <1>1, <1>2, <1>3, <1>4 DEF TotalsBehind, SameAnswers
  <1>7. ASSUME NEW b PROVE CurveOn(b)' = Sum(stored, InBucket(request, b))
    <2> DEFINE S == InBucket(request, b)
    <2>1. {t \in DOMAIN curve : LocalDay(t) = b} = S
      BY <1>2 DEF InBucket, Bucket
    <2>2. CurveOn(b)' = Sum(curve, {t \in DOMAIN curve : LocalDay(t) = b})
      BY <1>3 DEF CurveOn
    <2>3. S \in SUBSET DOMAIN stored /\ S \in SUBSET Rows(request)
      BY DEF InBucket, Rows
    <2>4. IsFiniteSet(S) /\ \A t \in S : stored[t] \in Nat /\ stored[t] = curve[t]
      BY <2>3, StoredIsSound, FS_Subset DEF Sound, RowsInv
    <2> HIDE DEF curve, S
    <2>5. Sum(stored, S) = Sum(curve, S)
      BY <2>4, SumSame
    <2> QED BY <2>1, <2>2, <2>5 DEF S
  <1>8. CurveBehind'
    <2>1. /\ DOMAIN curve \subseteq Rows(request)'
          /\ \A t \in DOMAIN curve : curve[t] = stored'[t]
      BY <1>1, <1>4 DEF SameAnswers
    <2>2. \A b \in DOMAIN request'.totals : request'.totals[b] <= CurveOn(b)'
      BY <1>2, <1>3, <1>7 DEF TotalsBehind
    <2> HIDE DEF curve
    <2> QED BY <1>3, <2>1, <2>2 DEF CurveBehind
  <1>9. QuietIsCurrent'
    <2>1. curve = [t \in Rows(request)' |-> stored'[t]]
      BY <1>1, <1>4 DEF SameAnswers
    <2> HIDE DEF curve
    <2> QED BY <1>1, <1>2, <1>3, <1>4, <2>1 DEF QuietIsCurrent, SameAnswers
  <1> QED BY <1>5, <1>6, <1>8, <1>9 DEF AnswerInv

(* The tariff, or a failure of one of the last two queries. *)
LEMMA GoesOnAnswers ==
    ASSUME RowsInv, ApiInv, AnswerInv, ReadTariff \/ TariffFails \/ SplitFails
    PROVE  AnswerInv'
  <1>1. /\ request # NoRequest /\ request.pc \in {"tariff", "split"}
        /\ UNCHANGED <<stored, agg, writer>>
    BY DEF ReadTariff, TariffFails, SplitFails, NoRequest
  <1>2. /\ request'.pc \in {"split", "done"}
        /\ request'.kind = request.kind /\ request'.of = request.of
        /\ request'.totals = request.totals /\ request'.curve = request.curve
        /\ request'.vt = request.vt /\ request'.nt = request.nt
        /\ request'.quiet = request.quiet
    BY <1>1 DEF ReadTariff, TariffFails, SplitFails, ApiInv, RequestShape
  <1>3. PartsInOrder /\ request.vt = Absent /\ request.kind # "hours"
    BY <1>1 DEF AnswerInv, PartsInOrder
  <1>4. PartsStay
    BY <1>1, <1>2 DEF PartsStay, HasTotals
  <1>5. PartsInOrder'
    BY <1>1, <1>2, <1>3 DEF PartsInOrder, Question
  <1>6. Sound(stored) /\ Sound(stored') /\ Grows(stored, stored')
    BY <1>1, StoredIsSound DEF RowsInv, Grows
  <1> QED BY <1>1, <1>2, <1>3, <1>4, <1>5, <1>6, BehindStays, CurrentStays DEF AnswerInv

(* The split: all rows of the totals and of the curve are still there. *)
LEMMA ReadSplitAnswers == ASSUME RowsInv, ApiInv, AnswerInv, ReadSplit PROVE AnswerInv'
  <1> DEFINE vt == Split(request, TRUE)
             nt == Split(request, FALSE)
  <1>1. /\ request # NoRequest /\ request.pc = "split"
        /\ request' = [request EXCEPT !.vt = vt, !.nt = nt, !.pc = "done"]
        /\ UNCHANGED <<stored, agg, writer>>
    BY DEF ReadSplit, NoRequest
  <1>2. /\ PartsInOrder /\ TotalsBehind /\ CurveBehind /\ QuietIsCurrent
        /\ request.kind \in {"month", "year"} /\ HasTotals
    BY <1>1 DEF AnswerInv, PartsInOrder, HasTotals
  <1>3. /\ request'.pc = "done" /\ request'.vt = vt /\ request'.nt = nt
        /\ request'.kind = request.kind /\ request'.of = request.of
        /\ request'.totals = request.totals /\ request'.curve = request.curve
        /\ request'.quiet = request.quiet
    BY <1>1 DEF ApiInv, RequestShape
  <1>4. SameAnswers /\ HasTotals'
    BY <1>1, <1>2, <1>3, AnswersStay DEF HasTotals
  <1>5. PartsInOrder'
    BY <1>2, <1>3 DEF PartsInOrder, Question
  <1>6. \A b : CurveOn(b)' = CurveOn(b)
    BY <1>3 DEF CurveOn
  <1>7. Sound(stored)
    BY StoredIsSound DEF RowsInv
  <1>8. \A b \in Buckets(request) : /\ vt[b] + nt[b] = Sum(stored, InBucket(request, b))
                                    /\ Sum(stored, InBucket(request, b)) \in Nat
    BY <1>7, SplitOfRows
  <1>9. TotalsBehind'
    BY <1>1, <1>2, <1>3, <1>4 DEF TotalsBehind, SameAnswers
  <1>10. CurveBehind'
    BY <1>1, <1>2, <1>3, <1>4, <1>6 DEF CurveBehind, SameAnswers
  <1>11. ASSUME request.curve # Absent, NEW t \in DOMAIN request.curve
         PROVE  CurveOn(LocalDay(t)) <= vt[LocalDay(t)] + nt[LocalDay(t)]
    <2> DEFINE b == LocalDay(t)
               S == {u \in DOMAIN request.curve : LocalDay(u) = b}
               T == InBucket(request, b)
    <2>1. /\ request.kind = "month" /\ DOMAIN request.curve \subseteq Rows(request)
          /\ \A u \in DOMAIN request.curve : request.curve[u] = stored[u]
      BY <1>2, <1>11 DEF CurveBehind, PartsInOrder
    <2>2. b \in Buckets(request) /\ S \in SUBSET T /\ T \in SUBSET DOMAIN stored
      BY <1>11, <2>1 DEF Buckets, InBucket, Bucket, Rows
    <2>3. IsFiniteSet(T) /\ IsFiniteSet(S) /\ \A u \in T : stored[u] \in Nat
      BY <1>7, <2>2, FS_Subset DEF Sound
    <2>4. \A u \in S : stored[u] \in Nat /\ stored[u] = request.curve[u]
      BY <2>1, <2>2, <2>3
    <2>5. CurveOn(b) = Sum(request.curve, S)
      BY DEF CurveOn
    <2> HIDE DEF S, T, b
    <2>6. Sum(stored, S) = Sum(request.curve, S)
      BY <2>3, <2>4, SumSame
    <2>7. Sum(stored, S) <= Sum(stored, T)
      BY <2>2, <2>3, SumOfMore
    <2>8. CurveOn(b) <= vt[b] + nt[b]
      BY <1>8, <2>2, <2>5, <2>6, <2>7 DEF T
    <2> QED BY <2>8 DEF b
  <1>12. SplitAhead'
    <2>1. \A b \in DOMAIN request.totals : request.totals[b] <= vt[b] + nt[b]
      BY <1>2, <1>8 DEF TotalsBehind
    <2> HIDE DEF vt, nt
    <2> QED BY <1>3, <1>6, <1>11, <2>1 DEF SplitAhead
  <1>13. QuietIsCurrent'
    <2>1. vt = Split(request, TRUE)' /\ nt = Split(request, FALSE)'
      BY <1>4 DEF SameAnswers
    <2>2. /\ Rows(request)' = Rows(request) /\ Totals(request)' = Totals(request)
          /\ request.kind # "hours"
      BY <1>2, <1>4 DEF SameAnswers
    <2> HIDE DEF vt, nt
    <2>3. request.quiet =>
             /\ writer.pc # "refresh" /\ request.totals = Totals(request)
             /\ request.curve # Absent => request.curve = [t \in Rows(request) |-> stored[t]]
      BY <1>2 DEF QuietIsCurrent
    <2>4. request'.quiet =>
             /\ writer'.pc # "refresh" /\ request'.totals = Totals(request)'
             /\ request'.curve # Absent =>
                   request'.curve = [t \in Rows(request)' |-> stored'[t]]
      BY <1>1, <1>3, <2>2, <2>3
    <2>5. /\ request'.kind # "hours"
          /\ request'.vt = Split(request, TRUE)' /\ request'.nt = Split(request, FALSE)'
      BY <1>3, <2>1, <2>2
    <2> QED BY <2>4, <2>5 DEF QuietIsCurrent
  <1> QED BY <1>5, <1>9, <1>10, <1>12, <1>13 DEF AnswerInv

(* Every step. *)
LEMMA NextAnswerInv ==
    ASSUME RowsInv, RowsInv', TotalsInv, TouchedInv, ApiInv, AnswerInv, [Next]_vars
    PROVE  AnswerInv'
  <1>1. CASE NextDay \/ Publish \/ UNCHANGED vars
    BY <1>1, QuietStepAnswers DEF NextDay, Publish, vars
  <1>2. ASSUME NEW model, UpdateTariff(model) PROVE AnswerInv'
    BY <1>2, QuietStepAnswers DEF UpdateTariff
  <1>3. ASSUME NEW m \in Months, Fetch(m) PROVE AnswerInv'
    BY <1>3, QuietStepAnswers DEF Fetch
  <1>4. CASE Store
    BY <1>4, StoreTotals, DisturbedAnswers DEF Store
  <1>5. CASE Refresh
    BY <1>5, DisturbedAnswers DEF Refresh, Grows
  <1>8. CASE StoreFails \/ RefreshFails
    <2>1. /\ UNCHANGED <<stored, agg, request>>
          /\ writer'.pc = "refresh" => writer.pc = "refresh"
      BY <1>8 DEF StoreFails, RefreshFails, Idle
    <2> QED BY <2>1, QuietStepAnswers
  <1>6. ASSUME NEW kind \in {"month", "hours", "year", "calendar"}, NEW of \in Months \cup Years,
               Begin(kind, of)
        PROVE  AnswerInv'
    <2>1. of \in Int
      BY DEF Months, Years
    <2> QED BY <1>6, <2>1, BeginAnswers
  <1>7. CASE ReadFails \/ Deliver \/ Die
    BY <1>7 DEF ReadFails, Deliver, Die, AnswerInv
  <1> QED
    BY <1>1, <1>2, <1>3, <1>4, <1>5, <1>6, <1>7, <1>8, ReadTotalsAnswers, ReadHoursAnswers,
       ReadCurveAnswers, GoesOnAnswers, ReadSplitAnswers
       DEF Next, CollectionStep, RequestStep

(* The invariant of the answers. *)
THEOREM AnswersInvariance == Spec => [](ApiInv /\ AnswerInv)
  <1>1. Init => ApiInv /\ AnswerInv
    BY DEF Init, ApiInv, RequestShape, SplitIsCurrent, AnswerInv
  <1> QED
    BY <1>1, NextApiInv, NextAnswerInv, RowsInvariance, TotalsInvariance, PTL DEF Spec

(* Whatever is stored and summed up between the queries of a request: a total     *)
(* never exceeds the curve under it, nor the curve its split into VT and NT, on   *)
(* any calendar, over any change of the clock and for any curve and lag.     *)
THEOREM AnswersAreOrdered == Spec => []AnswersNeverRunAhead
  <1>1. AnswerInv => AnswersNeverRunAhead
    BY DEF AnswerInv, AnswersNeverRunAhead, CurveBehind, SplitAhead, NoRequest
  <1> QED BY <1>1, AnswersInvariance, PTL

(* Undisturbed, and with no month asked for whose recomputation has failed or was  *)
(* lost since it was stored, the totals, cut by local dates, agree with the rows, cut by ranges *)
(* of instants: with the curve, with VT and NT together, day by day in the calendar *)
(* and with the hours of the day; no hour is averaged over no day, nor over more  *)
(* than the month has (repository.go 215-562).                               *)
THEOREM AnswersAgree == Spec => []QuietAnswersAgree
  <1>1. RowsInv /\ TotalsInv /\ AnswerInv => QuietAnswersAgree
    <2> SUFFICES ASSUME RowsInv, TotalsInv, AnswerInv, request.pc = "done", request.quiet,
                        MonthsAsked(request) \cap behind = {}
                 PROVE  /\ request.curve # Absent =>
                              /\ DOMAIN request.totals = {LocalDay(t) : t \in DOMAIN request.curve}
                              /\ \A b \in DOMAIN request.totals : request.totals[b] = CurveOn(b)
                        /\ request.vt # Absent =>
                              request.totals = [b \in DOMAIN request.vt |-> request.vt[b] + request.nt[b]]
                        /\ request.kind = "calendar" =>
                              request.totals = [d \in {LocalDay(t) : t \in Rows(request)} |->
                                                  Sum(stored, {t \in Rows(request) : LocalDay(t) = d})]
                        /\ request.kind = "hours" =>
                              /\ Sum(agg, DatedIn(request)) =
                                    Sum([h \in DOMAIN request.totals |-> request.totals[h].kwh],
                                        DOMAIN request.totals)
                              /\ \A h \in DOMAIN request.totals :
                                    request.totals[h].days \in 1 .. DaysPerMonth
      BY DEF QuietAnswersAgree
    <2> DEFINE sums == [b \in Buckets(request) |-> Sum(stored, InBucket(request, b))]
    <2>0. request # NoRequest
      BY DEF NoRequest
    <2>1. PartsInOrder /\ QuietIsCurrent /\ Settled(request)
      BY <2>0 DEF AnswerInv, QuietIsCurrent, Settled
    <2>2. request.kind # "hours" => request.totals = sums
      BY <2>1, TotalsOfRows DEF QuietIsCurrent, HasTotals, PartsInOrder
    <2>3. ASSUME request.curve # Absent
          PROVE  /\ DOMAIN request.totals = {LocalDay(t) : t \in DOMAIN request.curve}
                 /\ \A b \in DOMAIN request.totals : request.totals[b] = CurveOn(b)
      <3>1. request.kind = "month" /\ request.curve = [t \in Rows(request) |-> stored[t]]
        BY <2>1, <2>3 DEF PartsInOrder, QuietIsCurrent
      <3>2. Buckets(request) = {LocalDay(t) : t \in DOMAIN request.curve}
        BY <3>1 DEF Buckets, Bucket
      <3>3. ASSUME NEW b PROVE CurveOn(b) = Sum(stored, InBucket(request, b))
        <4> DEFINE S == InBucket(request, b)
        <4>1. {t \in DOMAIN request.curve : LocalDay(t) = b} = S
          BY <3>1 DEF InBucket, Bucket
        <4>2. S \in SUBSET DOMAIN stored /\ \A t \in S : request.curve[t] = stored[t]
          BY <3>1 DEF InBucket, Rows
        <4>3. IsFiniteSet(S) /\ \A t \in S : stored[t] \in Nat /\ stored[t] = request.curve[t]
          BY <4>2, FiniteTables DEF Sound
        <4> HIDE DEF S
        <4>4. Sum(stored, S) = Sum(request.curve, S)
          BY <4>3, SumSame
        <4> QED BY <4>1, <4>4 DEF CurveOn, S
      <3> QED BY <2>2, <3>1, <3>2, <3>3
    <2>4. ASSUME request.vt # Absent
          PROVE  request.totals = [b \in DOMAIN request.vt |-> request.vt[b] + request.nt[b]]
      <3>1. /\ request.vt = Split(request, TRUE) /\ request.nt = Split(request, FALSE)
            /\ request.totals = sums
        BY <2>1, <2>2, <2>4 DEF PartsInOrder, QuietIsCurrent
      <3>2. /\ DOMAIN request.vt = Buckets(request)
            /\ \A b \in Buckets(request) :
                  request.vt[b] + request.nt[b] = Sum(stored, InBucket(request, b))
        BY <3>1, SplitOfRows, FiniteTables
      <3> QED BY <3>1, <3>2
    <2>5. ASSUME request.kind = "calendar"
          PROVE  request.totals = [d \in {LocalDay(t) : t \in Rows(request)} |->
                                      Sum(stored, {t \in Rows(request) : LocalDay(t) = d})]
      <3>1. /\ Buckets(request) = {LocalDay(t) : t \in Rows(request)}
            /\ \A d : InBucket(request, d) = {t \in Rows(request) : LocalDay(t) = d}
        BY <2>5 DEF Buckets, InBucket, Bucket
      <3> QED BY <2>2, <2>5, <3>1
    <2>6. ASSUME request.kind = "hours"
          PROVE  /\ Sum(agg, DatedIn(request)) =
                       Sum([h \in DOMAIN request.totals |-> request.totals[h].kwh],
                           DOMAIN request.totals)
                 /\ \A h \in DOMAIN request.totals : request.totals[h].days \in 1 .. DaysPerMonth
      <3>1. request.totals = Hours(request)
        BY <2>1, <2>6 DEF QuietIsCurrent
      <3> QED BY <2>1, <2>6, <3>1, HoursOfRows DEF PartsInOrder
    <2> QED BY <2>3, <2>4, <2>5, <2>6
  <1> QED BY <1>1, RowsInvariance, TotalsInvariance, AnswersInvariance, PTL

-----------------------------------------------------------------------------
(* What is offered to choose from *)

(* Numbers can be put in descending order, each of them once. *)
Descending(s, S) ==
    s \in [1 .. Cardinality(S) -> S] /\ \A i, j \in DOMAIN s : i < j => s[i] > s[j]

(* Every finite set of numbers can be put in order, the greatest first. *)
LEMMA DescendingOrder ==
    ASSUME NEW S \in SUBSET Nat, IsFiniteSet(S) PROVE \E s : Descending(s, S)
  <1> DEFINE P == {T \in SUBSET S : \E s : Descending(s, T)}
  <1>1. {} \in P
    <2>1. Cardinality({}) = 0
      BY FS_EmptySet
    <2>2. Descending([i \in {} |-> 0], {})
      BY <2>1 DEF Descending
    <2> QED BY <2>2
  <1>2. ASSUME NEW T \in SUBSET S, T # {}, \A x \in T : T \ {x} \in P PROVE T \in P
    <2> DEFINE c == Min(T)
               n == Cardinality(T)
    <2>1. c \in T /\ \A x \in T : c <= x
      <3>1. c \in T
        BY <1>2, LeastOfMany
      <3>2. \E x \in T : \A y \in T : x <= y
        BY <1>2, LeastElement
      <3> QED BY <3>1, <3>2 DEF Min
    <2>2. n \in Nat \ {0} /\ Cardinality(T \ {c}) = n - 1
      <3>1. IsFiniteSet(T)
        BY FS_Subset
      <3> QED BY <1>2, <2>1, <3>1, FS_CardinalityType, FS_EmptySet, FS_RemoveElement
    <2> HIDE DEF c, n
    <2>3. PICK s : Descending(s, T \ {c})
      BY <1>2, <2>1
    <2>4. s \in [1 .. (n - 1) -> T \ {c}] /\ \A i, j \in 1 .. (n - 1) : i < j => s[i] > s[j]
      BY <2>2, <2>3 DEF Descending
    <2> DEFINE u == [i \in 1 .. n |-> IF i = n THEN c ELSE s[i]]
    <2>5. \A i \in 1 .. n : u[i] \in T /\ (i # n => i \in 1 .. (n - 1) /\ u[i] = s[i] /\ u[i] > c)
      <3> SUFFICES ASSUME NEW i \in 1 .. n
                   PROVE  u[i] \in T /\ (i # n => i \in 1 .. (n - 1) /\ u[i] = s[i] /\ u[i] > c)
        OBVIOUS
      <3>1. CASE i = n
        BY <2>1, <3>1
      <3>2. CASE i # n
        <4>1. i \in 1 .. (n - 1) /\ u[i] = s[i]
          BY <2>2, <3>2
        <4>2. s[i] \in T \ {c}
          BY <2>4, <4>1
        <4>3. s[i] \in Nat /\ c \in Nat /\ c <= s[i] /\ c # s[i]
          BY <2>1, <4>2
        <4> QED BY <4>1, <4>2, <4>3
      <3> QED BY <3>1, <3>2
    <2>6. u[n] = c
      BY <2>2
    <2>7. u \in [1 .. n -> T]
      BY <2>5
    <2>8. ASSUME NEW i \in 1 .. n, NEW j \in 1 .. n, i < j PROVE u[i] > u[j]
      <3>1. i # n
        BY <2>2, <2>8
      <3>2. CASE j = n
        BY <2>5, <2>6, <3>1, <3>2
      <3>3. CASE j # n
        <4>1. u[i] = s[i] /\ u[j] = s[j] /\ i \in 1 .. (n - 1) /\ j \in 1 .. (n - 1)
          BY <2>5, <3>1, <3>3
        <4> HIDE DEF u
        <4> QED BY <2>4, <2>8, <4>1
      <3> QED BY <3>2, <3>3
    <2>9. Descending(u, T)
      BY <2>7, <2>8 DEF Descending, n
    <2> QED BY <2>9
  <1>3. \A T \in SUBSET S : T \in P
    <2> HIDE DEF P
    <2> QED BY ONLY IsFiniteSet(S), <1>1, <1>2, FiniteSetsOneByOne, Zenon
  <1> QED BY <1>3

(* So the query's order has every number, and nothing else. *)
LEMMA NewestFirstOrder ==
    ASSUME NEW S \in SUBSET Nat, IsFiniteSet(S)
    PROVE  /\ Descending(NewestFirst(S), S)
           /\ \A x \in S : \E i \in 1 .. Cardinality(S) : NewestFirst(S)[i] = x
           /\ Cardinality(S) \in Nat
  <1> DEFINE s == NewestFirst(S)
             n == Cardinality(S)
  <1>1. Descending(s, S)
    BY DescendingOrder DEF NewestFirst, Descending
  <1>2. n \in Nat
    BY FS_CardinalityType
  <1>3. IsFiniteSet(1 .. n) /\ Cardinality(1 .. n) = n
    <2> HIDE DEF n
    <2>1. 1 \in Int /\ n \in Int
      BY <1>2
    <2>2. IsFiniteSet(1 .. n) /\ Cardinality(1 .. n) = IF 1 > n THEN 0 ELSE n - 1 + 1
      BY ONLY <2>1, FS_Interval, Zenon
    <2> QED BY <1>2, <2>2
  <1> HIDE DEF s
  <1>4. s \in [1 .. n -> S] /\ \A i, j \in 1 .. n : i < j => s[i] > s[j]
    BY <1>1 DEF Descending
  <1>5. \A i, j \in 1 .. n : s[i] = s[j] => i = j
    <2> SUFFICES ASSUME NEW i \in 1 .. n, NEW j \in 1 .. n, i < j PROVE s[i] # s[j]
      BY <1>2
    <2>1. s[i] > s[j] /\ s[i] \in Nat /\ s[j] \in Nat
      BY <1>4
    <2> QED BY <2>1
  <1>6. s \in Injection(1 .. n, S)
    BY <1>4, <1>5 DEF Injection, IsInjective
  <1>7. s \in Surjection(1 .. n, S)
    BY <1>3, <1>6, FS_Injection
  <1>8. \A x \in S : \E i \in 1 .. n : s[i] = x
    BY <1>7 DEF Surjection
  <1> QED BY <1>1, <1>2, <1>8 DEF s

(* The present and, unless it is among them, before the months or years with totals. *)
Offered(c, S) == (IF c \in S THEN <<>> ELSE <<c>>) \o NewestFirst(S)

(* The present is the first of them, unless some lie ahead; then they go back in  *)
(* order, and none is missing.                                              *)
LEMMA OfferedInOrder ==
    ASSUME NEW S \in SUBSET Nat, IsFiniteSet(S), NEW c \in Nat, \A x \in S : x <= c
    PROVE  /\ Offered(c, S)[1] = c
           /\ \A i \in 2 .. Len(Offered(c, S)) : Offered(c, S)[i] < Offered(c, S)[i - 1]
           /\ \A x \in S : \E i \in DOMAIN Offered(c, S) : Offered(c, S)[i] = x
  <1> DEFINE s == NewestFirst(S)
             n == Cardinality(S)
             o == Offered(c, S)
  <1>1. /\ s \in [1 .. n -> S] /\ n \in Nat
        /\ \A i, j \in 1 .. n : i < j => s[i] > s[j]
        /\ \A x \in S : \E i \in 1 .. n : s[i] = x
    BY NewestFirstOrder DEF Descending
  <1>2. s \in Seq(Nat) /\ Len(s) = n /\ DOMAIN s = 1 .. n
    <2>1. s \in [1 .. n -> Nat]
      BY <1>1
    <2> HIDE DEF s, n
    <2> QED BY <1>1, <2>1
  <1> HIDE DEF s, n
  <1>3. CASE c \in S
    <2>1. o = s
      BY <1>2, <1>3 DEF Offered, s
    <2>2. PICK k \in 1 .. n : s[k] = c
      BY <1>1, <1>3
    <2>3. 1 \in 1 .. n /\ s[1] \in S
      BY <1>1, <2>2
    <2>4. s[1] = c
      <3>1. s[1] \in Nat /\ s[1] <= c
        BY <2>3
      <3>2. CASE k = 1
        BY <2>2, <3>2
      <3>3. CASE k # 1
        <4>1. 1 < k
          BY <1>1, <2>2, <3>3
        <4>2. s[1] > s[k]
          BY <1>1, <2>2, <2>3, <4>1
        <4> QED BY <2>2, <3>1, <4>2
      <3> QED BY <3>2, <3>3
    <2>5. ASSUME NEW i \in 2 .. n PROVE s[i] < s[i - 1]
      <3>1. i \in 1 .. n /\ i - 1 \in 1 .. n /\ i - 1 < i
        BY <1>1
      <3>2. s[i - 1] > s[i] /\ s[i] \in Nat /\ s[i - 1] \in Nat
        BY <1>1, <3>1
      <3> QED BY <3>2
    <2> HIDE DEF o
    <2> QED BY <1>1, <1>2, <2>1, <2>4, <2>5 DEF o
  <1>4. CASE c \notin S
    <2>1. o = <<c>> \o s
      BY <1>4 DEF Offered, s
    <2> HIDE DEF o
    <2>2. /\ Len(o) = n + 1 /\ DOMAIN o = 1 .. (n + 1) /\ o[1] = c
          /\ \A i \in 2 .. (n + 1) : o[i] = s[i - 1]
      BY <1>1, <1>2, <2>1
    <2>3. ASSUME NEW i \in 2 .. (n + 1) PROVE o[i] < o[i - 1]
      <3>1. i - 1 \in 1 .. n /\ o[i] = s[i - 1] /\ s[i - 1] \in S
        BY <1>1, <2>2
      <3>2. CASE i = 2
        <4>1. s[1] \in S /\ o[i] = s[1] /\ o[i - 1] = c
          BY <2>2, <3>1, <3>2
        <4>2. s[1] \in Nat /\ s[1] <= c /\ s[1] # c
          BY <1>4, <4>1
        <4> QED BY <4>1, <4>2
      <3>3. CASE i # 2
        <4>1. i - 2 \in 1 .. n /\ i - 1 \in 2 .. (n + 1) /\ (i - 1) - 1 = i - 2 /\ i - 2 < i - 1
          BY <1>1, <3>3
        <4>2. o[i - 1] = s[i - 2] /\ s[i - 2] \in S
          BY <1>1, <2>2, <4>1
        <4>3. s[i - 2] > s[i - 1]
          BY <1>1, <3>1, <4>1
        <4> QED BY <3>1, <4>2, <4>3
      <3> QED BY <3>2, <3>3
    <2>4. ASSUME NEW x \in S PROVE \E i \in DOMAIN o : o[i] = x
      <3>1. PICK k \in 1 .. n : s[k] = x
        BY <1>1
      <3>2. k + 1 \in 2 .. (n + 1) /\ k + 1 \in DOMAIN o /\ (k + 1) - 1 = k
        BY <1>1, <2>2
      <3>3. o[k + 1] = x
        BY <2>2, <3>1, <3>2
      <3> QED BY <3>2, <3>3
    <2> QED BY <2>2, <2>3, <2>4 DEF o
  <1> QED BY <1>3, <1>4

(* No day with rows lies ahead. *)
LEMMA NothingAhead == ASSUME RowsInv PROVE \A d \in StoredDays : d <= today
  <1> SUFFICES ASSUME NEW t \in DOMAIN stored PROVE LocalDay(t) <= today
    BY DEF StoredDays
  <1>1. PICK u \in {t - 1, t} \cap Calendar : Local(u) = Local(t) /\ u < PublishedTo
    BY DEF RowsInv, TableInv, Measured
  <1>2. u \in Int /\ published \in Nat /\ today \in Nat /\ published <= today
    BY <1>1, CalendarType DEF RowsInv, DayInv
  <1>3. 24 * published \in Int /\ (24 * published) % 24 = 0
    BY <1>2
  <1>4. u >= PublishedTo <=> Local(u) >= 24 * published
    BY <1>2, <1>3, MidnightDivides DEF PublishedTo
  <1>5. PublishedTo \in Int /\ Local(u) \in Int
    BY <1>2, <1>3, InstantType DEF PublishedTo, Local, Offset
  <1>6. Local(t) < 24 * published /\ Local(t) \in Int
    BY <1>1, <1>2, <1>4, <1>5
  <1> QED BY <1>2, <1>6 DEF LocalDay

(* Dividing keeps the order. *)
LEMMA DivideInOrder ==
    ASSUME NEW a \in Nat, NEW b \in Nat, a <= b, NEW k \in Nat \ {0}
    PROVE  a \div k \in Nat /\ b \div k \in Nat /\ a \div k <= b \div k
  <1> DEFINE p == a \div k
             q == b \div k
  <1>1. p \in Nat /\ q \in Nat /\ k * p <= a /\ a < k * p + k /\ k * q <= b /\ b < k * q + k
    OBVIOUS
  <1> HIDE DEF p, q
  <1>2. CASE p > q
    <2>1. k * (p - (q + 1)) \in Nat /\ k * (p - (q + 1)) = k * p - (k * q + k)
      BY <1>1, <1>2
    <2>2. k * p \in Nat /\ k * q \in Nat
      BY <1>1
    <2>3. FALSE
      BY <1>1, <2>1, <2>2
    <2> QED BY <2>3
  <1>3. p <= q
    BY <1>1, <1>2
  <1> QED BY <1>1, <1>3 DEF p, q

(* The months and years to choose from begin with the present and go back in order,  *)
(* whether the query for them succeeds or fails; with no refresh to come they leave *)
(* out no month with readings whose recomputation has not failed, however late HEP *)
(* publishes (handlers.go 79-98, 134-153).                                   *)
THEOREM NewestFirstOffered == Spec => []NewestIsOfferedFirst
  <1>1. RowsInv /\ TotalsInv => NewestIsOfferedFirst
    <2> SUFFICES ASSUME RowsInv, TotalsInv PROVE NewestIsOfferedFirst
      OBVIOUS
    <2> DEFINE year == CurrentMonth \div MonthsPerYear
    <2>1. today \in Nat /\ \A d \in DOMAIN agg : d \in Nat /\ d <= today
      <3>1. \A d \in StoredDays : d \in Nat
        BY FiniteTables DEF Days
      <3> QED BY <3>1, FiniteTables, NothingAhead DEF RowsInv, DayInv
    <2>2. CurrentMonth \in Nat /\ \A m \in StoredMonths : m \in Nat /\ m <= CurrentMonth
      <3>1. DaysPerMonth \in Nat \ {0}
        OBVIOUS
      <3> QED BY <2>1, <3>1, DivideInOrder DEF CurrentMonth, StoredMonths
    <2>3. ASSUME NEW found \in FoundMonths
          PROVE  /\ OfferedMonths(found) = Offered(CurrentMonth, found)
                 /\ found \in SUBSET Nat /\ IsFiniteSet(found)
                 /\ \A m \in found : m <= CurrentMonth
      <3>1. found \in SUBSET (0 .. CurrentMonth)
        BY <2>2 DEF FoundMonths
      <3>2. IsFiniteSet(0 .. CurrentMonth)
        <4>1. 0 \in Int /\ CurrentMonth \in Int
          BY <2>2
        <4> QED BY ONLY <4>1, FS_Interval, Zenon
      <3>3. IsFiniteSet(found)
        BY <3>1, <3>2, FS_Subset
      <3>4. found \in SUBSET Nat /\ \A m \in found : m <= CurrentMonth
        BY <2>2, <3>1
      <3>5. OfferedMonths(found) = Offered(CurrentMonth, found)
        BY DEF OfferedMonths, Offered
      <3> QED BY <3>3, <3>4, <3>5
    <2>4. ASSUME NEW found \in FoundMonths
          PROVE  \E years \in SUBSET Nat :
                    /\ OfferedYears(found) = Offered(year, years)
                    /\ IsFiniteSet(years) /\ \A y \in years : y <= year
      <3> DEFINE years == {m \div MonthsPerYear : m \in found}
      <3>1. year \in Nat /\ \A y \in years : y \in Nat /\ y <= year
        <4>1. MonthsPerYear \in Nat \ {0}
          OBVIOUS
        <4> QED BY <2>2, <2>3, <2>4, <4>1, DivideInOrder
      <3>2. OfferedYears(found) = Offered(year, years)
        BY DEF OfferedYears, Offered
      <3> HIDE DEF years, year
      <3>3. years \in SUBSET (0 .. year)
        BY <3>1
      <3>4. IsFiniteSet(0 .. year)
        <4>1. 0 \in Int /\ year \in Int
          BY <3>1
        <4> QED BY ONLY <4>1, FS_Interval, Zenon
      <3>5. IsFiniteSet(years) /\ years \in SUBSET Nat
        BY <3>1, <3>3, <3>4, FS_Subset
      <3> QED BY <3>1, <3>2, <3>5
    <2>5. ASSUME writer.pc # "refresh", NEW t \in DOMAIN stored, MonthOf(t) \notin behind
          PROVE  MonthOf(t) \in StoredMonths
      <3>1. LocalDay(t) \in StoredDays /\ ~Pending(LocalDay(t) \div DaysPerMonth)
        BY <2>5 DEF Pending, StoredDays, MonthOf
      <3>2. LocalDay(t) \in DOMAIN agg
        BY <3>1 DEF TotalsInv, Summed
      <3> QED BY <3>2 DEF StoredMonths, MonthOf
    <2>6. year \in Nat /\ StoredMonths \in FoundMonths
      <3>1. MonthsPerYear \in Nat \ {0}
        OBVIOUS
      <3> QED BY <2>2, <3>1, DivideInOrder DEF FoundMonths
    <2> HIDE DEF year
    <2>7. ASSUME NEW found \in FoundMonths
          PROVE  /\ OfferedMonths(found)[1] = CurrentMonth
                 /\ \A i \in 2 .. Len(OfferedMonths(found)) :
                       OfferedMonths(found)[i] < OfferedMonths(found)[i - 1]
                 /\ \A m \in found :
                       \E i \in DOMAIN OfferedMonths(found) : OfferedMonths(found)[i] = m
      <3> DEFINE offered == Offered(CurrentMonth, found)
      <3>1. /\ offered[1] = CurrentMonth
            /\ \A i \in 2 .. Len(offered) : offered[i] < offered[i - 1]
            /\ \A m \in found : \E i \in DOMAIN offered : offered[i] = m
        BY ONLY <2>2, <2>3, <2>7, OfferedInOrder, Zenon
      <3>2. OfferedMonths(found) = offered
        BY <2>3, <2>7
      <3> HIDE DEF offered
      <3> QED BY ONLY <3>1, <3>2
    <2>8. ASSUME NEW found \in FoundMonths
          PROVE  /\ OfferedYears(found)[1] = year
                 /\ \A i \in 2 .. Len(OfferedYears(found)) :
                       OfferedYears(found)[i] < OfferedYears(found)[i - 1]
      <3>1. PICK years \in SUBSET Nat :
               /\ OfferedYears(found) = Offered(year, years)
               /\ IsFiniteSet(years) /\ \A y \in years : y <= year
        BY <2>4, <2>8, Zenon
      <3> DEFINE offered == Offered(year, years)
      <3>2. /\ offered[1] = year
            /\ \A i \in 2 .. Len(offered) : offered[i] < offered[i - 1]
        BY ONLY <2>6, <3>1, OfferedInOrder, Zenon
      <3>3. OfferedYears(found) = offered
        BY <3>1
      <3> HIDE DEF offered
      <3> QED BY ONLY <3>2, <3>3
    <2> QED BY <2>5, <2>6, <2>7, <2>8 DEF NewestIsOfferedFirst, year
  <1> QED BY <1>1, RowsInvariance, TotalsInvariance, PTL

(* The calendar's day, and the tariff models that are stored. *)
StateInv == today \in Days /\ tariff \in TariffModels

(* No step takes the day out of the calendar, or the tariff out of its models. *)
LEMMA NextStateInv == ASSUME StateInv, [Next]_vars PROVE StateInv'
  <1> USE DEF StateInv
  <1>1. CASE CollectionStep \/ Publish \/ UNCHANGED vars
    BY <1>1 DEF CollectionStep, Fetch, Store, StoreFails, Refresh, RefreshFails, Die, Publish,
       vars
  <1>2. CASE RequestStep
    BY <1>2 DEF RequestStep, Begin, ReadTotals, ReadHours, ReadCurve, ReadTariff,
       TariffFails, ReadSplit, SplitFails, ReadFails, Deliver
  <1>3. CASE NextDay
    BY <1>3 DEF NextDay
  <1>4. ASSUME NEW model, UpdateTariff(model) PROVE StateInv'
    BY <1>4 DEF UpdateTariff
  <1> QED BY <1>1, <1>2, <1>3, <1>4 DEF Next

(* The tables are keyed by instants and days of the calendar, every value and     *)
(* every total is a number, and only the tariff models of the form are stored.  *)
THEOREM TypeCorrectness == Spec => []TypeOK
  <1>1. Init => StateInv
    <2>1. NMonths * DaysPerMonth \in Nat \ {0}
      OBVIOUS
    <2>2. 0 \in Days
      BY <2>1 DEF Days
    <2> QED BY ONLY <2>2, Zenon DEF Init, StateInv, TariffModels
  <1>2. StateInv /\ RowsInv /\ TotalsInv /\ TouchedInv /\ AnswerInv => TypeOK
    <2> SUFFICES ASSUME StateInv, RowsInv, TotalsInv, TouchedInv, AnswerInv PROVE TypeOK
      OBVIOUS
    <2>1. DOMAIN stored \subseteq Calendar /\ \A t \in DOMAIN stored : stored[t] \in Nat
      BY FiniteTables DEF Sound
    <2>2. DOMAIN agg \subseteq Days /\ \A d \in DOMAIN agg : agg[d] \in Nat
      BY FiniteTables DEF TotalsInv
    <2>3. request.pc \in {"idle", "totals", "curve", "hours", "tariff", "split", "done"}
      BY DEF AnswerInv, PartsInOrder, NoRequest
    <2>4. today \in Days /\ published \in 0 .. today /\ tariff \in TariffModels
      BY DEF StateInv, RowsInv, DayInv
    <2> QED BY <2>1, <2>2, <2>3, <2>4 DEF TypeOK, RowsInv, WriterInv, TouchedInv
  <1> QED
    BY <1>1, <1>2, NextStateInv, RowsInvariance, TotalsInvariance, AnswersInvariance, PTL
       DEF Spec
=============================================================================
