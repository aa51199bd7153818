--------------------------- MODULE MonthWalkProofs ---------------------------
(***************************************************************************)
(* getMonthsToCollect returns exactly the outstanding months, for all        *)
(* months the arguments can name.                                           *)
(***************************************************************************)
EXTENDS MonthWalk, TLAPS

(* monthBefore compares positions on the calendar. *)
LEMMA BeforeIsLess ==
    ASSUME NEW a \in MonthYears, NEW b \in MonthYears
    PROVE  MonthBefore(a, b) <=> Index(a) < Index(b)
  BY DEF MonthYears, MonthBefore, Index

(* A month is known by its position. *)
LEMMA IndexIsUnique ==
    ASSUME NEW a \in MonthYears, NEW b \in MonthYears, Index(a) = Index(b)
    PROVE  a = b
  <1>1. a.year = b.year /\ a.month = b.month
    BY DEF MonthYears, Index
  <1> QED
    BY <1>1 DEF MonthYears

(* AddDate(0, 1, 0) moves one position on, December included. *)
LEMMA AddMonthIsNext ==
    ASSUME NEW m \in MonthYears
    PROVE  AddMonth(m) \in MonthYears /\ Index(AddMonth(m)) = Index(m) + 1
  BY DEF MonthYears, AddMonth, Index

(* Positions are natural numbers. *)
LEMMA IndexIsNat ==
    ASSUME NEW m \in MonthYears
    PROVE  Index(m) \in Nat
  BY DEF MonthYears, Index

(* The walk starts at a month. *)
LEMMA StartType ==
    ASSUME TypeOK
    PROVE  Start \in MonthYears /\ Uncapped \in MonthYears /\ current \in MonthYears
  BY InputsAssumption DEF TypeOK, Start, Uncapped

(* A month is wanted when it lies between the start and the reference month. *)
LEMMA WantedIsInterval ==
    ASSUME TypeOK, NEW m \in MonthYears
    PROVE  Wanted(m) <=> Index(Start) <= Index(m) /\ Index(m) <= Index(current)
  <1>1. /\ Start \in MonthYears /\ Uncapped \in MonthYears /\ current \in MonthYears
        /\ Index(m) \in Nat /\ Index(current) \in Nat /\ Index(Uncapped) \in Nat
    BY StartType, IndexIsNat
  <1>2. m = current <=> Index(m) = Index(current)
    BY <1>1, IndexIsUnique
  <1>3. CASE last # None
    <2>1. last \in MonthYears /\ Index(last) \in Nat
      BY <1>3, InputsAssumption, IndexIsNat DEF TypeOK
    <2>2. Index(Uncapped) = IF Index(last) < Index(current) THEN Index(last) ELSE Index(current)
      BY <1>1, <1>3, <2>1, BeforeIsLess DEF Uncapped
    <2>3. (Index(m) <= Index(current) /\ (Index(m) >= Index(last) \/ m = current))
            <=> (Index(Uncapped) <= Index(m) /\ Index(m) <= Index(current))
      BY <1>1, <1>2, <2>1, <2>2
    <2>4. CASE fetchFrom = None
      BY <1>1, <1>3, <2>3, <2>4 DEF Wanted, Start
    <2>5. CASE fetchFrom # None
      <3>1. fetchFrom \in MonthYears /\ Index(fetchFrom) \in Nat
        BY <2>5, InputsAssumption, IndexIsNat DEF TypeOK
      <3>2. Index(Start) = IF Index(Uncapped) < Index(fetchFrom)
                           THEN Index(fetchFrom) ELSE Index(Uncapped)
        BY <1>1, <2>5, <3>1, BeforeIsLess DEF Start
      <3> QED
        BY <1>1, <1>3, <2>3, <2>5, <3>1, <3>2 DEF Wanted
    <2> QED
      BY <2>4, <2>5
  <1>4. CASE last = None /\ availableFrom # None
    <2>1. availableFrom \in MonthYears /\ Index(availableFrom) \in Nat
      BY <1>4, InputsAssumption, IndexIsNat DEF TypeOK
    <2>2. Uncapped = availableFrom
      BY <1>4 DEF Uncapped
    <2>4. CASE fetchFrom = None
      BY <1>1, <1>4, <2>1, <2>2, <2>4 DEF Wanted, Start
    <2>5. CASE fetchFrom # None
      <3>1. fetchFrom \in MonthYears /\ Index(fetchFrom) \in Nat
        BY <2>5, InputsAssumption, IndexIsNat DEF TypeOK
      <3>2. Index(Start) = IF Index(Uncapped) < Index(fetchFrom)
                           THEN Index(fetchFrom) ELSE Index(Uncapped)
        BY <1>1, <2>5, <3>1, BeforeIsLess DEF Start
      <3> QED
        BY <1>1, <1>4, <2>1, <2>2, <2>5, <3>1, <3>2 DEF Wanted
    <2> QED
      BY <2>4, <2>5
  <1>5. CASE last = None /\ availableFrom = None
    <2>2. Uncapped = current
      BY <1>5 DEF Uncapped
    <2>4. CASE fetchFrom = None
      BY <1>1, <1>2, <1>5, <2>2, <2>4 DEF Wanted, Start
    <2>5. CASE fetchFrom # None
      <3>1. fetchFrom \in MonthYears /\ Index(fetchFrom) \in Nat
        BY <2>5, InputsAssumption, IndexIsNat DEF TypeOK
      <3>2. Index(Start) = IF Index(Uncapped) < Index(fetchFrom)
                           THEN Index(fetchFrom) ELSE Index(Uncapped)
        BY <1>1, <2>5, <3>1, BeforeIsLess DEF Start
      <3> QED
        BY <1>1, <1>2, <1>5, <2>2, <2>5, <3>1, <3>2 DEF Wanted
    <2> QED
      BY <2>4, <2>5
  <1> QED
    BY <1>3, <1>4, <1>5

-----------------------------------------------------------------------------
(* What the walk has listed so far: the months from the start on. *)
Listed ==
    \A i \in 1..Len(months) : Index(months[i]) = Index(Start) + i - 1

Progress ==
    /\ Listed
    /\ pc = "begin" => months = <<>>
    /\ pc = "walk" => /\ Index(cursor) = Index(Start) + Len(months)
                      /\ Index(cursor) <= Index(current)
    /\ pc = "done" => \/ Len(months) = 0 /\ Index(Start) > Index(current)
                      \/ Index(Start) + Len(months) - 1 = Index(current)

IInv == TypeOK /\ Progress

(* The arguments, and with them the start, do not change. *)
LEMMA StartIsFixed == UNCHANGED arguments => Start' = Start /\ current' = current
  BY DEF arguments, Start, Uncapped, MonthBefore

(* Every step keeps the types. *)
LEMMA NextTypeOK == TypeOK /\ [Next]_vars => TypeOK'
  <1> SUFFICES ASSUME TypeOK, [Next]_vars PROVE TypeOK'
    OBVIOUS
  <1> Start \in MonthYears /\ current \in MonthYears
    BY StartType
  <1>1. CASE NothingYet
    BY <1>1 DEF NothingYet, TypeOK, arguments
  <1>2. CASE ReferenceOnly
    BY <1>2 DEF ReferenceOnly, TypeOK, arguments
  <1>3. CASE BeginWalk
    BY <1>3 DEF BeginWalk, TypeOK, arguments
  <1>4. CASE Walk
    <2>1. months' \in Seq(MonthYears) /\ pc' \in {"begin", "walk", "done"}
      BY <1>4 DEF Walk, TypeOK
    <2>2. cursor' \in MonthYears
      BY <1>4, AddMonthIsNext DEF Walk, TypeOK
    <2> QED
      BY <1>4, <2>1, <2>2 DEF Walk, TypeOK, arguments
  <1>5. CASE UNCHANGED vars
    BY <1>5 DEF vars, TypeOK, arguments
  <1> QED
    BY <1>1, <1>2, <1>3, <1>4, <1>5 DEF Next

(* Every step keeps the list a run of consecutive months from the start. *)
LEMMA NextIInv == IInv /\ [Next]_vars => IInv'
  <1> SUFFICES ASSUME IInv, [Next]_vars PROVE Progress'
    BY NextTypeOK DEF IInv
  <1> USE DEF IInv
  <1> /\ Start \in MonthYears /\ current \in MonthYears /\ cursor \in MonthYears
      /\ months \in Seq(MonthYears)
    BY StartType DEF TypeOK
  <1> Index(Start) \in Nat /\ Index(current) \in Nat /\ Index(cursor) \in Nat
    BY IndexIsNat
  <1>0. UNCHANGED arguments => /\ Index(Start)' = Index(Start)
                               /\ Index(current)' = Index(current)
    BY StartIsFixed DEF Index
  <1>1. CASE NothingYet
    BY <1>0, <1>1, BeforeIsLess DEF NothingYet, Progress, Listed, Index
  <1>2. CASE ReferenceOnly
    <2>1. Index(Start) = Index(current)
      BY <1>2, BeforeIsLess DEF ReferenceOnly
    <2>2. months' = <<current>> /\ pc' = "done"
      BY <1>2 DEF ReferenceOnly
    <2>3. Len(months') = 1 /\ months'[1] = current
      BY <2>2
    <2>4. Listed'
      BY <1>0, <1>2, <2>1, <2>3 DEF ReferenceOnly, Listed, Index
    <2> QED
      BY <1>0, <1>2, <2>1, <2>2, <2>3, <2>4 DEF ReferenceOnly, Progress
  <1>3. CASE BeginWalk
    <2>1. Index(cursor)' = Index(Start) /\ Index(Start) < Index(current)
      BY <1>3, BeforeIsLess DEF BeginWalk, Index
    <2>2. months = <<>> /\ months' = months /\ pc' = "walk"
      BY <1>3 DEF BeginWalk, Progress
    <2>3. Listed'
      BY <2>2 DEF Listed
    <2> QED
      BY <1>0, <1>3, <2>1, <2>2, <2>3 DEF BeginWalk, Progress
  <1>4. CASE Walk
    <2>1. /\ Index(cursor) = Index(Start) + Len(months)
          /\ Index(cursor) <= Index(current)
      BY <1>4 DEF Walk, Progress
    <2>2. months' = Append(months, cursor) /\ UNCHANGED arguments
      BY <1>4 DEF Walk
    <2>3. Len(months') = Len(months) + 1
      BY <2>2
    <2>4. Listed'
      <3> SUFFICES ASSUME NEW i \in 1..Len(months')
                   PROVE  Index(months'[i]) = Index(Start) + i - 1
        BY <1>0, <2>2 DEF Listed, Index
      <3>1. CASE i \in 1..Len(months)
        <4>1. months'[i] = months[i]
          BY <2>2, <3>1
        <4> QED
          BY <3>1, <4>1 DEF Progress, Listed
      <3>2. CASE i = Len(months) + 1
        <4>1. months'[i] = cursor
          BY <2>2, <3>2
        <4> QED
          BY <2>1, <3>2, <4>1
      <3> QED
        BY <2>3, <3>1, <3>2
    <2>5. CASE cursor = current
      <3>1. pc' = "done" /\ Index(cursor) = Index(current)
        BY <1>4, <2>5 DEF Walk
      <3>2. Index(Start)' + Len(months') - 1 = Index(current)'
        BY <1>0, <2>1, <2>2, <2>3, <3>1
      <3> QED
        BY <2>4, <3>1, <3>2 DEF Progress
    <2>6. CASE cursor # current
      <3>1. pc' = "walk" /\ cursor' = AddMonth(cursor)
        BY <1>4, <2>6 DEF Walk
      <3>2. Index(cursor)' = Index(cursor) + 1
        BY <3>1, AddMonthIsNext DEF Index
      <3>3. Index(cursor) # Index(current)
        BY <2>6, IndexIsUnique
      <3>4. Index(cursor)' = Index(Start)' + Len(months')
        BY <1>0, <2>1, <2>2, <2>3, <3>2
      <3>5. Index(cursor)' <= Index(current)'
        BY <1>0, <2>1, <2>2, <3>2, <3>3
      <3> QED
        BY <2>4, <3>1, <3>4, <3>5 DEF Progress
    <2> QED
      BY <2>5, <2>6
  <1>5. CASE UNCHANGED vars
    BY <1>0, <1>5 DEF vars, Progress, Listed, Index
  <1> QED
    BY <1>1, <1>2, <1>3, <1>4, <1>5 DEF Next

(* The initial states satisfy the inductive invariant. *)
LEMMA InitIInv == Init => IInv
  <1> SUFFICES ASSUME Init PROVE IInv
    OBVIOUS
  <1>1. TypeOK
    BY InputsAssumption DEF Init, TypeOK
  <1>2. Progress
    BY DEF Init, Progress, Listed
  <1> QED
    BY <1>1, <1>2 DEF IInv

(* The inductive invariant holds in every reachable state. *)
LEMMA Invariance == Spec => []IInv
  <1> QED
    BY InitIInv, NextIInv, PTL DEF Spec

(* Every step keeps the types: months stay months, also past December. *)
THEOREM TypeCorrectness == Spec => []TypeOK
  <1> QED
    BY Invariance, PTL DEF IInv

(* The walk stops: it never gets past the month at which it ends. *)
THEOREM WalkStaysBehind == Spec => []WalkMeetsCurrent
  <1>1. IInv => WalkMeetsCurrent
    BY DEF IInv, Progress, WalkMeetsCurrent
  <1> QED
    BY <1>1, Invariance, PTL

(* getMonthsToCollect returns the wanted months, all of them, once each and  *)
(* in order.                                                                *)
THEOREM ResultIsWanted == Spec => []ListsWantedMonths
  <1>1. IInv => ListsWantedMonths
    <2> SUFFICES ASSUME IInv, pc = "done"
                 PROVE  /\ \A i \in 1..Len(months) : Wanted(months[i])
                        /\ \A i \in 1..(Len(months) - 1) :
                              Index(months[i + 1]) = Index(months[i]) + 1
                        /\ \A m \in Inputs : Wanted(m) =>
                              \E i \in 1..Len(months) : months[i] = m
      BY DEF ListsWantedMonths
    <2> TypeOK /\ months \in Seq(MonthYears)
      BY DEF IInv, TypeOK
    <2> /\ Index(Start) \in Nat /\ Index(current) \in Nat
        /\ Len(months) \in Nat
      BY StartType, IndexIsNat
    <2>1. \/ Len(months) = 0 /\ Index(Start) > Index(current)
          \/ Index(Start) + Len(months) - 1 = Index(current)
      BY DEF IInv, Progress
    <2>2. \A i \in 1..Len(months) : Index(months[i]) = Index(Start) + i - 1
      BY DEF IInv, Progress, Listed
    <2>3. \A i \in 1..Len(months) : Wanted(months[i])
      <3> SUFFICES ASSUME NEW i \in 1..Len(months) PROVE Wanted(months[i])
        OBVIOUS
      <3>1. months[i] \in MonthYears
        OBVIOUS
      <3>2. Index(Start) <= Index(months[i]) /\ Index(months[i]) <= Index(current)
        BY <2>1, <2>2
      <3> QED
        BY <3>1, <3>2, WantedIsInterval
    <2>4. \A i \in 1..(Len(months) - 1) : Index(months[i + 1]) = Index(months[i]) + 1
      BY <2>2
    <2>5. \A m \in Inputs : Wanted(m) => \E i \in 1..Len(months) : months[i] = m
      <3> SUFFICES ASSUME NEW m \in Inputs, Wanted(m)
                   PROVE  \E i \in 1..Len(months) : months[i] = m
        OBVIOUS
      <3>1. m \in MonthYears /\ Index(m) \in Nat
        BY InputsAssumption, IndexIsNat
      <3>2. Index(Start) <= Index(m) /\ Index(m) <= Index(current)
        BY <3>1, WantedIsInterval
      <3> DEFINE i == Index(m) - Index(Start) + 1
      <3>3. i \in 1..Len(months)
        BY <2>1, <3>1, <3>2
      <3>4. Index(months[i]) = Index(m) /\ months[i] \in MonthYears
        BY <2>2, <3>1, <3>3
      <3> QED
        BY <3>1, <3>3, <3>4, IndexIsUnique
    <2> QED
      BY <2>3, <2>4, <2>5
  <1> QED
    BY <1>1, Invariance, PTL
=============================================================================
