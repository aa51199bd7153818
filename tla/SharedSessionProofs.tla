------------------------ MODULE SharedSessionProofs -------------------------
(***************************************************************************)
(* Machine-checked proofs about SharedSession, for any number of runs,      *)
(* fetches and connection tests: how many logins the callers that go round  *)
(* ensureToken can cost, and that HEP accepts the retry of a month fetch     *)
(* that nothing came in the way of.  LockInv, TokenInv and StaleInv, and the lemma about the    *)
(* types of the fetches, are those of TokenRefreshProofs.                   *)
(***************************************************************************)
EXTENDS SharedSession, TokenRefreshProofs, FiniteSetTheorems

USE NobodyAssumption, BoundsAssumption, RunOfAssumption, MoreBoundsAssumption

-----------------------------------------------------------------------------
(* The inductive invariant, in parts. *)

(* Whoever has a login answer, or is past it, has a token, and no answer is   *)
(* from the future.                                                        *)
AnsweredInv ==
    /\ \A f \in Fetchers : pc[f] \in {"answered", "saving"} => token[f] # 0
    /\ \A c \in Callers : answer[c] <= issued
    /\ \A c \in Callers : callPc[c] = "answered" => answer[c] # 0

(* No month fetch begins before HEP has accepted a login. *)
FirstInv ==
    issued = 0 => /\ \A r \in Runs : callPc[r] \notin {"saving", "collecting"}
                  /\ \A f \in Fetchers : pc[f] = "idle"

(* The next login of ensureToken would replace no session the program can    *)
(* still use: the cache holds the live token, or the fetch that is about to  *)
(* cache its answer does.                                                   *)
CacheSettled ==
    /\ session # 0
    /\ \/ /\ cache = session
          /\ \A f \in Fetchers : pc[f] \notin {"login", "answered"}
       \/ \E f \in Fetchers : pc[f] = "answered" /\ token[f] = session

(* The logins that the state reached so far may still cost: one by           *)
(* ensureToken unless the cache is settled, one for each answer of a direct   *)
(* login that is still to arrive (it may be dead by then), and three for     *)
(* each direct login HEP has not accepted yet.                              *)
RefreshOwed == IF issued = 0 \/ CacheSettled THEN 0 ELSE 1
Asking      == {c \in Callers : callPc[c] = "login"}
Arriving    == {c \in Callers : callPc[c] = "answered"}
Owed        == RefreshOwed + Cardinality(Arriving) + 3 * Cardinality(Asking)

FiniteInv   == IsFiniteSet(Asking) /\ IsFiniteSet(Arriving)
DebtInv     == issued + Owed <= expiries + drops + 3 * directs

CoreInv == LockInv /\ TokenInv /\ StaleInv /\ AnsweredInv /\ FirstInv

SharedIInv == SharedTypeOK /\ CoreInv /\ FiniteInv /\ DebtInv

-----------------------------------------------------------------------------
(* The steps, sorted by what they do to the token cache. *)

(* The disjuncts of SharedNext, those of a direct login taken together. *)
LEMMA StepKinds ==
    ASSUME SharedStep
    PROVE  \/ \E r \in Runs : StartWithLogin(r) \/ StartWithToken(r) \/ SavePoints(r) \/ EndRun(r)
           \/ \E t \in Tests : StartTest(t)
           \/ \E c \in Callers : DirectAccepted(c) \/ DirectRefused(c)
                                 \/ DirectAnswerLost(c) \/ DirectAnswered(c)
           \/ \E f \in Fetchers : BeginFetch(f)
           \/ \E f \in Fetchers : /\ RequestStep(f) \/ EnterEnsureToken(f) \/ LoginStep(f)
                                  /\ UNCHANGED callVars
           \/ \E f \in Fetchers : /\ LoginRefused(f) /\ refusals < MaxRefusals
                                  /\ refusals' = refusals + 1
                                  /\ UNCHANGED <<pointsKnown, callPc, answer, tests, directs>>
           \/ SessionEnds /\ UNCHANGED callVars
  BY DEF SharedStep, RunStep, DirectLoginStep, FetchStep, Callers

-----------------------------------------------------------------------------
(* Type correctness *)

(* The initial state has the types. *)
LEMMA SharedInitTypeOK == SharedInit => SharedTypeOK
  <1>1. Init => TypeOK
    BY InitIInv DEF IInv
  <1> SUFFICES ASSUME SharedInit PROVE SharedTypeOK
    OBVIOUS
  <1>2. TypeOK /\ pointsKnown \in BOOLEAN
    BY <1>1 DEF SharedInit
  <1>3. /\ callPc \in [Callers -> CallSteps] /\ answer \in [Callers -> Nat]
        /\ refusals \in 0..MaxRefusals /\ tests \in 0..MaxTests /\ directs \in Nat
    BY DEF SharedInit, CallSteps
  <1>4. \A f \in Fetchers : pc[f] = "idle"
    BY DEF SharedInit, Init
  <1>5. undisturbed = {}
    BY DEF SharedInit
  <1> QED BY <1>2, <1>3, <1>4, <1>5 DEF SharedTypeOK

(* Every step keeps the types: a fetch is at work only while its run collects. *)
LEMMA SharedNextTypeOK == ASSUME SharedTypeOK, [SharedNext]_sharedVars PROVE SharedTypeOK'
  <1>0. TypeOK
    BY DEF SharedTypeOK
  <1>a. undisturbed' \subseteq Fetchers
    BY DEF SharedNext, Watch, sharedVars, SharedTypeOK
  <1> USE <1>a
  <1>1. ASSUME NEW r \in Runs,
               StartWithLogin(r) \/ StartWithToken(r) \/ SavePoints(r) \/ EndRun(r)
        PROVE  SharedTypeOK'
    <2>1. TypeOK'
      BY <1>0, <1>1 DEF StartWithLogin, StartWithToken, SavePoints, EndRun, vars, hepVars,
         fetchVars, TypeOK, HoldsLock
    <2>2. /\ UNCHANGED <<pc, answer, refusals, tests>>
          /\ \E s \in CallSteps : Goto(r, s)
          /\ directs' \in Nat /\ pointsKnown' \in BOOLEAN
      <3>1. UNCHANGED <<pc, answer, refusals, tests>> /\ directs' \in Nat
        BY <1>1 DEF StartWithLogin, StartWithToken, SavePoints, EndRun, vars, fetchVars,
           SharedTypeOK
      <3>2. Goto(r, "login") \/ Goto(r, "collecting") \/ Goto(r, "idle")
        BY <1>1 DEF StartWithLogin, StartWithToken, SavePoints, EndRun
      <3>3. pointsKnown' = pointsKnown \/ pointsKnown' = TRUE
        BY <1>1 DEF StartWithLogin, StartWithToken, SavePoints, EndRun
      <3> QED BY <3>1, <3>2, <3>3 DEF CallSteps, SharedTypeOK
    <2>3. callPc' \in [Callers -> CallSteps]
      BY <2>2 DEF Goto, SharedTypeOK
    <2>4. ASSUME NEW f \in Fetchers, pc'[f] # "idle" PROVE callPc'[RunOf[f]] = "collecting"
      <3>1. callPc[RunOf[f]] = "collecting" /\ RunOf[f] \in Callers
        BY <2>2, <2>4 DEF SharedTypeOK, Callers
      <3>2. RunOf[f] # r
        BY <1>1, <2>2, <2>4, <3>1 DEF StartWithLogin, StartWithToken, SavePoints, EndRun,
           FetchersOf
      <3> QED BY <2>2, <3>1, <3>2 DEF Goto, SharedTypeOK
    <2> QED BY <2>1, <2>2, <2>3, <2>4 DEF SharedTypeOK
  <1>2. ASSUME NEW t \in Tests, StartTest(t) PROVE SharedTypeOK'
    <2>1. TypeOK'
      BY <1>0, <1>2 DEF StartTest, vars, hepVars, fetchVars, TypeOK, HoldsLock
    <2> QED BY <1>2, <2>1 DEF StartTest, Goto, SharedTypeOK, CallSteps, Callers, vars,
               fetchVars
  <1>3. ASSUME NEW c \in Callers,
               DirectAccepted(c) \/ DirectRefused(c) \/ DirectAnswerLost(c) \/ DirectAnswered(c)
        PROVE  SharedTypeOK'
    <2>1. TypeOK'
      BY <1>0, <1>3 DEF DirectAccepted, DirectRefused, DirectAnswerLost, DirectAnswered,
         FailCall, HepAccepts, hepVars, fetchVars, TypeOK, HoldsLock, SharedTypeOK
    <2>2. /\ UNCHANGED <<pc, pointsKnown, tests, directs>>
          /\ callPc[c] \in {"login", "answered"}
          /\ \E s \in CallSteps : Goto(c, s)
      BY <1>3 DEF DirectAccepted, DirectRefused, DirectAnswerLost, DirectAnswered,
         FailCall, CallSteps, fetchVars
    <2>3. /\ callPc' \in [Callers -> CallSteps]
          /\ \A f \in Fetchers : pc'[f] # "idle" => callPc'[RunOf[f]] = "collecting"
      BY <2>2 DEF Goto, SharedTypeOK, Callers
    <2>4. answer' \in [Callers -> Nat] /\ refusals' \in 0..MaxRefusals
      BY <1>0, <1>3 DEF DirectAccepted, DirectRefused, DirectAnswerLost, DirectAnswered,
         SharedTypeOK, TypeOK, fetchVars
    <2> QED BY <2>1, <2>2, <2>3, <2>4 DEF SharedTypeOK
  <1>4. ASSUME NEW f \in Fetchers, BeginFetch(f) PROVE SharedTypeOK'
    <2>1. TypeOK'
      BY <1>0, <1>4, NextTypeOK DEF BeginFetch, Next
    <2> QED BY <1>4, <2>1 DEF BeginFetch, Begin, SharedTypeOK, callVars, TypeOK
  <1>5. ASSUME NEW f \in Fetchers, RequestStep(f) \/ EnterEnsureToken(f) \/ LoginStep(f),
               UNCHANGED callVars
        PROVE  SharedTypeOK'
    <2>1. TypeOK'
      BY <1>0, <1>5, NextTypeOK DEF Next, FetcherStep
    <2>2. \A g \in Fetchers : pc'[g] # "idle" => pc[g] # "idle"
      BY <1>0, <1>5 DEF RequestStep, EnterEnsureToken, LoginStep, FetchOk, FetchRejected,
         RetryRejected, FetchFails, Return, ReuseToken, BeginLogin, LoginAccepted,
         LoginAnswerLost, AbandonLogin, LoginAnswered, EndLogin, TypeOK
    <2> QED BY <1>5, <2>1, <2>2 DEF SharedTypeOK, callVars
  <1>6. ASSUME NEW f \in Fetchers, LoginRefused(f), refusals < MaxRefusals,
               refusals' = refusals + 1,
               UNCHANGED <<pointsKnown, callPc, answer, tests, directs>>
        PROVE  SharedTypeOK'
    <2>1. TypeOK'
      BY <1>0, <1>6, NextTypeOK DEF Next, FetcherStep
    <2>2. \A g \in Fetchers : pc'[g] # "idle" => pc[g] # "idle"
      BY <1>0, <1>6 DEF LoginRefused, AbandonLogin, Return, TypeOK
    <2> QED BY <1>6, <2>1, <2>2 DEF SharedTypeOK
  <1>7. CASE SessionEnds /\ UNCHANGED callVars
    <2>1. TypeOK'
      BY <1>0, <1>7, NextTypeOK DEF Next
    <2> QED BY <1>7, <2>1 DEF SharedTypeOK, callVars, SessionEnds, fetchVars
  <1>8. CASE UNCHANGED sharedVars
    BY <1>8 DEF sharedVars, vars, hepVars, fetchVars, callVars, SharedTypeOK, TypeOK, HoldsLock
  <1> QED
    BY <1>1, <1>2, <1>3, <1>4, <1>5, <1>6, <1>7, <1>8, StepKinds DEF SharedNext

-----------------------------------------------------------------------------
(* Locks, tokens and answers *)

(* A step of a run or test leaves loginMu and the fetches alone, and brings    *)
(* the cache no token but one of its own answers. *)
LEMMA CallStepCoreInv ==
    ASSUME SharedTypeOK, CoreInv, NEW c \in Callers,
           \/ DirectAccepted(c) \/ DirectRefused(c)
           \/ DirectAnswerLost(c) \/ DirectAnswered(c)
    PROVE  CoreInv'
  <1> USE DEF SharedTypeOK, TypeOK, LockInv, TokenInv, StaleInv, AnsweredInv, FirstInv,
              HoldsLock, hepVars, fetchVars, Goto
  <1>0. /\ LockInv /\ TokenInv /\ StaleInv /\ AnsweredInv /\ FirstInv
    BY DEF CoreInv
  <1>1. CASE DirectAccepted(c)
    BY <1>0, <1>1 DEF CoreInv, DirectAccepted, HepAccepts
  <1>2. CASE DirectRefused(c)
    BY <1>0, <1>2 DEF CoreInv, DirectRefused, FailCall, Callers
  <1>3. CASE DirectAnswerLost(c)
    BY <1>0, <1>3 DEF CoreInv, DirectAnswerLost, FailCall, Callers
  <1>4. CASE DirectAnswered(c)
    BY <1>0, <1>4 DEF CoreInv, DirectAnswered, Callers
  <1> QED BY <1>1, <1>2, <1>3, <1>4

(* The steps of a month fetch keep all five parts, as in TokenRefreshProofs. *)
LEMMA FetchStepCoreInv ==
    ASSUME SharedTypeOK, CoreInv, NEW f \in Fetchers,
           \/ BeginFetch(f)
           \/ /\ RequestStep(f) \/ EnterEnsureToken(f) \/ LoginStep(f) \/ LoginRefused(f)
              /\ UNCHANGED <<callPc, answer>>
    PROVE  CoreInv'
  <1> USE DEF SharedTypeOK, TypeOK, LockInv, TokenInv, StaleInv, AnsweredInv, FirstInv,
              HoldsLock, hepVars, callVars
  <1>0. /\ LockInv /\ TokenInv /\ StaleInv /\ AnsweredInv /\ FirstInv
    BY DEF CoreInv
  <1>1. CASE BeginFetch(f)
    BY <1>0, <1>1 DEF CoreInv, BeginFetch, Begin
  <1>2. ASSUME FetchOk(f) \/ RetryRejected(f) \/ FetchFails(f), UNCHANGED <<callPc, answer>>
        PROVE  CoreInv'
    BY <1>0, <1>2 DEF CoreInv, FetchOk, RetryRejected, FetchFails, Return
  <1>3. ASSUME FetchRejected(f), UNCHANGED <<callPc, answer>> PROVE CoreInv'
    BY <1>0, <1>3 DEF CoreInv, FetchRejected
  <1>4. ASSUME ReuseToken(f) \/ BeginLogin(f), UNCHANGED <<callPc, answer>> PROVE CoreInv'
    BY <1>0, <1>4 DEF CoreInv, ReuseToken, BeginLogin
  <1>5. ASSUME LoginAccepted(f), UNCHANGED <<callPc, answer>> PROVE CoreInv'
    BY <1>0, <1>5 DEF CoreInv, LoginAccepted, HepAccepts
  <1>6. ASSUME LoginRefused(f) \/ LoginAnswerLost(f), UNCHANGED <<callPc, answer>>
        PROVE  CoreInv'
    BY <1>0, <1>6 DEF CoreInv, LoginRefused, LoginAnswerLost, AbandonLogin, Return
  <1>7. ASSUME LoginAnswered(f) \/ EndLogin(f), UNCHANGED <<callPc, answer>> PROVE CoreInv'
    BY <1>0, <1>7 DEF CoreInv, LoginAnswered, EndLogin
  <1> QED
    BY <1>1, <1>2, <1>3, <1>4, <1>5, <1>6, <1>7 DEF RequestStep, EnterEnsureToken, LoginStep

(* Every step keeps all five parts. *)
LEMMA NextCoreInv == ASSUME SharedTypeOK, CoreInv, [SharedNext]_sharedVars PROVE CoreInv'
  <1> USE DEF SharedTypeOK, TypeOK, LockInv, TokenInv, StaleInv, AnsweredInv, FirstInv,
              HoldsLock, hepVars, fetchVars, vars, callVars, Goto
  <1>0. /\ LockInv /\ TokenInv /\ StaleInv /\ AnsweredInv /\ FirstInv
    BY DEF CoreInv
  <1>1. ASSUME NEW r \in Runs, StartWithLogin(r) \/ StartWithToken(r) \/ SavePoints(r) \/ EndRun(r)
        PROVE  CoreInv'
    BY <1>0, <1>1 DEF CoreInv, StartWithLogin, StartWithToken, SavePoints, EndRun, Callers
  <1>2. ASSUME NEW t \in Tests, StartTest(t) PROVE CoreInv'
    BY <1>0, <1>2 DEF CoreInv, StartTest, Callers
  <1>3. CASE SessionEnds /\ UNCHANGED callVars
    BY <1>0, <1>3 DEF CoreInv, SessionEnds
  <1>4. CASE UNCHANGED sharedVars
    BY <1>0, <1>4 DEF CoreInv, sharedVars
  <1>5. ASSUME NEW f \in Fetchers, BeginFetch(f) PROVE CoreInv'
    BY <1>5, FetchStepCoreInv
  <1>6. ASSUME NEW f \in Fetchers,
               RequestStep(f) \/ EnterEnsureToken(f) \/ LoginStep(f) \/ LoginRefused(f),
               UNCHANGED <<callPc, answer>>
        PROVE  CoreInv'
    BY <1>6, FetchStepCoreInv
  <1> HIDE DEF SharedTypeOK, LockInv, TokenInv, StaleInv, AnsweredInv, FirstInv
  <1>7. UNCHANGED callVars => UNCHANGED <<callPc, answer>>
    OBVIOUS
  <1> QED
    BY <1>1, <1>2, <1>3, <1>4, <1>5, <1>6, <1>7, CallStepCoreInv, StepKinds DEF SharedNext

-----------------------------------------------------------------------------
(* Counting logins *)

(* One caller moves: the two counts follow it. *)
LEMMA CountsFollow ==
    ASSUME callPc \in [Callers -> CallSteps], FiniteInv, NEW c \in Callers,
           NEW s \in CallSteps, Goto(c, s)
    PROVE  /\ FiniteInv'
           /\ Cardinality(Asking) \in Nat /\ Cardinality(Arriving) \in Nat
           /\ Cardinality(Asking)' =
                Cardinality(Asking) + (IF s = "login" THEN 1 ELSE 0)
                                    - (IF callPc[c] = "login" THEN 1 ELSE 0)
           /\ Cardinality(Arriving)' =
                Cardinality(Arriving) + (IF s = "answered" THEN 1 ELSE 0)
                                      - (IF callPc[c] = "answered" THEN 1 ELSE 0)
  <1>1. Asking' = IF s = "login" THEN Asking \cup {c} ELSE Asking \ {c}
    BY DEF Asking, Goto
  <1>2. Arriving' = IF s = "answered" THEN Arriving \cup {c} ELSE Arriving \ {c}
    BY DEF Arriving, Goto
  <1>3. IsFiniteSet(Asking) /\ IsFiniteSet(Arriving)
    BY DEF FiniteInv
  <1>4. Cardinality(Asking) \in Nat /\ Cardinality(Arriving) \in Nat
    BY <1>3, FS_CardinalityType
  <1>5. c \in Asking <=> callPc[c] = "login"
    BY DEF Asking
  <1>6. c \in Arriving <=> callPc[c] = "answered"
    BY DEF Arriving
  <1>7. /\ IsFiniteSet(Asking') /\ Cardinality(Asking') =
              Cardinality(Asking) + (IF s = "login" THEN 1 ELSE 0)
                                  - (IF callPc[c] = "login" THEN 1 ELSE 0)
    <2>1. CASE s = "login"
      BY <1>1, <1>3, <1>4, <1>5, <2>1, FS_AddElement
    <2>2. CASE s # "login"
      <3>1. /\ IsFiniteSet(Asking \ {c})
            /\ Cardinality(Asking \ {c}) = IF c \in Asking THEN Cardinality(Asking) - 1
                                           ELSE Cardinality(Asking)
        BY <1>3, FS_RemoveElement
      <3> QED BY <1>1, <1>4, <1>5, <2>2, <3>1
    <2> QED BY <2>1, <2>2
  <1>8. /\ IsFiniteSet(Arriving') /\ Cardinality(Arriving') =
              Cardinality(Arriving) + (IF s = "answered" THEN 1 ELSE 0)
                                    - (IF callPc[c] = "answered" THEN 1 ELSE 0)
    <2>1. CASE s = "answered"
      BY <1>2, <1>3, <1>4, <1>6, <2>1, FS_AddElement
    <2>2. CASE s # "answered"
      BY <1>2, <1>3, <1>4, <1>6, <2>2, FS_RemoveElement
    <2> QED BY <2>1, <2>2
  <1> QED BY <1>4, <1>7, <1>8 DEF FiniteInv

(* No caller moves: the counts stay. *)
LEMMA CountsStay ==
    ASSUME FiniteInv, UNCHANGED callPc
    PROVE  /\ FiniteInv'
           /\ Cardinality(Asking) \in Nat /\ Cardinality(Arriving) \in Nat
           /\ Cardinality(Asking)' = Cardinality(Asking)
           /\ Cardinality(Arriving)' = Cardinality(Arriving)
  BY FS_CardinalityType DEF FiniteInv, Asking, Arriving

(* ensureToken logs in only when the cache is not settled, and leaves it       *)
(* settled; no other step of a fetch unsettles it, but for a lost answer. *)
LEMMA FetchStepSettles ==
    ASSUME SharedTypeOK, CoreInv, NEW f \in Fetchers,
           Begin(f) \/ RequestStep(f) \/ EnterEnsureToken(f) \/ LoginStep(f) \/ LoginRefused(f)
    PROVE  IF LoginAccepted(f)
           THEN /\ issued # 0 /\ issued' = issued + 1 /\ UNCHANGED <<expiries, drops>>
                /\ ~CacheSettled /\ CacheSettled'
           ELSE /\ UNCHANGED <<issued, expiries>>
                /\ \/ UNCHANGED drops /\ (CacheSettled => CacheSettled')
                   \/ drops' = drops + 1
  <1> USE DEF SharedTypeOK, TypeOK, LockInv, TokenInv, StaleInv, FirstInv, HoldsLock,
              CacheSettled, hepVars
  <1>0. /\ LockInv /\ TokenInv /\ StaleInv /\ FirstInv
    BY DEF CoreInv
  <1>1. CASE LoginAccepted(f)
    BY <1>0, <1>1 DEF LoginAccepted, HepAccepts
  <1>2. ASSUME Begin(f) \/ ReuseToken(f) \/ EndLogin(f) \/ FetchRejected(f)
        PROVE  /\ UNCHANGED <<issued, expiries, drops>> /\ (CacheSettled => CacheSettled')
               /\ pc[f] # "login"
    BY <1>0, <1>2 DEF Begin, ReuseToken, EndLogin, FetchRejected
  <1>3. ASSUME FetchOk(f) \/ RetryRejected(f) \/ FetchFails(f)
        PROVE  /\ UNCHANGED <<issued, expiries, drops>> /\ (CacheSettled => CacheSettled')
               /\ pc[f] # "login"
    BY <1>0, <1>3 DEF FetchOk, RetryRejected, FetchFails, Return
  <1>4. ASSUME BeginLogin(f)
        PROVE  /\ UNCHANGED <<issued, expiries, drops>> /\ ~CacheSettled /\ pc[f] # "login"
    BY <1>0, <1>4 DEF BeginLogin
  <1>5. ASSUME LoginRefused(f)
        PROVE  UNCHANGED <<issued, expiries, drops>> /\ ~CacheSettled
    BY <1>0, <1>5 DEF LoginRefused
  <1>6. ASSUME LoginAnswerLost(f)
        PROVE  UNCHANGED <<issued, expiries>> /\ drops' = drops + 1
    BY <1>0, <1>6 DEF LoginAnswerLost
  <1>7. ASSUME LoginAnswered(f)
        PROVE  UNCHANGED <<issued, expiries, drops>> /\ (CacheSettled => CacheSettled')
    BY <1>0, <1>7 DEF LoginAnswered
  <1> HIDE DEF CacheSettled
  <1>8. CASE ~LoginAccepted(f)
    BY <1>2, <1>3, <1>4, <1>5, <1>6, <1>7, <1>8
       DEF RequestStep, EnterEnsureToken, LoginStep
  <1> QED BY <1>1, <1>8

(* At most one login of ensureToken is owed. *)
LEMMA RefreshOwedType == RefreshOwed \in {0, 1}
  BY DEF RefreshOwed

(* Every login that is accepted was owed before, and whatever makes another    *)
(* one necessary (a direct login, a session HEP ends, a lost answer) raises     *)
(* the bound as well.                                                       *)
LEMMA NextDebtInv ==
    ASSUME SharedTypeOK, CoreInv, FiniteInv, DebtInv, [SharedNext]_sharedVars
    PROVE  FiniteInv' /\ DebtInv'
  <1>0. /\ callPc \in [Callers -> CallSteps]
        /\ issued \in Nat /\ expiries \in Nat /\ drops \in Nat /\ directs \in Nat
        /\ issued + RefreshOwed + Cardinality(Arriving) + 3 * Cardinality(Asking)
             <= expiries + drops + 3 * directs
        /\ RefreshOwed \in {0, 1} /\ RefreshOwed' \in {0, 1}
    <2>1. Cardinality(Arriving) \in Nat /\ Cardinality(Asking) \in Nat
      BY FS_CardinalityType DEF FiniteInv
    <2>2. RefreshOwed \in {0, 1} /\ RefreshOwed' \in {0, 1}
      BY DEF RefreshOwed
    <2> QED BY <2>1, <2>2 DEF SharedTypeOK, TypeOK, DebtInv, Owed
  <1>1. ASSUME NEW c \in Callers, NEW s \in CallSteps, Goto(c, s),
               UNCHANGED <<issued, expiries, drops, RefreshOwed>>,
               callPc[c] \notin {"login", "answered"}, s # "answered",
               directs' = IF s = "login" THEN directs + 1 ELSE directs
        PROVE  FiniteInv' /\ DebtInv'
    BY <1>0, <1>1, CountsFollow DEF DebtInv, Owed
  <1>2. ASSUME NEW r \in Runs, StartWithLogin(r) \/ StartWithToken(r) \/ SavePoints(r) \/ EndRun(r)
        PROVE  FiniteInv' /\ DebtInv'
    <2>1. UNCHANGED <<issued, expiries, drops, RefreshOwed>>
      BY <1>2 DEF StartWithLogin, StartWithToken, SavePoints, EndRun, vars, hepVars,
         fetchVars, RefreshOwed, CacheSettled
    <2>2. CASE StartWithLogin(r)
      BY <1>1, <2>1, <2>2 DEF StartWithLogin, CallSteps, Callers
    <2>3. CASE StartWithToken(r) \/ SavePoints(r)
      BY <1>1, <2>1, <2>3 DEF StartWithToken, SavePoints, CallSteps, Callers
    <2>4. CASE EndRun(r)
      BY <1>1, <2>1, <2>4 DEF EndRun, CallSteps, Callers
    <2> QED BY <1>2, <2>2, <2>3, <2>4
  <1>3. ASSUME NEW t \in Tests, StartTest(t) PROVE FiniteInv' /\ DebtInv'
    <2>1. UNCHANGED <<issued, expiries, drops, RefreshOwed>>
      BY <1>3 DEF StartTest, vars, hepVars, fetchVars, RefreshOwed, CacheSettled
    <2> QED BY <1>1, <1>3, <2>1 DEF StartTest, CallSteps, Callers
  <1>4. ASSUME NEW c \in Callers, DirectAccepted(c) PROVE FiniteInv' /\ DebtInv'
    <2>1. /\ callPc[c] = "login" /\ Goto(c, "answered") /\ directs' = directs
          /\ issued' = issued + 1 /\ UNCHANGED <<expiries, drops>>
      BY <1>4 DEF DirectAccepted, HepAccepts
    <2> QED BY <1>0, <2>1, CountsFollow DEF DebtInv, Owed, CallSteps
  <1>5. ASSUME NEW c \in Callers, DirectRefused(c) PROVE FiniteInv' /\ DebtInv'
    <2>1. /\ callPc[c] = "login" /\ Goto(c, "idle") /\ directs' = directs
          /\ UNCHANGED <<issued, expiries, drops>>
      BY <1>5 DEF DirectRefused, FailCall, hepVars
    <2> QED BY <1>0, <2>1, CountsFollow DEF DebtInv, Owed, CallSteps
  <1>6. ASSUME NEW c \in Callers, DirectAnswerLost(c) \/ DirectAnswered(c)
        PROVE  FiniteInv' /\ DebtInv'
    <2>1. /\ callPc[c] = "answered" /\ directs' = directs
          /\ \E s \in {"idle", "saving"} : Goto(c, s)
          /\ UNCHANGED <<issued, expiries>> /\ drops' \in {drops, drops + 1}
      BY <1>6 DEF DirectAnswerLost, DirectAnswered, FailCall, hepVars
    <2> QED BY <1>0, <2>1, CountsFollow DEF DebtInv, Owed, CallSteps
  <1>7. ASSUME NEW f \in Fetchers,
               Begin(f) \/ RequestStep(f) \/ EnterEnsureToken(f) \/ LoginStep(f)
               \/ LoginRefused(f),
               UNCHANGED <<callPc, directs>>
        PROVE  FiniteInv' /\ DebtInv'
    <2>1. CASE LoginAccepted(f)
      BY <1>0, <1>7, <2>1, FetchStepSettles, CountsStay DEF DebtInv, Owed, RefreshOwed
    <2>2. CASE ~LoginAccepted(f)
      BY <1>0, <1>7, <2>2, FetchStepSettles, CountsStay DEF DebtInv, Owed, RefreshOwed
    <2> QED BY <2>1, <2>2
  <1>8. CASE SessionEnds /\ UNCHANGED callVars
    <2>1. issued' = issued /\ expiries' = expiries + 1 /\ UNCHANGED <<drops, callPc, directs>>
      BY <1>8 DEF SessionEnds, callVars
    <2> QED BY <1>0, <2>1, CountsStay DEF DebtInv, Owed
  <1>9. CASE UNCHANGED sharedVars
    <2>1. UNCHANGED <<issued, expiries, drops, directs, callPc, RefreshOwed>>
      BY <1>9 DEF sharedVars, vars, hepVars, fetchVars, callVars, RefreshOwed, CacheSettled
    <2> QED BY <1>0, <2>1, CountsStay DEF DebtInv, Owed
  <1>10. UNCHANGED callVars => UNCHANGED <<callPc, directs>>
    BY DEF callVars
  <1> QED
    BY <1>2, <1>3, <1>4, <1>5, <1>6, <1>7, <1>8, <1>9, <1>10, StepKinds DEF SharedNext, BeginFetch

-----------------------------------------------------------------------------
(* Retries *)

(* What an undisturbed fetch can rely on.  Before its retry the cache is empty,  *)
(* holds the token the fetch itself holds, or is about to be or has been        *)
(* refreshed; from then on it has the live token, and so has the cache, so that *)
(* nobody who waits for loginMu finds a reason to log in.                      *)
Calm(f) ==
    /\ pc[f] = "refresh" \/ (pc[f] = "fetch" /\ ~retried[f]) =>
           cache \in {0, token[f], session} \/ \E g \in Fetchers : pc[g] = "answered"
    /\ pc[f] = "saving" => token[f] = session /\ cache = session
    /\ pc[f] = "fetch" /\ retried[f] =>
           /\ token[f] = session /\ cache = session /\ session # 0
           /\ \A g \in Fetchers : pc[g] # "login"

CalmInv == \A f \in undisturbed : AnswersAreGood /\ Calm(f)

(* No step but a disturbance takes that away. *)
LEMMA NextCalmInv ==
    ASSUME SharedTypeOK, CoreInv, CalmInv, [SharedNext]_sharedVars
    PROVE  CalmInv'
  <1>1. CASE UNCHANGED sharedVars
    BY <1>1 DEF sharedVars, vars, hepVars, fetchVars, callVars, CalmInv, Calm, AnswersAreGood
  <1> SUFFICES ASSUME SharedNext, NEW f \in undisturbed'
               PROVE  (AnswersAreGood /\ Calm(f))'
    BY <1>1 DEF CalmInv
  <1>2. /\ f \in Fetchers /\ pc'[f] # "idle" /\ ~Disturbance /\ AnswersAreGood
        /\ f \in undisturbed \/ pc[f] = "idle"
        /\ f \in undisturbed => Calm(f)
    BY DEF SharedNext, Watch, CalmInv
  <1>3. UNCHANGED <<expiries, drops, refusals>>
    BY <1>2 DEF Disturbance
  <1>4. /\ expiries \in Nat /\ drops \in Nat /\ refusals \in Nat
        /\ callPc \in [Callers -> CallSteps] /\ TypeOK
    BY DEF SharedTypeOK, TypeOK
  <1>5. ASSUME UNCHANGED vars, \A c \in Callers : callPc'[c] # "answered"
        PROVE  (AnswersAreGood /\ Calm(f))'
    <2>1. f \in undisturbed
      BY <1>2, <1>5 DEF vars, fetchVars
    <2> QED BY <1>2, <1>5, <2>1 DEF vars, hepVars, fetchVars, Calm, AnswersAreGood
  <1>6. ASSUME NEW r \in Runs, StartWithLogin(r) \/ StartWithToken(r) \/ SavePoints(r) \/ EndRun(r)
        PROVE  (AnswersAreGood /\ Calm(f))'
    <2>1. \A c \in Callers : callPc'[c] # "answered"
      BY <1>2, <1>4, <1>6 DEF AnswersAreGood, StartWithLogin, StartWithToken, SavePoints, EndRun,
         Goto, Callers
    <2> QED BY <1>5, <1>6, <2>1 DEF StartWithLogin, StartWithToken, SavePoints, EndRun
  <1>7. ASSUME NEW t \in Tests, StartTest(t) PROVE (AnswersAreGood /\ Calm(f))'
    BY <1>2, <1>4, <1>5, <1>7 DEF AnswersAreGood, StartTest, Goto, Callers
  <1>8. ASSUME NEW c \in Callers PROVE ~DirectAccepted(c) /\ ~DirectAnswered(c)
    <2>1. ~DirectAnswered(c)
      BY <1>2 DEF DirectAnswered, AnswersAreGood
    <2>2. DirectAccepted(c) => callPc'[c] = "answered" /\ callPc[c] # "answered"
      BY <1>4 DEF DirectAccepted, Goto
    <2> QED BY <1>2, <2>1, <2>2 DEF Disturbance
  <1>9. ASSUME NEW c \in Callers PROVE ~DirectRefused(c) /\ ~DirectAnswerLost(c)
    BY <1>3, <1>4 DEF DirectRefused, DirectAnswerLost
  <1>10. ~(SessionEnds /\ UNCHANGED callVars)
    BY <1>3, <1>4 DEF SessionEnds
  <1>11. ASSUME NEW g \in Fetchers, BeginFetch(g) PROVE (AnswersAreGood /\ Calm(f))'
    BY <1>2, <1>4, <1>11 DEF BeginFetch, Begin, AnswersAreGood, Calm, TypeOK, callVars, hepVars
  <1>12. ASSUME NEW g \in Fetchers, RequestStep(g) \/ EnterEnsureToken(g) \/ LoginStep(g),
                UNCHANGED callVars
         PROVE  (AnswersAreGood /\ Calm(f))'
    <2>1. Calm(f) /\ f \in undisturbed
      BY <1>2, <1>4, <1>12 DEF RequestStep, EnterEnsureToken, LoginStep, FetchOk, FetchRejected,
         RetryRejected, FetchFails, Return, ReuseToken, BeginLogin, LoginAccepted,
         LoginAnswerLost, AbandonLogin, LoginAnswered, EndLogin, TypeOK
    <2> USE <1>2, <1>4, <2>1 DEF Calm, AnswersAreGood, TypeOK, hepVars, callVars
    <2>0. LockInv /\ TokenInv /\ StaleInv /\ AnsweredInv
      BY DEF CoreInv
    <2>2. CASE FetchOk(g) \/ RetryRejected(g) \/ FetchFails(g)
      BY <1>12, <2>2 DEF FetchOk, RetryRejected, FetchFails, Return
    <2>3. CASE FetchRejected(g)
      BY <1>12, <2>3 DEF FetchRejected
    <2>4. CASE ReuseToken(g)
      BY <1>12, <2>0, <2>4 DEF ReuseToken, LockInv, HoldsLock
    <2>5. CASE BeginLogin(g)
      BY <1>12, <2>0, <2>5 DEF BeginLogin, StaleInv
    <2>6. CASE LoginAccepted(g)
      BY <1>12, <2>0, <2>6 DEF LoginAccepted, HepAccepts, LockInv, HoldsLock
    <2>7. CASE LoginAnswered(g)
      BY <1>12, <2>0, <2>7 DEF LoginAnswered, LockInv, HoldsLock
    <2>8. CASE EndLogin(g)
      BY <1>12, <2>0, <2>8 DEF EndLogin, LockInv, HoldsLock, AnsweredInv
    <2>9. ~LoginAnswerLost(g)
      BY <1>3 DEF LoginAnswerLost
    <2> QED
      BY <1>12, <2>2, <2>3, <2>4, <2>5, <2>6, <2>7, <2>8, <2>9
         DEF RequestStep, EnterEnsureToken, LoginStep
  <1>13. ASSUME NEW g \in Fetchers, LoginRefused(g), refusals' = refusals + 1 PROVE FALSE
    BY <1>3, <1>4, <1>13
  <1> QED
    BY <1>6, <1>7, <1>8, <1>9, <1>10, <1>11, <1>12, <1>13, StepKinds DEF SharedNext

-----------------------------------------------------------------------------
(* Theorems *)

(* The invariant holds in every reachable state. *)
THEOREM SharedInvariance == SharedSpec => []SharedIInv
  <1>1. SharedInit => SharedIInv
    <2> SUFFICES ASSUME SharedInit PROVE SharedIInv
      OBVIOUS
    <2>1. SharedTypeOK
      BY SharedInitTypeOK
    <2>2. CoreInv
      <3>1. Init => LockInv /\ TokenInv /\ StaleInv
        BY InitIInv DEF IInv
      <3> QED BY <3>1 DEF SharedInit, Init, CoreInv, AnsweredInv, FirstInv, Callers
    <2>3. Asking = {} /\ Arriving = {}
      BY DEF SharedInit, Asking, Arriving
    <2>4. RefreshOwed = 0 /\ issued = 0 /\ expiries = 0 /\ drops = 0 /\ directs = 0
      BY DEF SharedInit, Init, RefreshOwed
    <2>5. FiniteInv /\ DebtInv
      BY <2>3, <2>4, FS_EmptySet DEF FiniteInv, DebtInv, Owed
    <2> QED BY <2>1, <2>2, <2>5 DEF SharedIInv
  <1>2. SharedIInv /\ [SharedNext]_sharedVars => SharedIInv'
    BY SharedNextTypeOK, NextCoreInv, NextDebtInv DEF SharedIInv
  <1> QED BY <1>1, <1>2, PTL DEF SharedSpec

(* Every variable keeps its type, and a month fetch is at work only while the  *)
(* run that started it is. *)
THEOREM SharedTypeCorrectness == SharedSpec => []SharedTypeOK
  <1>1. SharedIInv => SharedTypeOK
    BY DEF SharedIInv
  <1> QED BY <1>1, SharedInvariance, PTL

(* However the runs and the connection test log in past loginMu, each of       *)
(* their logins costs at most two more, and every other one answers a session *)
(* that was lost to the outside.                                            *)
THEOREM DirectLoginsStayCheap == SharedSpec => []LoginsAreBounded
  <1>1. SharedIInv => LoginsAreBounded
    <2> SUFFICES ASSUME SharedIInv PROVE LoginsAreBounded
      OBVIOUS
    <2>1. Cardinality(Arriving) \in Nat /\ Cardinality(Asking) \in Nat
      BY FS_CardinalityType DEF SharedIInv, FiniteInv
    <2>2. issued \in Nat /\ expiries \in Nat /\ drops \in Nat /\ directs \in Nat
      BY DEF SharedIInv, SharedTypeOK, TypeOK
    <2> QED BY <2>1, <2>2, RefreshOwedType DEF SharedIInv, DebtInv, Owed, LoginsAreBounded
  <1> QED BY <1>1, SharedInvariance, PTL

(* HEP accepts the retry of every month fetch that nothing came in the way of,  *)
(* with any number of fetches, runs and tests: the token ensureToken hands out  *)
(* is the one of the session, and nobody logs in again before it is used. *)
THEOREM UndisturbedRetriesSucceed == SharedSpec => []RetriesAreAccepted
  <1>1. SharedInit => CalmInv
    BY DEF SharedInit, CalmInv
  <1>2. SharedIInv /\ CalmInv /\ [SharedNext]_sharedVars => CalmInv'
    BY NextCalmInv DEF SharedIInv
  <1>3. CalmInv => RetriesAreAccepted
    BY DEF CalmInv, Calm, RetriesAreAccepted
  <1> QED BY <1>1, <1>2, <1>3, SharedInvariance, PTL DEF SharedSpec
=============================================================================
