------------------------- MODULE TokenRefreshProofs -------------------------
(***************************************************************************)
(* Machine-checked proofs about TokenRefresh, for every set of fetches and *)
(* every bound.                                                            *)
(***************************************************************************)
EXTENDS TokenRefresh, TLAPS

-----------------------------------------------------------------------------
(* The inductive invariant, in parts. *)

(* loginMu is held by exactly the fetch that is inside ensureToken's login. *)
LockInv == \A f \in Fetchers : HoldsLock(f) <=> loginMu = f

(* HEP's session is the newest login or none, and no token is from the      *)
(* future.                                                                 *)
TokenInv ==
    /\ session \in {0, issued}
    /\ cache <= issued
    /\ \A f \in Fetchers : token[f] <= issued

(* An answer under way carries the newest token, which is not cached yet. *)
AnswerInv ==
    \A f \in Fetchers : pc[f] = "answered" => token[f] = issued /\ cache < issued

(* The token a fetch hands to ensureToken is empty or already dead. *)
StaleInv ==
    \A f \in Fetchers : pc[f] = "refresh" => token[f] = 0 \/ token[f] # session

(* Whoever is about to log in has seen that the cache holds no live token, *)
(* and holding loginMu keeps it so.                                        *)
LoginInv ==
    \A f \in Fetchers : pc[f] = "login" => cache = 0 \/ cache # session

(* One login for the live session, one for each that was lost. *)
CountInv ==
    /\ issued <= 1 + expiries + drops
    /\ ~Live => issued <= expiries + drops

IInv ==
    /\ TypeOK /\ LockInv /\ TokenInv /\ AnswerInv
    /\ CacheIsNewest /\ StaleInv /\ LoginInv /\ CountInv

-----------------------------------------------------------------------------
(* The initial state satisfies the inductive invariant. *)
LEMMA InitIInv == Init => IInv
  <1> USE NobodyAssumption, BoundsAssumption
  <1> SUFFICES ASSUME Init PROVE IInv
    OBVIOUS
  <1>1. TypeOK
    BY DEF Init, TypeOK, Steps
  <1>2. LockInv /\ TokenInv /\ AnswerInv /\ StaleInv /\ LoginInv
    BY DEF Init, LockInv, HoldsLock, TokenInv, AnswerInv, StaleInv, LoginInv
  <1>3. CacheIsNewest /\ CountInv
    BY DEF Init, CacheIsNewest, CountInv, Live
  <1> QED BY <1>1, <1>2, <1>3 DEF IInv

(* Typing stands alone: it needs no other part of the invariant.           *)
LEMMA NextTypeOK == ASSUME TypeOK, [Next]_vars PROVE TypeOK'
  <1> USE NobodyAssumption, BoundsAssumption DEF TypeOK, HoldsLock, Steps
  <1>1. ASSUME NEW f \in Fetchers, Begin(f) PROVE TypeOK'
    BY <1>1 DEF Begin, hepVars
  <1>2. ASSUME NEW f \in Fetchers,
               FetchOk(f) \/ FetchRejected(f) \/ RetryRejected(f) \/ FetchFails(f)
        PROVE  TypeOK'
    <2>1. CASE FetchOk(f) \/ RetryRejected(f) \/ FetchFails(f)
      <3>1. /\ Return(f) /\ pc[f] = "fetch"
            /\ UNCHANGED <<hepVars, cache, loginMu>>
        BY <2>1 DEF FetchOk, RetryRejected, FetchFails
      <3> QED BY <3>1 DEF Return, hepVars
    <2>2. CASE FetchRejected(f)
      BY <2>2 DEF FetchRejected, hepVars
    <2> QED BY <1>2, <2>1, <2>2
  <1>3. ASSUME NEW f \in Fetchers, ReuseToken(f) \/ BeginLogin(f) PROVE TypeOK'
    BY <1>3 DEF ReuseToken, BeginLogin, hepVars
  <1>4. ASSUME NEW f \in Fetchers, LoginAccepted(f) PROVE TypeOK'
    BY <1>4 DEF LoginAccepted, HepAccepts
  <1>5. ASSUME NEW f \in Fetchers, LoginRefused(f) \/ LoginAnswerLost(f)
        PROVE  TypeOK'
    <2>1. AbandonLogin(f) /\ UNCHANGED <<session, issued, expiries>>
      BY <1>5 DEF LoginRefused, LoginAnswerLost, hepVars
    <2>2. drops' \in 0..MaxDrops
      BY <1>5 DEF LoginRefused, LoginAnswerLost, hepVars
    <2> QED BY <2>1, <2>2 DEF AbandonLogin, Return
  <1>6. ASSUME NEW f \in Fetchers, LoginAnswered(f) \/ EndLogin(f) PROVE TypeOK'
    BY <1>6 DEF LoginAnswered, EndLogin, hepVars
  <1>7. CASE SessionEnds
    BY <1>7 DEF SessionEnds, fetchVars
  <1>8. CASE UNCHANGED vars
    BY <1>8 DEF vars, hepVars, fetchVars
  <1> QED
    BY <1>1, <1>2, <1>3, <1>4, <1>5, <1>6, <1>7, <1>8 DEF Next, FetcherStep,
       RequestStep, EnterEnsureToken, LoginStep

(* The other parts rest on each other; every step is taken once for all of  *)
(* them, and only the steps of a login disturb more than one or two.        *)
LEMMA NextIInv == ASSUME IInv, [Next]_vars PROVE IInv'
  <1> DEFINE Rest == /\ LockInv /\ TokenInv /\ AnswerInv /\ CacheIsNewest
                     /\ StaleInv /\ LoginInv /\ CountInv
  <1> USE NobodyAssumption, BoundsAssumption
      DEF TypeOK, LockInv, HoldsLock, TokenInv, AnswerInv, CacheIsNewest,
          StaleInv, LoginInv, CountInv, Live, hepVars, fetchVars
  <1>0. TypeOK /\ Rest
    BY DEF IInv
  <1>1. TypeOK'
    BY <1>0, NextTypeOK DEF IInv
  <1>2. ASSUME NEW f \in Fetchers, Begin(f) PROVE Rest'
    BY <1>0, <1>2 DEF Begin
  <1>3. ASSUME NEW f \in Fetchers, FetchOk(f) PROVE Rest'
    BY <1>0, <1>3 DEF FetchOk, Return
  <1>4. ASSUME NEW f \in Fetchers, FetchRejected(f) PROVE Rest'
    BY <1>0, <1>4 DEF FetchRejected
  <1>5. ASSUME NEW f \in Fetchers, RetryRejected(f) PROVE Rest'
    BY <1>0, <1>5 DEF RetryRejected, Return
  <1>6. ASSUME NEW f \in Fetchers, FetchFails(f) PROVE Rest'
    BY <1>0, <1>6 DEF FetchFails, Return
  <1>7. ASSUME NEW f \in Fetchers, ReuseToken(f) PROVE Rest'
    BY <1>0, <1>7 DEF ReuseToken
  <1>8. ASSUME NEW f \in Fetchers, BeginLogin(f) PROVE Rest'
    BY <1>0, <1>8 DEF BeginLogin
  <1>9. ASSUME NEW f \in Fetchers, LoginAccepted(f) PROVE Rest'
    <2> USE <1>0, <1>9 DEF LoginAccepted, HepAccepts
    <2>1. ~Live
      OBVIOUS
    <2>2. LockInv' /\ TokenInv' /\ AnswerInv' /\ CacheIsNewest'
      OBVIOUS
    <2>3. StaleInv' /\ LoginInv'
      OBVIOUS
    <2>4. CountInv'
      BY <2>1
    <2> QED BY <2>2, <2>3, <2>4
  <1>10. ASSUME NEW f \in Fetchers, LoginRefused(f) PROVE Rest'
    BY <1>0, <1>10 DEF LoginRefused, AbandonLogin, Return
  <1>11. ASSUME NEW f \in Fetchers, LoginAnswerLost(f) PROVE Rest'
    BY <1>0, <1>11 DEF LoginAnswerLost, AbandonLogin, Return
  <1>12. ASSUME NEW f \in Fetchers, LoginAnswered(f) PROVE Rest'
    BY <1>0, <1>12 DEF LoginAnswered
  <1>13. ASSUME NEW f \in Fetchers, EndLogin(f) PROVE Rest'
    BY <1>0, <1>13 DEF EndLogin
  <1>14. ASSUME SessionEnds PROVE Rest'
    BY <1>0, <1>14 DEF SessionEnds
  <1>15. ASSUME UNCHANGED vars PROVE Rest'
    BY <1>0, <1>15 DEF vars
  <1> HIDE DEF Rest
  <1>16. Rest'
    BY <1>2, <1>3, <1>4, <1>5, <1>6, <1>7, <1>8, <1>9, <1>10, <1>11, <1>12,
       <1>13, <1>14, <1>15 DEF Next, FetcherStep,
       RequestStep, EnterEnsureToken, LoginStep
  <1> QED BY <1>1, <1>16 DEF IInv, Rest

(* The invariant holds in every reachable state. *)
THEOREM Invariance == Spec => []IInv
  BY InitIInv, NextIInv, PTL DEF Spec

(* Every variable keeps its type. *)
THEOREM TypeCorrectness == Spec => []TypeOK
  <1>1. IInv => TypeOK
    BY DEF IInv
  <1> QED BY <1>1, Invariance, PTL

(* However many fetches meet a 401 at once, ensureToken logs in once for    *)
(* each session that is lost, and never besides.                           *)
THEOREM RefreshesCollapse == Spec => []LoginsAreJustified
  <1>1. IInv => LoginsAreJustified
    BY DEF IInv, CountInv, LoginsAreJustified
  <1> QED BY <1>1, Invariance, PTL

(* The token ensureToken hands out is never older than one a fetch holds. *)
THEOREM CacheNeverFallsBehind == Spec => []CacheIsNewest
  <1>1. IInv => CacheIsNewest
    BY DEF IInv
  <1> QED BY <1>1, Invariance, PTL

(* A login never replaces a session whose token sits in the cache: with     *)
(* every login behind ensureToken, the application does not invalidate a    *)
(* session it is still using.                                              *)
LoginSparesLiveSession ==
    [][issued' # issued => session = 0 \/ cache # session]_vars

(* A login under loginMu never ends a session whose token is still cached. *)
THEOREM LiveSessionIsSpared == Spec => LoginSparesLiveSession
  <1> DEFINE Spared == issued' # issued => session = 0 \/ cache # session
  <1>1. ASSUME IInv, [Next]_vars PROVE [Spared]_vars
    <2>1. ASSUME NEW f \in Fetchers, LoginAccepted(f) PROVE Spared
      BY <1>1, <2>1 DEF IInv, LoginInv, LoginAccepted
    <2>2. CASE ~\E f \in Fetchers : LoginAccepted(f)
      BY <1>1, <2>2 DEF Next, FetcherStep,
         RequestStep, EnterEnsureToken, LoginStep, vars, hepVars, Begin, FetchOk,
         FetchRejected, RetryRejected, FetchFails, ReuseToken, BeginLogin,
         LoginRefused, LoginAnswerLost, LoginAnswered, EndLogin, SessionEnds
    <2> QED BY <2>1, <2>2
  <1> QED BY <1>1, Invariance, PTL DEF Spec, LoginSparesLiveSession

(* A step of the fetches is a login, a loss or nothing to the abstract       *)
(* session. *)
LEMMA StepRefines ==
    ASSUME IInv, IInv', [Next]_vars
    PROVE  [Abstract!Next]_<<Live, issued, expiries + drops>>
  <1> DEFINE Step == [Abstract!Next]_<<Live, issued, expiries + drops>>
             Same == UNCHANGED <<Live, issued, expiries, drops>>
  <1> USE NobodyAssumption, BoundsAssumption
      DEF TypeOK, LockInv, HoldsLock, TokenInv, AnswerInv, LoginInv, hepVars, fetchVars
  <1>0. /\ TypeOK /\ LockInv /\ TokenInv /\ AnswerInv /\ LoginInv
        /\ TypeOK' /\ LockInv' /\ TokenInv' /\ AnswerInv'
    BY DEF IInv
  <1>1. Same => Step
    OBVIOUS
  <1>2. ASSUME NEW f \in Fetchers,
               Begin(f) \/ ReuseToken(f) \/ BeginLogin(f) \/ EndLogin(f) \/ FetchRejected(f)
        PROVE  Same
    BY <1>0, <1>2 DEF Begin, ReuseToken, BeginLogin, EndLogin, FetchRejected, Live
  <1>3. ASSUME NEW f \in Fetchers, FetchOk(f) \/ RetryRejected(f) \/ FetchFails(f)
        PROVE  Same
    BY <1>0, <1>3 DEF FetchOk, RetryRejected, FetchFails, Return, Live
  <1>4. ASSUME NEW f \in Fetchers, LoginAccepted(f) PROVE Step
    <2>1. ~Live
      BY <1>0, <1>4 DEF LoginAccepted, Live
    <2>2. Live' /\ issued' = issued + 1 /\ UNCHANGED <<expiries, drops>>
      BY <1>0, <1>4 DEF LoginAccepted, HepAccepts, Live
    <2> QED BY <2>1, <2>2 DEF Abstract!Next, Abstract!Login
  <1>5. ASSUME NEW f \in Fetchers, LoginRefused(f) PROVE Same
    <2>1. ~Live /\ ~Live'
      BY <1>0, <1>5 DEF LoginRefused, AbandonLogin, Return, Live
    <2> QED BY <1>5, <2>1 DEF LoginRefused, Live
  <1>6. ASSUME NEW f \in Fetchers, LoginAnswerLost(f) PROVE Step
    <2>1. ~Live'
      BY <1>0, <1>6 DEF LoginAnswerLost, AbandonLogin, Return, Live
    <2>2. UNCHANGED issued /\ expiries' + drops' = expiries + drops + 1
      BY <1>0, <1>6 DEF LoginAnswerLost
    <2> QED BY <2>1, <2>2 DEF Abstract!Next, Abstract!Lose
  <1>7. ASSUME NEW f \in Fetchers, LoginAnswered(f) PROVE Same
    <2>1. Live' <=> Live
      BY <1>0, <1>7 DEF LoginAnswered, Live
    <2> QED BY <1>7, <2>1 DEF LoginAnswered, Live
  <1>8. CASE SessionEnds
    <2>1. ~Live'
      BY <1>8 DEF SessionEnds, Live
    <2>2. UNCHANGED issued /\ expiries' + drops' = expiries + drops + 1
      BY <1>0, <1>8 DEF SessionEnds
    <2> QED BY <2>1, <2>2 DEF Abstract!Next, Abstract!Lose
  <1>9. CASE UNCHANGED vars
    BY <1>9 DEF vars, Live
  <1> HIDE DEF Step, Same
  <1> QED
    BY <1>1, <1>2, <1>3, <1>4, <1>5, <1>6, <1>7, <1>8, <1>9 DEF Next, FetcherStep,
       RequestStep, EnterEnsureToken, LoginStep, Step

(* For any number of fetches, ensureToken and login implement the abstract   *)
(* session. *)
THEOREM ImplementsSession == Spec => KeepsOneSession
  <1>1. Init => Abstract!Init
    BY DEF Init, Abstract!Init, Live
  <1>2. IInv /\ IInv' /\ [Next]_vars => [Abstract!Next]_<<Live, issued, expiries + drops>>
    BY StepRefines
  <1> QED BY <1>1, <1>2, Invariance, PTL DEF Spec, Abstract!Spec, KeepsOneSession
=============================================================================
