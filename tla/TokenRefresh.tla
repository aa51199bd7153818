---------------------------- MODULE TokenRefresh ----------------------------
(***************************************************************************)
(* The token cache of app/worker.go and the month fetches that share it.   *)
(*                                                                         *)
(* HEP keeps one active session per account: a login replaces the session  *)
(* before it.  Each month fetch (fetchAndStoreReadings) reads the cached    *)
(* token, asks HEP with it, and on a 401 goes through ensureToken, which    *)
(* holds loginMu while it decides whether somebody else already refreshed   *)
(* the token or a login is due; the request is then retried once.           *)
(*                                                                         *)
(* Tokens are numbered in the order in which HEP issues them; 0 stands for  *)
(* the empty token.  The logins that go round ensureToken are added by      *)
(* SharedSession.                                                          *)
(***************************************************************************)
EXTENDS Naturals

CONSTANTS
    Fetchers,       \* the goroutines running fetchAndStoreReadings
    Nobody,         \* the holder of a free loginMu
    MaxExpiries,    \* bound: times HEP ends the session of its own accord
    MaxDrops        \* bound: accepted logins whose answer never arrives

ASSUME NobodyAssumption == Nobody \notin Fetchers
ASSUME BoundsAssumption == MaxExpiries \in Nat /\ MaxDrops \in Nat

VARIABLES
    session,    \* the token HEP accepts now, 0 when there is none (external)
    issued,     \* how many logins HEP has accepted (external)
    cache,      \* tokenCache.token
    loginMu,    \* the goroutine holding tokenCache.loginMu, or Nobody
    pc,         \* where each fetch stands
    token,      \* the fetch's own copy of the token; in ensureToken, "stale"
    retried,    \* whether the fetch has already used up its one retry
    expiries,   \* how often HEP has ended a session of its own accord
    drops       \* how many accepted logins were never answered

hepVars   == <<session, issued, expiries, drops>>
fetchVars == <<pc, token, retried>>
vars      == <<hepVars, cache, loginMu, fetchVars>>

Steps    == {"idle", "fetch", "refresh", "login", "answered", "saving"}

(* In ensureToken, with loginMu held. *)
HoldsLock(f) == pc[f] \in {"login", "answered", "saving"}

TypeOK ==
    /\ session \in Nat /\ issued \in Nat /\ cache \in Nat
    /\ expiries \in 0..MaxExpiries /\ drops \in 0..MaxDrops
    /\ loginMu \in Fetchers \cup {Nobody}
    /\ pc \in [Fetchers -> Steps]
    /\ token \in [Fetchers -> Nat]
    /\ retried \in [Fetchers -> BOOLEAN]
    /\ loginMu # Nobody => HoldsLock(loginMu)

Init ==
    /\ session = 0 /\ issued = 0 /\ cache = 0
    /\ expiries = 0 /\ drops = 0
    /\ loginMu = Nobody
    /\ pc = [f \in Fetchers |-> "idle"]
    /\ token = [f \in Fetchers |-> 0]
    /\ retried = [f \in Fetchers |-> FALSE]

-----------------------------------------------------------------------------
(* fetchAndStoreReadings *)

(* The call begins: the cached token is copied; an empty cache means        *)
(* ensureToken("") before the first request.                                *)
Begin(f) ==
    /\ pc[f] = "idle"
    /\ token' = [token EXCEPT ![f] = cache]
    /\ retried' = [retried EXCEPT ![f] = FALSE]
    /\ pc' = [pc EXCEPT ![f] = IF cache # 0 THEN "fetch" ELSE "refresh"]
    /\ UNCHANGED <<hepVars, cache, loginMu>>

(* The call returns and its local variables are gone. *)
Return(f) ==
    /\ pc' = [pc EXCEPT ![f] = "idle"]
    /\ token' = [token EXCEPT ![f] = 0]
    /\ retried' = [retried EXCEPT ![f] = FALSE]

(* HEP accepts the token: readings, or the answer that there are none. *)
FetchOk(f) ==
    /\ pc[f] = "fetch"
    /\ token[f] = session
    /\ Return(f)
    /\ UNCHANGED <<hepVars, cache, loginMu>>

(* HEP rejects the token and the retry is still to be had: ensureToken with *)
(* the rejected token as "stale".                                          *)
FetchRejected(f) ==
    /\ pc[f] = "fetch" /\ ~retried[f]
    /\ token[f] # session
    /\ retried' = [retried EXCEPT ![f] = TRUE]
    /\ pc' = [pc EXCEPT ![f] = "refresh"]
    /\ UNCHANGED <<hepVars, cache, loginMu, token>>

(* HEP rejects the retried request as well: the error is returned. *)
RetryRejected(f) ==
    /\ pc[f] = "fetch" /\ retried[f]
    /\ token[f] # session
    /\ Return(f)
    /\ UNCHANGED <<hepVars, cache, loginMu>>

(* Any other failure of the request: no connection, a 5xx, a bad body. *)
FetchFails(f) ==
    /\ pc[f] = "fetch"
    /\ Return(f)
    /\ UNCHANGED <<hepVars, cache, loginMu>>

-----------------------------------------------------------------------------
(* ensureToken and login, under loginMu *)

(* Mutant: the cached token is taken without comparing it with "stale". *)
ReuseAnyToken(f) ==
    /\ pc[f] = "refresh" /\ loginMu = Nobody
    /\ cache # 0
    /\ token' = [token EXCEPT ![f] = cache]
    /\ pc' = [pc EXCEPT ![f] = "fetch"]
    /\ UNCHANGED <<hepVars, cache, loginMu, retried>>

(* Somebody has replaced the token already: take that one, log in nowhere. *)
ReuseToken(f) ==
    /\ pc[f] = "refresh" /\ loginMu = Nobody
    /\ cache # 0 /\ cache # token[f]
    /\ token' = [token EXCEPT ![f] = cache]
    /\ pc' = [pc EXCEPT ![f] = "fetch"]
    /\ UNCHANGED <<hepVars, cache, loginMu, retried>>

(* Mutant: the cache is not looked at again once loginMu is held. *)
BeginLoginUnchecked(f) ==
    /\ pc[f] = "refresh" /\ loginMu = Nobody
    /\ loginMu' = f
    /\ pc' = [pc EXCEPT ![f] = "login"]
    /\ UNCHANGED <<hepVars, cache, token, retried>>

(* Mutant: no loginMu. *)
BeginLoginUnlocked(f) ==
    /\ pc[f] = "refresh"
    /\ cache = 0 \/ cache = token[f]
    /\ loginMu' = f
    /\ pc' = [pc EXCEPT ![f] = "login"]
    /\ UNCHANGED <<hepVars, cache, token, retried>>

(* The cache is empty or holds the rejected token: log in, keeping loginMu. *)
BeginLogin(f) ==
    /\ pc[f] = "refresh" /\ loginMu = Nobody
    /\ cache = 0 \/ cache = token[f]
    /\ loginMu' = f
    /\ pc' = [pc EXCEPT ![f] = "login"]
    /\ UNCHANGED <<hepVars, cache, token, retried>>

(* HEP's side of a login: a new session in place of whatever was there. *)
HepAccepts ==
    /\ issued' = issued + 1
    /\ session' = issued + 1
    /\ UNCHANGED <<expiries, drops>>

LoginAccepted(f) ==
    /\ pc[f] = "login"
    /\ HepAccepts
    /\ token' = [token EXCEPT ![f] = issued + 1]
    /\ pc' = [pc EXCEPT ![f] = "answered"]
    /\ UNCHANGED <<cache, loginMu, retried>>

(* Mutant: the error path returns without unlocking. *)
AbandonLoginLocked(f) ==
    /\ cache' = 0
    /\ Return(f)
    /\ UNCHANGED loginMu

(* The error path of login: the cached token is dropped and the deferred    *)
(* unlock runs.                                                            *)
AbandonLogin(f) ==
    /\ cache' = 0
    /\ loginMu' = Nobody
    /\ Return(f)

(* Mutant: a refused login is tried again and again. *)
LoginRefusedRetried(f) ==
    /\ pc[f] = "login"
    /\ cache' = 0
    /\ loginMu' = Nobody
    /\ pc' = [pc EXCEPT ![f] = "refresh"]
    /\ UNCHANGED <<hepVars, token, retried>>

(* HEP refuses the login, or it never reaches HEP. *)
LoginRefused(f) ==
    /\ pc[f] = "login"
    /\ AbandonLogin(f)
    /\ UNCHANGED hepVars

(* HEP accepted, but the client never sees the token: the 30 s timeout, a   *)
(* body that does not decode, a missing cookie.                            *)
LoginAnswerLost(f) ==
    /\ pc[f] = "answered"
    /\ drops < MaxDrops
    /\ drops' = drops + 1
    /\ AbandonLogin(f)
    /\ UNCHANGED <<session, issued, expiries>>

(* Mutant: the new token is used, but not cached. *)
LoginAnsweredUncached(f) ==
    /\ pc[f] = "answered"
    /\ pc' = [pc EXCEPT ![f] = "saving"]
    /\ UNCHANGED <<hepVars, cache, loginMu, token, retried>>

(* cache.Set *)
LoginAnswered(f) ==
    /\ pc[f] = "answered"
    /\ cache' = token[f]
    /\ pc' = [pc EXCEPT ![f] = "saving"]
    /\ UNCHANGED <<hepVars, loginMu, token, retried>>

(* The metering points of the answer are stored and geocoded with loginMu   *)
(* still held; then ensureToken returns.                                    *)
EndLogin(f) ==
    /\ pc[f] = "saving"
    /\ loginMu' = Nobody
    /\ pc' = [pc EXCEPT ![f] = "fetch"]
    /\ UNCHANGED <<hepVars, cache, token, retried>>

-----------------------------------------------------------------------------
(* External: the JWT expires, or another device or a browser logs in. *)
SessionEnds ==
    /\ session # 0 /\ expiries < MaxExpiries
    /\ session' = 0
    /\ expiries' = expiries + 1
    /\ UNCHANGED <<issued, drops, cache, loginMu, fetchVars>>

RequestStep(f) ==
    FetchOk(f) \/ FetchRejected(f) \/ RetryRejected(f) \/ FetchFails(f)

EnterEnsureToken(f) == ReuseToken(f) \/ BeginLogin(f)

LoginStep(f) ==
    LoginAccepted(f) \/ LoginAnswerLost(f) \/ LoginAnswered(f) \/ EndLogin(f)

FetcherStep(f) ==
    RequestStep(f) \/ EnterEnsureToken(f) \/ LoginStep(f) \/ LoginRefused(f)

Next ==
    \/ \E f \in Fetchers : Begin(f) \/ FetcherStep(f)
    \/ SessionEnds

(* Every request is answered or times out after 30 s, so a fetch that has   *)
(* begun takes its next step.  Go's mutex hands over to the longest waiter  *)
(* once one has waited a millisecond, so a waiter that finds loginMu free    *)
(* again and again gets it: strong fairness of the two steps that take it.   *)
Fairness ==
    \A f \in Fetchers :
        /\ WF_vars(FetcherStep(f))
        /\ SF_vars(EnterEnsureToken(f))

Spec == Init /\ [][Next]_vars

FairSpec == Spec /\ Fairness

-----------------------------------------------------------------------------
(* Properties *)

(* Concurrent refreshes collapse into one login: beyond the first, every    *)
(* login HEP accepts answers a session that ended or an answer that was     *)
(* lost, however many fetches hit the 401 at the same time.                 *)
LoginsAreJustified == issued <= 1 + expiries + drops

(* A fetch never overtakes the cache: a token copied before a refresh is    *)
(* older than the cached one, so handing out the cached token is never a    *)
(* step back to an invalidated session.                                    *)
CacheIsNewest ==
    \A f \in Fetchers : cache # 0 /\ pc[f] # "answered" => token[f] <= cache

(* The application has, or is about to be handed, the token HEP accepts. *)
Live ==
    /\ session # 0
    /\ \/ cache = session
       \/ \E f \in Fetchers : pc[f] = "answered" /\ token[f] = session

(* The fetches, the cache and loginMu together implement the abstract       *)
(* session: a session that is lost is lost by HEP or the network, never by  *)
(* a fetch that clears or overwrites the cache, and only then there is a    *)
(* login (worker.go 29-32, 343-352).                                        *)
Abstract == INSTANCE Session
    WITH held <- Live, logins <- issued, losses <- expiries + drops

KeepsOneSession == Abstract!Spec

(* A fetch that waits for a token gets through ensureToken and returns: a   *)
(* refused login, a lost answer or a crowd of waiters never leaves loginMu   *)
(* taken.                                                                  *)
FetchesReturn ==
    \A f \in Fetchers : pc[f] = "refresh" ~> pc[f] = "idle"
=============================================================================
