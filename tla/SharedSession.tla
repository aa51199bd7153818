---------------------------- MODULE SharedSession ---------------------------
(***************************************************************************)
(* The whole use the program makes of the one HEP session: the month        *)
(* fetches of TokenRefresh, the collection runs that start them (the        *)
(* scheduled worker and the manual-fetch worker of app/worker.go run        *)
(* concurrently) and the connection test of app/handlers.go.  Runs and      *)
(* connection tests log in directly, not through ensureToken.               *)
(***************************************************************************)
EXTENDS TokenRefresh, FiniteSets

CONSTANTS
    Runs,           \* concurrent calls of runCollection
    RunOf,          \* the run a month fetch belongs to
    Tests,          \* requests of POST /api/hep-test
    MaxRefusals,    \* bound: logins HEP refuses or never sees
    MaxTests,       \* bound: connection tests that begin
    MaxUnsaved,     \* bound: direct logins begun up to which a save may fail
    MaxDisturbances \* bound: expiries, drops and refusals together

ASSUME RunOfAssumption == RunOf \in [Fetchers -> Runs]
ASSUME MoreBoundsAssumption ==
    /\ MaxRefusals \in Nat /\ MaxTests \in Nat
    /\ MaxUnsaved \in Nat /\ MaxDisturbances \in Nat

Callers == Runs \cup Tests

VARIABLES
    pointsKnown,    \* whether metering_points has a row
    callPc,         \* where each run and connection test stands
    answer,         \* the token in the login answer of a run or test
    refusals,       \* logins refused so far
    tests,          \* connection tests begun so far
    directs,        \* logins begun outside ensureToken so far
    undisturbed     \* fetches nothing has come in the way of (history)

callVars   == <<pointsKnown, callPc, answer, refusals, tests, directs>>
sharedVars == <<vars, callVars, undisturbed>>

CallSteps == {"idle", "login", "answered", "saving", "collecting"}

FetchersOf(r) == {f \in Fetchers : RunOf[f] = r}

SharedTypeOK ==
    /\ TypeOK
    /\ pointsKnown \in BOOLEAN
    /\ callPc \in [Callers -> CallSteps]
    /\ answer \in [Callers -> Nat]
    /\ refusals \in 0..MaxRefusals /\ tests \in 0..MaxTests
    /\ directs \in Nat /\ undisturbed \subseteq Fetchers
    /\ \A f \in Fetchers : pc[f] # "idle" => callPc[RunOf[f]] = "collecting"

SharedInit ==
    /\ Init
    /\ pointsKnown = FALSE
    /\ callPc = [c \in Callers |-> "idle"]
    /\ answer = [c \in Callers |-> 0]
    /\ refusals = 0 /\ tests = 0 /\ directs = 0
    /\ undisturbed = {}

(* HEP has not disturbed the program as often as the bound allows. *)
MayDisturb == expiries + drops + refusals < MaxDisturbances

Goto(c, step) == callPc' = [callPc EXCEPT ![c] = step]

-----------------------------------------------------------------------------
(* runCollection *)

(* Nothing cached, or no metering point known yet: the run logs in before   *)
(* it collects.  (loginMu is not involved.)                                 *)
StartWithLogin(r) ==
    /\ callPc[r] = "idle"
    /\ cache = 0 \/ ~pointsKnown
    /\ directs' = directs + 1
    /\ Goto(r, "login")
    /\ UNCHANGED <<vars, pointsKnown, answer, refusals, tests>>

(* A token is cached: straight to the month fetches. *)
StartWithToken(r) ==
    /\ callPc[r] = "idle"
    /\ cache # 0 /\ pointsKnown
    /\ Goto(r, "collecting")
    /\ UNCHANGED <<vars, pointsKnown, answer, refusals, tests, directs>>

(* The rest of login: the metering points of the answer are stored.  Upserts    *)
(* that fail are only logged; with no point known the run has no targets and  *)
(* returns.                                                                *)
SavePoints(r) ==
    /\ callPc[r] = "saving"
    /\ \/ pointsKnown' = TRUE
       \/ directs <= MaxUnsaved /\ UNCHANGED pointsKnown
    /\ Goto(r, IF pointsKnown' THEN "collecting" ELSE "idle")
    /\ UNCHANGED <<vars, answer, refusals, tests, directs>>

(* Mutant: the run does not wait for its month fetches. *)
EndRunEarly(r) ==
    /\ callPc[r] = "collecting"
    /\ Goto(r, "idle")
    /\ UNCHANGED <<vars, pointsKnown, answer, refusals, tests, directs>>

(* All month fetches of the run have returned. *)
EndRun(r) ==
    /\ callPc[r] = "collecting"
    /\ \A f \in FetchersOf(r) : pc[f] = "idle"
    /\ Goto(r, "idle")
    /\ UNCHANGED <<vars, pointsKnown, answer, refusals, tests, directs>>

-----------------------------------------------------------------------------
(* handleHepTest *)
StartTest(t) ==
    /\ callPc[t] = "idle" /\ tests < MaxTests
    /\ tests' = tests + 1
    /\ directs' = directs + 1
    /\ Goto(t, "login")
    /\ UNCHANGED <<vars, pointsKnown, answer, refusals>>

-----------------------------------------------------------------------------
(* The direct logins *)

DirectAccepted(c) ==
    /\ callPc[c] = "login"
    /\ HepAccepts
    /\ answer' = [answer EXCEPT ![c] = issued + 1]
    /\ Goto(c, "answered")
    /\ UNCHANGED <<cache, loginMu, fetchVars, pointsKnown, refusals, tests, directs>>

(* A failed login clears the cache, whatever it holds by then; the          *)
(* connection test only reports the error.                                  *)
FailCall(c) ==
    /\ cache' = IF c \in Runs THEN 0 ELSE cache
    /\ Goto(c, "idle")
    /\ UNCHANGED <<loginMu, fetchVars, pointsKnown, tests, directs>>

DirectRefused(c) ==
    /\ callPc[c] = "login" /\ refusals < MaxRefusals /\ MayDisturb
    /\ refusals' = refusals + 1
    /\ FailCall(c)
    /\ UNCHANGED <<hepVars, answer>>

DirectAnswerLost(c) ==
    /\ callPc[c] = "answered" /\ drops < MaxDrops /\ MayDisturb
    /\ drops' = drops + 1
    /\ answer' = [answer EXCEPT ![c] = 0]
    /\ FailCall(c)
    /\ UNCHANGED <<session, issued, expiries, refusals>>

(* cache.Set; a connection test is over with it. *)
DirectAnswered(c) ==
    /\ callPc[c] = "answered"
    /\ cache' = answer[c]
    /\ answer' = [answer EXCEPT ![c] = 0]
    /\ Goto(c, IF c \in Runs THEN "saving" ELSE "idle")
    /\ UNCHANGED <<hepVars, loginMu, fetchVars, pointsKnown, refusals, tests, directs>>

DirectLoginStep(c) ==
    \/ DirectAccepted(c) \/ DirectRefused(c)
    \/ DirectAnswerLost(c) \/ DirectAnswered(c)

-----------------------------------------------------------------------------
(* A month fetch of a collecting run begins. *)
BeginFetch(f) ==
    /\ callPc[RunOf[f]] = "collecting"
    /\ Begin(f)
    /\ UNCHANGED callVars

FetchStep(f) ==
    \/ /\ RequestStep(f) \/ EnterEnsureToken(f) \/ LoginStep(f)
       /\ drops' # drops => MayDisturb
       /\ UNCHANGED callVars
    \/ /\ LoginRefused(f) /\ refusals < MaxRefusals /\ MayDisturb
       /\ refusals' = refusals + 1
       /\ UNCHANGED <<pointsKnown, callPc, answer, tests, directs>>

RunStep(r) == SavePoints(r) \/ EndRun(r) \/ DirectLoginStep(r)

SharedStep ==
    \/ \E r \in Runs : StartWithLogin(r) \/ StartWithToken(r) \/ RunStep(r)
    \/ \E t \in Tests : StartTest(t) \/ DirectLoginStep(t)
    \/ \E f \in Fetchers : BeginFetch(f) \/ FetchStep(f)
    \/ SessionEnds /\ MayDisturb /\ UNCHANGED callVars

-----------------------------------------------------------------------------
(* History: which fetches run undisturbed. *)

(* HEP ends the session, an answer is lost, a login is refused, or HEP accepts *)
(* a login that goes round ensureToken.                                     *)
Disturbance ==
    \/ <<expiries, drops, refusals>>' # <<expiries, drops, refusals>>
    \/ \E c \in Callers : callPc'[c] = "answered" /\ callPc[c] # "answered"

(* No answer that is still on its way brings a token HEP may have replaced. *)
AnswersAreGood ==
    /\ \A f \in Fetchers : pc[f] = "answered" => token[f] = session
    /\ \A c \in Callers : callPc[c] # "answered"

Watch ==
    undisturbed' =
        {f \in Fetchers :
            /\ pc'[f] # "idle" /\ ~Disturbance
            /\ f \in undisturbed \/ (pc[f] = "idle" /\ AnswersAreGood)}

SharedNext == SharedStep /\ Watch

SharedSpec == SharedInit /\ [][SharedNext]_sharedVars

-----------------------------------------------------------------------------
(* Properties *)

(* One retry is enough: a month fails with a second 401 only if, while it was  *)
(* fetched, HEP disturbed the session or somebody logged in past loginMu (or   *)
(* the answer of such a login was still on its way when it began).  However     *)
(* many fetches meet the 401 at once, whoever refreshes the token, and         *)
(* whatever dead token the cache held, the token ensureToken hands out is the   *)
(* one HEP accepts, and it stays so until the retry (worker.go 343-352,         *)
(* 600-611).                                                               *)
RetriesAreAccepted ==
    \A f \in undisturbed :
        pc[f] = "fetch" /\ retried[f] => token[f] = session

(* Runs and tests do not keep invalidating each other's session: a login    *)
(* that goes round ensureToken costs at most itself and two refreshes (one  *)
(* for the session it replaces, one for the dead token its late answer puts *)
(* into the cache), and every other login answers a session that was lost   *)
(* to the outside.                                                         *)
LoginsAreBounded == issued <= expiries + drops + 3 * directs
=============================================================================
