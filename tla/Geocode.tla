------------------------------- MODULE Geocode -------------------------------
(***************************************************************************)
(* The coordinates of one metering point (geocoder.go 45-263, worker.go    *)
(* 369-387). Every login ends with geocodePointIfNeeded; logins overlap.   *)
(* The back-off after a failure lives in memory, the location in the       *)
(* database. The rate limiter, which only spaces requests, is left out.    *)
(***************************************************************************)
EXTENDS Integers, FiniteSets

CONSTANTS
    Logins,         \* logins that may be at work at a time
    PostalCode,     \* the address begins with a postal code
    MaxFaults       \* bound on failed statements and restarts

ASSUME GeocodeAssumption ==
    IsFiniteSet(Logins) /\ MaxFaults \in Nat /\ PostalCode \in BOOLEAN

VARIABLES
    located,    \* metering_points has coordinates
    backoff,    \* failures in a row, the last one less than GeocodingBackoff ago
    call,       \* geocodePointIfNeeded of each login
    faults
geoVars == <<located, backoff, call, faults>>

Idle == [pc |-> "idle"]

\* Photon, Nominatim by the postal code if there is one, Nominatim by the whole address.
Strategies == IF PostalCode THEN 3 ELSE 2

GeoInit ==
    /\ located = FALSE
    /\ backoff = 0
    /\ call = [l \in Logins |-> Idle]
    /\ faults = 0

Goto(l, step) == call' = [call EXCEPT ![l] = step]

\* Mutant: the point is replaced.
UpsertReplacing == located' = FALSE

\* UpsertMeteringPoint names the columns it updates; the coordinates are not among them.
Upsert == UNCHANGED located

\* Mutant: the back-off is not looked at.
LogInHasty(l) ==
    /\ call[l] = Idle
    /\ Upsert
    /\ Goto(l, [pc |-> "check"])
    /\ UNCHANGED <<backoff, faults>>

\* A login has been answered: upsert the point, and look at the back-off.
LogIn(l) ==
    /\ call[l] = Idle
    /\ Upsert
    /\ Goto(l, IF backoff = 0 THEN [pc |-> "check"] ELSE Idle)
    /\ UNCHANGED <<backoff, faults>>

Check(l) ==
    /\ call[l].pc = "check"
    /\ Goto(l, IF located THEN Idle ELSE [pc |-> "ask", left |-> Strategies])
    /\ UNCHANGED <<located, backoff, faults>>

CheckFails(l) ==
    /\ call[l].pc = "check"
    /\ faults < MaxFaults
    /\ faults' = faults + 1
    /\ Goto(l, Idle)
    /\ UNCHANGED <<located, backoff>>

AskFinds(l) ==
    /\ call[l].pc = "ask"
    /\ Goto(l, [pc |-> "found"])
    /\ UNCHANGED <<located, backoff, faults>>

\* No result, an error, or an answer that cannot be read.
AskFails(l) ==
    /\ call[l].pc = "ask"
    /\ Goto(l, IF call[l].left = 1 THEN [pc |-> "failed"]
               ELSE [pc |-> "ask", left |-> call[l].left - 1])
    /\ UNCHANGED <<located, backoff, faults>>

GiveUp(l) ==
    /\ call[l].pc = "failed"
    /\ backoff' = backoff + 1
    /\ Goto(l, Idle)
    /\ UNCHANGED <<located, faults>>

ForgetFailure(l) ==
    /\ call[l].pc = "found"
    /\ backoff' = 0
    /\ Goto(l, [pc |-> "save"])
    /\ UNCHANGED <<located, faults>>

\* UpdateMeteringPointLocation
Save(l) ==
    /\ call[l].pc = "save"
    /\ located' = TRUE
    /\ Goto(l, Idle)
    /\ UNCHANGED <<backoff, faults>>

SaveFails(l) ==
    /\ call[l].pc = "save"
    /\ faults < MaxFaults
    /\ faults' = faults + 1
    /\ Goto(l, Idle)
    /\ UNCHANGED <<located, backoff>>

\* Mutant: an entry stays until a success deletes it.
BackoffStays == FALSE /\ UNCHANGED geoVars

\* GeocodingBackoff after the last failure its entry no longer counts.
BackoffPasses ==
    /\ backoff # 0
    /\ backoff' = 0
    /\ UNCHANGED <<located, call, faults>>

Restart ==
    /\ faults < MaxFaults
    /\ faults' = faults + 1
    /\ backoff' = 0
    /\ call' = [l \in Logins |-> Idle]
    /\ UNCHANGED located

LoginStep(l) ==
    \/ LogIn(l) \/ Check(l) \/ CheckFails(l) \/ AskFinds(l) \/ AskFails(l)
    \/ GiveUp(l) \/ ForgetFailure(l) \/ Save(l) \/ SaveFails(l)

-----------------------------------------------------------------------------
GeoTypeOK ==
    /\ located \in BOOLEAN
    /\ backoff \in Nat
    /\ \A l \in Logins : call[l].pc \in {"idle", "check", "ask", "found", "failed", "save"}
    /\ faults \in 0 .. MaxFaults

\* Whatever the logins that overlap, a point that cannot be found is asked for
\* at most once by each of them before a whole back-off has passed.
FailuresArePaced == backoff <= Cardinality(Logins)

\* Coordinates are found once and kept: the upsert at every later login, a
\* failed second search and a restart leave the point located.
LocationIsKept == [][located => located']_geoVars
=============================================================================
