----------------------------- MODULE ManualFetch -----------------------------
(***************************************************************************)
(* A fetch the user asks for: handleForceFetch of app/handlers.go puts a     *)
(* request on manualFetchCh, StartManualFetchWorker of app/worker.go starts  *)
(* a collection for it, and the outcome comes back on the request's own      *)
(* channel, whether or not anybody still waits for it.  What the collection  *)
(* does is the subject of Collection; here it ends well or fails.           *)
(***************************************************************************)
EXTENDS Naturals, Sequences

CONSTANTS
    Requests,   \* POST /api/fetch/now, each request once
    QueueSize   \* capacity of manualFetchCh

ASSUME QueueAssumption == QueueSize \in Nat

VARIABLES
    configured, \* the HEP credentials are set
    stopping,   \* the shutdown signal has arrived
    consumer,   \* StartManualFetchWorker is in its loop
    queue,      \* manualFetchCh
    handler,    \* where each handler stands
    client,     \* whether the client still waits
    reply,      \* the status sent to the client
    run,        \* where the collection of each request stands
    outcome,    \* what the collection returned
    resultCh,   \* the request's channel, of capacity one
    fetchError  \* FetchState.lastErr is set

vars == <<configured, stopping, consumer, queue, handler, client, reply,
          run, outcome, resultCh, fetchError>>

Outcomes == {"ok", "error"}

TypeOK ==
    /\ configured \in BOOLEAN /\ stopping \in BOOLEAN
    /\ consumer \in {"up", "down"}
    /\ queue \in Seq(Requests) /\ Len(queue) <= QueueSize
    /\ handler \in [Requests -> {"none", "waiting", "returned"}]
    /\ client \in [Requests -> {"there", "gone"}]
    /\ reply \in [Requests -> {0, 200, 400, 429, 502, 504}]
    /\ run \in [Requests -> {"none", "collecting", "reporting", "sending", "over"}]
    /\ outcome \in [Requests -> Outcomes \cup {"none"}]
    /\ resultCh \in [Requests -> Outcomes \cup {"empty"}]
    /\ fetchError \in BOOLEAN

Init ==
    /\ configured \in BOOLEAN /\ stopping = FALSE
    /\ consumer = "up" /\ queue = <<>>
    /\ handler = [r \in Requests |-> "none"]
    /\ client = [r \in Requests |-> "there"]
    /\ reply = [r \in Requests |-> 0]
    /\ run = [r \in Requests |-> "none"]
    /\ outcome = [r \in Requests |-> "none"]
    /\ resultCh = [r \in Requests |-> "empty"]
    /\ fetchError = FALSE

-----------------------------------------------------------------------------
(* handleForceFetch *)

Respond(r, status) ==
    /\ reply' = [reply EXCEPT ![r] = status]
    /\ handler' = [handler EXCEPT ![r] = "returned"]

NotConfigured(r) ==
    /\ handler[r] = "none" /\ ~configured
    /\ Respond(r, 400)
    /\ UNCHANGED <<configured, stopping, consumer, queue, client, run, outcome,
                   resultCh, fetchError>>

(* Mutant: the queue takes every request. *)
SubmitUnbounded(r) ==
    /\ handler[r] = "none" /\ configured
    /\ queue' = Append(queue, r)
    /\ handler' = [handler EXCEPT ![r] = "waiting"]
    /\ UNCHANGED <<configured, stopping, consumer, client, reply, run, outcome,
                   resultCh, fetchError>>

Submit(r) ==
    /\ handler[r] = "none" /\ configured
    /\ Len(queue) < QueueSize
    /\ queue' = Append(queue, r)
    /\ handler' = [handler EXCEPT ![r] = "waiting"]
    /\ UNCHANGED <<configured, stopping, consumer, client, reply, run, outcome,
                   resultCh, fetchError>>

(* The queue is full: the select falls through to its default. *)
TooMany(r) ==
    /\ handler[r] = "none" /\ configured
    /\ Len(queue) = QueueSize
    /\ Respond(r, 429)
    /\ UNCHANGED <<configured, stopping, consumer, queue, client, run, outcome,
                   resultCh, fetchError>>

Answer(r) ==
    /\ handler[r] = "waiting" /\ resultCh[r] # "empty"
    /\ Respond(r, IF resultCh[r] = "ok" THEN 200 ELSE 502)
    /\ resultCh' = [resultCh EXCEPT ![r] = "empty"]
    /\ UNCHANGED <<configured, stopping, consumer, queue, client, run, outcome,
                   fetchError>>

(* The request's context is done; with an outcome there as well the select   *)
(* takes either.                                                            *)
GiveUp(r) ==
    /\ handler[r] = "waiting" /\ client[r] = "gone"
    /\ Respond(r, 504)
    /\ UNCHANGED <<configured, stopping, consumer, queue, client, run, outcome,
                   resultCh, fetchError>>

-----------------------------------------------------------------------------
(* StartManualFetchWorker *)

(* Taken from the queue, also when the shutdown signal is there as well: the  *)
(* collection runs in a goroutine of its own.                               *)
Take ==
    /\ consumer = "up" /\ queue # <<>>
    /\ queue' = Tail(queue)
    /\ run' = [run EXCEPT ![Head(queue)] = "collecting"]
    /\ UNCHANGED <<configured, stopping, consumer, handler, client, reply, outcome,
                   resultCh, fetchError>>

StopConsumer ==
    /\ consumer = "up" /\ stopping
    /\ consumer' = "down"
    /\ UNCHANGED <<configured, stopping, queue, handler, client, reply, run, outcome,
                   resultCh, fetchError>>

(* runCollection returns; after the shutdown signal its context is cancelled, *)
(* yet the last step may still succeed.                                      *)
CollectionEnds(r) ==
    /\ run[r] = "collecting"
    /\ \E o \in Outcomes : outcome' = [outcome EXCEPT ![r] = o]
    /\ run' = [run EXCEPT ![r] = "reporting"]
    /\ UNCHANGED <<configured, stopping, consumer, queue, handler, client, reply,
                   resultCh, fetchError>>

(* Mutant: a failed collection is logged and not sent back. *)
ReportOnly(r) ==
    /\ run[r] = "reporting"
    /\ fetchError' = (outcome[r] = "error")
    /\ run' = [run EXCEPT ![r] = IF outcome[r] = "error" THEN "over" ELSE "sending"]
    /\ UNCHANGED <<configured, stopping, consumer, queue, handler, client, reply,
                   outcome, resultCh>>

(* FetchState.Set *)
Report(r) ==
    /\ run[r] = "reporting"
    /\ fetchError' = (outcome[r] = "error")
    /\ run' = [run EXCEPT ![r] = "sending"]
    /\ UNCHANGED <<configured, stopping, consumer, queue, handler, client, reply,
                   outcome, resultCh>>

(* Mutant: one channel for all requests, read by whoever waits. *)
SendToAnyone(r) ==
    /\ run[r] = "sending"
    /\ \E q \in Requests :
          /\ resultCh[q] = "empty"
          /\ resultCh' = [resultCh EXCEPT ![q] = outcome[r]]
    /\ run' = [run EXCEPT ![r] = "over"]
    /\ UNCHANGED <<configured, stopping, consumer, queue, handler, client, reply,
                   outcome, fetchError>>

(* Mutant: a channel without a buffer. *)
SendUnbuffered(r) ==
    /\ run[r] = "sending" /\ resultCh[r] = "empty" /\ handler[r] = "waiting"
    /\ resultCh' = [resultCh EXCEPT ![r] = outcome[r]]
    /\ run' = [run EXCEPT ![r] = "over"]
    /\ UNCHANGED <<configured, stopping, consumer, queue, handler, client, reply,
                   outcome, fetchError>>

(* The outcome goes into the request's own channel, which has room for it. *)
Send(r) ==
    /\ run[r] = "sending" /\ resultCh[r] = "empty"
    /\ resultCh' = [resultCh EXCEPT ![r] = outcome[r]]
    /\ run' = [run EXCEPT ![r] = "over"]
    /\ UNCHANGED <<configured, stopping, consumer, queue, handler, client, reply,
                   outcome, fetchError>>

-----------------------------------------------------------------------------
(* External: the client disconnects, the operator stops the service. *)
ClientLeaves(r) ==
    /\ client[r] = "there"
    /\ client' = [client EXCEPT ![r] = "gone"]
    /\ UNCHANGED <<configured, stopping, consumer, queue, handler, reply, run, outcome,
                   resultCh, fetchError>>

Shutdown ==
    /\ ~stopping
    /\ stopping' = TRUE
    /\ UNCHANGED <<configured, consumer, queue, handler, client, reply, run, outcome,
                   resultCh, fetchError>>

HandlerStep(r) == Answer(r) \/ GiveUp(r)

RunStep(r) == CollectionEnds(r) \/ Report(r) \/ Send(r)

Next ==
    \/ \E r \in Requests :
          \/ NotConfigured(r) \/ Submit(r) \/ TooMany(r) \/ HandlerStep(r)
          \/ RunStep(r) \/ ClientLeaves(r)
    \/ Take \/ StopConsumer \/ Shutdown

Spec == Init /\ [][Next]_vars

(* Goroutines are scheduled, and a collection ends (Collection).  No client   *)
(* has to leave, nobody has to stop the service.                             *)
Fairness ==
    /\ WF_vars(Take)
    /\ \A r \in Requests : WF_vars(HandlerStep(r)) /\ WF_vars(RunStep(r))

FairSpec == Spec /\ Fairness

-----------------------------------------------------------------------------
(* Properties *)

(* A user is told the outcome of the collection his own request started,     *)
(* after it has ended, however many requests are under way at a time.        *)
RepliesAreOwn ==
    \A r \in Requests :
        reply[r] \in {200, 502} =>
            run[r] = "over" /\ outcome[r] = (IF reply[r] = 200 THEN "ok" ELSE "error")

(* A collection never hangs on its result: its goroutine ends although the   *)
(* client has left and the handler has returned.                             *)
CollectionsEnd == \A r \in Requests : run[r] = "collecting" ~> run[r] = "over"

(* A user who waits gets an answer, unless the service is being stopped.      *)
WaitersAreAnswered ==
    \A r \in Requests :
        handler[r] = "waiting" ~> (handler[r] = "returned" \/ stopping)
=============================================================================
