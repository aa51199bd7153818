-------------------------- MODULE ManualFetchProofs --------------------------
(***************************************************************************)
(* Machine-checked proofs about ManualFetch, for every number of requests    *)
(* and every capacity of the queue: a user is told the outcome of the        *)
(* collection his own request started.                                     *)
(***************************************************************************)
EXTENDS ManualFetch, SequenceTheorems, TLAPS

(* A collection that has ended has an outcome. *)
EndedInv ==
    \A r \in Requests : run[r] \in {"reporting", "sending", "over"} => outcome[r] \in Outcomes

(* A request is queued once, by its handler, and its collection starts when it    *)
(* leaves the queue. *)
QueueInv ==
    /\ \A i \in 1..Len(queue) : run[queue[i]] = "none" /\ handler[queue[i]] # "none"
    /\ \A i, j \in 1..Len(queue) : queue[i] = queue[j] => i = j
    /\ \A r \in Requests : handler[r] = "none" => run[r] = "none"

(* What is in a request's channel, or was told to its user, is the outcome of its *)
(* own collection, which is over and does not run again.                     *)
OwnInv ==
    /\ \A r \in Requests : resultCh[r] # "empty" => run[r] = "over" /\ resultCh[r] = outcome[r]
    /\ RepliesAreOwn

IInv == TypeOK /\ EndedInv /\ QueueInv /\ OwnInv

(* What the members of a queue are after it has been appended to, or its head     *)
(* taken. *)
LEMMA QueueOps ==
    ASSUME NEW S, NEW q \in Seq(S)
    PROVE  /\ \A i \in 1..Len(q) : q[i] \in S
           /\ \A r \in S : /\ Append(q, r) \in Seq(S) /\ Len(Append(q, r)) = Len(q) + 1
                           /\ Append(q, r)[Len(q) + 1] = r
                           /\ \A i \in 1..Len(q) : Append(q, r)[i] = q[i]
           /\ q # <<>> => /\ Tail(q) \in Seq(S) /\ Len(Tail(q)) = Len(q) - 1
                          /\ Head(q) = q[1] /\ 1 \in 1..Len(q)
                          /\ \A i \in 1..(Len(q) - 1) : Tail(q)[i] = q[i + 1]
  BY ElementOfSeq, AppendProperties, HeadTailProperties, EmptySeq

(* Nothing has been asked for. *)
LEMMA InitIInv == Init => IInv
  <1> SUFFICES ASSUME Init PROVE IInv
    OBVIOUS
  <1>1. configured \in BOOLEAN /\ stopping \in BOOLEAN /\ fetchError \in BOOLEAN
    BY DEF Init
  <1>2. queue \in Seq(Requests) /\ Len(queue) = 0
    BY DEF Init
  <1>3. TypeOK
    BY <1>1, <1>2, QueueAssumption DEF Init, TypeOK
  <1> QED BY <1>2, <1>3 DEF Init, IInv, EndedInv, QueueInv, OwnInv, RepliesAreOwn, TypeOK

(* The switches take truth values only. *)
LEMMA NextSwitches ==
    ASSUME TypeOK, [Next]_vars
    PROVE  configured' \in BOOLEAN /\ stopping' \in BOOLEAN /\ fetchError' \in BOOLEAN
  <1> USE DEF TypeOK
  <1>1. fetchError' = fetchError \/ \E r \in Requests : fetchError' = (outcome[r] = "error")
    BY DEF Next, vars, NotConfigured, Submit, TooMany, HandlerStep, Answer, GiveUp, RunStep,
       CollectionEnds, Report, Send, ClientLeaves, Take, StopConsumer, Shutdown
  <1>2. configured' = configured /\ (stopping' = stopping \/ stopping' = TRUE)
    BY DEF Next, vars, NotConfigured, Submit, TooMany, HandlerStep, Answer, GiveUp, RunStep,
       CollectionEnds, Report, Send, ClientLeaves, Take, StopConsumer, Shutdown
  <1> QED BY <1>1, <1>2

(* A handler queues a request that was not queued before. *)
LEMMA SubmitIInv == ASSUME IInv, NEW r \in Requests, Submit(r) PROVE IInv'
  <1> USE DEF IInv
  <1>0. /\ queue \in Seq(Requests) /\ queue' = Append(queue, r)
        /\ handler' = [handler EXCEPT ![r] = "waiting"] /\ handler[r] = "none"
        /\ Len(queue) < QueueSize /\ Len(queue) \in Nat
        /\ UNCHANGED <<configured, stopping, consumer, client, reply, run, outcome,
                       resultCh, fetchError>>
    BY DEF Submit, TypeOK
  <1>1. /\ queue' \in Seq(Requests) /\ Len(queue') = Len(queue) + 1
        /\ queue'[Len(queue) + 1] = r
        /\ \A i \in 1..Len(queue) : queue'[i] = queue[i] /\ queue[i] \in Requests
    BY <1>0, QueueOps
  <1>2. TypeOK'
    BY <1>0, <1>1, QueueAssumption DEF TypeOK
  <1>3. \A i \in 1..Len(queue) : queue[i] # r
    BY <1>0, <1>1 DEF QueueInv
  <1>4. \A i \in 1..Len(queue') : i \in 1..Len(queue) \/ i = Len(queue) + 1
    BY <1>0, <1>1
  <1>5. QueueInv'
    <2>1. ASSUME NEW i \in 1..Len(queue')
          PROVE  run[queue'[i]] = "none" /\ handler'[queue'[i]] # "none"
      BY <1>0, <1>1, <1>4 DEF QueueInv, TypeOK
    <2>2. ASSUME NEW i \in 1..Len(queue'), NEW k \in 1..Len(queue'), queue'[i] = queue'[k]
          PROVE  i = k
      BY <1>1, <1>3, <1>4, <2>2 DEF QueueInv
    <2>3. ASSUME NEW q \in Requests, handler'[q] = "none" PROVE run[q] = "none"
      BY <1>0, <2>3 DEF QueueInv, TypeOK
    <2> QED BY <1>0, <2>1, <2>2, <2>3 DEF QueueInv
  <1> QED BY <1>0, <1>2, <1>5 DEF EndedInv, OwnInv, RepliesAreOwn

(* The worker takes the request at the head, whose collection has not run. *)
LEMMA TakeIInv == ASSUME IInv, Take PROVE IInv'
  <1> USE DEF IInv
  <1> DEFINE h == Head(queue)
  <1>0. /\ queue \in Seq(Requests) /\ queue # <<>> /\ queue' = Tail(queue)
        /\ run' = [run EXCEPT ![h] = "collecting"] /\ Len(queue) \in Nat
        /\ UNCHANGED <<configured, stopping, consumer, handler, client, reply, outcome,
                       resultCh, fetchError>>
    BY DEF Take, TypeOK
  <1>1. /\ queue' \in Seq(Requests) /\ Len(queue') = Len(queue) - 1
        /\ h = queue[1] /\ 1 \in 1..Len(queue) /\ h \in Requests
        /\ \A i \in 1..Len(queue') : queue'[i] = queue[i + 1] /\ i + 1 \in 1..Len(queue)
        /\ \A i \in 1..Len(queue) : queue[i] \in Requests
    BY <1>0, QueueOps
  <1>2. run[h] = "none" /\ handler[h] # "none"
    BY <1>1 DEF QueueInv
  <1> HIDE DEF h
  <1>3. TypeOK'
    <2>1. Len(queue') <= QueueSize
      BY <1>0, <1>1, QueueAssumption DEF TypeOK
    <2> QED BY <1>0, <1>1, <2>1 DEF TypeOK
  <1>4. QueueInv'
    <2>1. ASSUME NEW i \in 1..Len(queue')
          PROVE  run'[queue'[i]] = "none" /\ handler'[queue'[i]] # "none"
      <3>1. i + 1 # 1 /\ queue'[i] = queue[i + 1] /\ i + 1 \in 1..Len(queue)
        BY <1>1
      <3>2. queue[i + 1] # h
        BY <1>1, <3>1 DEF QueueInv
      <3> QED BY <1>0, <1>1, <3>1, <3>2 DEF QueueInv, TypeOK
    <2>2. ASSUME NEW i \in 1..Len(queue'), NEW k \in 1..Len(queue'), queue'[i] = queue'[k]
          PROVE  i = k
      <3>1. i + 1 = k + 1
        BY <1>1, <2>2 DEF QueueInv
      <3> QED BY <3>1
    <2>3. ASSUME NEW q \in Requests, handler'[q] = "none" PROVE run'[q] = "none"
      BY <1>0, <1>2, <2>3 DEF QueueInv, TypeOK
    <2> QED BY <2>1, <2>2, <2>3 DEF QueueInv
  <1>5. EndedInv' /\ OwnInv'
    BY <1>0, <1>1, <1>2 DEF EndedInv, OwnInv, RepliesAreOwn, TypeOK
  <1> QED BY <1>3, <1>4, <1>5

(* The steps that leave the queue alone keep it, as long as no handler and no      *)
(* collection starts over. *)
LEMMA QueueStays ==
    ASSUME IInv, queue' = queue,
           \A r \in Requests : /\ run[r] = "none" => run'[r] = "none"
                               /\ handler'[r] = "none" => handler[r] = "none"
    PROVE  QueueInv'
  <1>1. \A i \in 1..Len(queue) : queue[i] \in Requests
    BY QueueOps DEF IInv, TypeOK
  <1> QED BY <1>1 DEF IInv, QueueInv

(* Every step. *)
LEMMA NextIInv == ASSUME IInv, [Next]_vars PROVE IInv'
  <1> USE DEF IInv, Outcomes
  <1>0. configured' \in BOOLEAN /\ stopping' \in BOOLEAN /\ fetchError' \in BOOLEAN
    BY NextSwitches
  <1>1. ASSUME NEW r \in Requests, NotConfigured(r) \/ TooMany(r) \/ GiveUp(r) PROVE IInv'
    <2>0. /\ \E status \in {400, 429, 504} : reply' = [reply EXCEPT ![r] = status]
          /\ handler' = [handler EXCEPT ![r] = "returned"]
          /\ UNCHANGED <<consumer, queue, client, run, outcome, resultCh>>
      BY <1>1 DEF NotConfigured, TooMany, GiveUp, Respond
    <2>1. TypeOK'
      BY <1>0, <2>0 DEF TypeOK
    <2>2. QueueInv'
      BY <2>0, QueueStays DEF TypeOK
    <2>3. EndedInv' /\ OwnInv'
      BY <2>0 DEF EndedInv, OwnInv, RepliesAreOwn, TypeOK
    <2> QED BY <2>1, <2>2, <2>3
  <1>2. ASSUME NEW r \in Requests, Answer(r) PROVE IInv'
    <2>1. TypeOK'
      BY <1>0, <1>2 DEF TypeOK, Answer, Respond
    <2>2. QueueInv'
      BY <1>2, QueueStays DEF Answer, Respond, TypeOK
    <2> QED
      BY <1>2, <2>1, <2>2 DEF Answer, Respond, EndedInv, OwnInv, RepliesAreOwn, TypeOK
  <1>3. ASSUME NEW r \in Requests, CollectionEnds(r) PROVE IInv'
    <2>1. TypeOK'
      BY <1>0, <1>3 DEF TypeOK, CollectionEnds
    <2>2. QueueInv'
      BY <1>3, QueueStays DEF CollectionEnds, TypeOK
    <2> QED
      BY <1>3, <2>1, <2>2 DEF CollectionEnds, EndedInv, OwnInv, RepliesAreOwn, TypeOK
  <1>4. ASSUME NEW r \in Requests, Report(r) \/ Send(r) PROVE IInv'
    <2>1. TypeOK'
      BY SMTT(30), <1>0, <1>4 DEF TypeOK, Report, Send, EndedInv
    <2>2. QueueInv'
      BY <1>4, QueueStays DEF Report, Send, TypeOK
    <2> QED
      BY <1>4, <2>1, <2>2 DEF Report, Send, EndedInv, OwnInv, RepliesAreOwn, TypeOK
  <1>5. ASSUME NEW r \in Requests, ClientLeaves(r) PROVE IInv'
    <2>1. TypeOK'
      BY <1>0, <1>5 DEF TypeOK, ClientLeaves
    <2>2. QueueInv'
      BY <1>5, QueueStays DEF ClientLeaves
    <2> QED BY <1>5, <2>1, <2>2 DEF ClientLeaves, EndedInv, OwnInv, RepliesAreOwn
  <1>6. CASE StopConsumer \/ Shutdown \/ UNCHANGED vars
    <2>1. TypeOK'
      BY <1>0, <1>6 DEF TypeOK, StopConsumer, Shutdown, vars
    <2>2. QueueInv'
      BY <1>6, QueueStays DEF StopConsumer, Shutdown, vars
    <2> QED
      BY <1>6, <2>1, <2>2 DEF StopConsumer, Shutdown, vars, EndedInv, OwnInv, RepliesAreOwn
  <1> HIDE DEF IInv
  <1> QED
    BY <1>1, <1>2, <1>3, <1>4, <1>5, <1>6, SubmitIInv, TakeIInv
       DEF Next, HandlerStep, RunStep

(* The invariant behind both theorems. *)
THEOREM ManualInvariance == Spec => []IInv
  BY InitIInv, NextIInv, PTL DEF Spec

(* Every variable keeps its type; the queue never exceeds its capacity. *)
THEOREM ManualTypeCorrectness == Spec => []TypeOK
  <1>1. IInv => TypeOK
    BY DEF IInv
  <1> QED BY <1>1, ManualInvariance, PTL

(* A user is told the outcome of the collection his own request started, after it *)
(* has ended, for any number of requests at a time.                          *)
THEOREM RepliesComeFromOwnRun == Spec => []RepliesAreOwn
  <1>1. IInv => RepliesAreOwn
    BY DEF IInv, OwnInv
  <1> QED BY <1>1, ManualInvariance, PTL
=============================================================================
