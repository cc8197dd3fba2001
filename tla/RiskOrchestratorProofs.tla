----------------------- MODULE RiskOrchestratorProofs -----------------------
(***************************************************************************)
(* Proofs about RiskOrchestrator: the in-flight key excludes concurrent    *)
(* evaluations for every set of ids, tenants and workers.                  *)
(*                                                                         *)
(* Exclusion alone is not inductive: it needs that the key of a holder     *)
(* exists in Redis, and that whoever releases a key without holding it has *)
(* degraded its id.                                                        *)
(***************************************************************************)
EXTENDS RiskOrchestrator, TLAPS

\* A worker that deletes a key it did not set evaluates a degraded id; gRPC
\* calls delete nothing.
ForeignReleasesAreDegraded ==
    \A w \in Workers :
        /\ (/\ work[w].at \in {"evaluate", "publish", "release"}
            /\ work[w].via = "nolock") => work[w].event.id \in degraded
        /\ work[w].at = "release" => work[w].via # "rpc"

IInv ==
    /\ TypeOK
    /\ ForeignReleasesAreDegraded
    /\ HeldKeysExist
    /\ ExclusiveUnlessDegraded

-----------------------------------------------------------------------------

\* Every step keeps topics, keys and workers well typed.
LEMMA TypeStep == ASSUME TypeOK, [Next]_vars PROVE TypeOK'
<1>1. ASSUME NEW w \in Workers, ReadMessage(w) PROVE TypeOK'
  <2>1. PICK m \in paymentsTopic :
           /\ paymentsTopic' \in Delivered(paymentsTopic, m)
           /\ work' = [work EXCEPT ![w] = [at |-> "acquire", event |-> m]]
    BY <1>1 DEF ReadMessage
  <2>2. [at |-> "acquire", event |-> m] \in Acquiring
    BY DEF Acquiring, TypeOK
  <2> QED
    BY <1>1, <2>1, <2>2 DEF ReadMessage, TypeOK, Delivered
<1>2. ASSUME NEW w \in Workers, NEW e \in PaymentEvent, NEW via \in Via
      PROVE  [at |-> "evaluate", event |-> e, via |-> via] \in Evaluating
  BY DEF Evaluating
<1>3. ASSUME NEW w \in Workers, TryAcquire(w) PROVE TypeOK'
  <2> PICK e \in PaymentEvent : e = work[w].event
    BY <1>3 DEF TryAcquire, TypeOK, Reading, Acquiring, Evaluating, Publishing,
                Releasing
  <2>1. e.id \in EventIds
    BY DEF PaymentEvent
  <2>2. [at |-> "evaluate", event |-> e, via |-> "lock"] \in Evaluating
    BY <1>2 DEF Via
  <2>3. [at |-> "evaluate", event |-> e, via |-> "nolock"] \in Evaluating
    BY <1>2 DEF Via
  <2> QED
    BY <1>3, <2>1, <2>2, <2>3 DEF TryAcquire, StartEvaluating, TypeOK
<1>4. ASSUME NEW w \in Workers, run(w) PROVE TypeOK'
  <2>1. work[w] \in Evaluating
    BY <1>4 DEF run, TypeOK, Reading, Acquiring, Evaluating, Publishing,
                Releasing
  <2>2. work[w].event \in PaymentEvent /\ work[w].via \in Via
    BY <2>1 DEF Evaluating
  <2>3. PICK r \in Verdicts(work[w].event) :
           work' = [work EXCEPT ![w] = [at     |-> "publish",
                                        event  |-> work[w].event,
                                        via    |-> work[w].via,
                                        result |-> r]]
    BY <1>4 DEF run
  <2>4. r \in RiskEvaluated
    <3>1. KeyOf(work[w].event) \in Keys
      BY <2>2 DEF Keys, KeyOf, PaymentEvent
    <3> QED
      BY <3>1, FailOpenAssumption DEF Verdicts, RiskEvaluated
  <2>5. [at |-> "publish", event |-> work[w].event, via |-> work[w].via,
         result |-> r] \in Publishing
    BY <2>2, <2>4 DEF Publishing
  <2> QED
    BY <1>4, <2>3, <2>5 DEF run, TypeOK
<1>5. ASSUME NEW w \in Workers, publish(w) PROVE TypeOK'
  <2>1. work[w] \in Publishing
    BY <1>5 DEF publish, TypeOK, Reading, Acquiring, Evaluating, Publishing,
                Releasing
  <2>2. [at |-> "release", event |-> work[w].event, via |-> work[w].via]
           \in Releasing
    BY <2>1 DEF Publishing, Releasing
  <2>3. work[w].result \in RiskEvaluated
    BY <2>1 DEF Publishing
  <2>4. riskTopic' \subseteq RiskEvaluated
    BY <1>5, <2>3 DEF publish, Enqueued, TypeOK
  <2>5. work' \in [Workers -> {Reading} \cup Acquiring \cup Evaluating
                                \cup Publishing \cup Releasing]
    BY <1>5, <2>2 DEF publish, TypeOK
  <2> QED
    BY <1>5, <2>4, <2>5 DEF publish, TypeOK
<1>6. ASSUME NEW w \in Workers, Release(w) PROVE TypeOK'
  BY <1>6 DEF Release, TypeOK
<1>7. ASSUME NEW w \in Workers, NEW e \in PaymentEvent, EvaluateRisk(w, e)
      PROVE  TypeOK'
  <2>1. [at |-> "evaluate", event |-> e, via |-> "rpc"] \in Evaluating
    BY <1>2 DEF Via
  <2> QED
    BY <1>7, <2>1 DEF EvaluateRisk, StartEvaluating, TypeOK
<1>8. ASSUME NEW id \in EventIds, Expire(id) PROVE TypeOK'
  BY <1>8 DEF Expire, TypeOK
<1>9. ASSUME NEW w \in Workers, Crash(w) PROVE TypeOK'
  BY <1>9 DEF Crash, TypeOK
<1>10. ASSUME NEW e \in PaymentEvent, PaymentArrives(e) PROVE TypeOK'
  BY <1>10 DEF PaymentArrives, TypeOK
<1>11. ASSUME NEW m \in RiskEvaluated, ResultConsumed(m) PROVE TypeOK'
  BY <1>11 DEF ResultConsumed, Delivered, TypeOK
<1>12. CASE UNCHANGED vars
  BY <1>12 DEF vars, TypeOK
<1> QED
  BY <1>1, <1>3, <1>4, <1>5, <1>6, <1>7, <1>8, <1>9, <1>10, <1>11,
     <1>12 DEF Next, WorkerStep, ProcessStep

\* Only its own steps change what a worker is doing.
LEMMA WorkSteps ==
  ASSUME TypeOK, [Next]_vars, NEW w \in Workers, work'[w] # work[w]
  PROVE  WorkerStep(w)
<1>1. ASSUME UNCHANGED work PROVE FALSE
  BY <1>1
<1>2. ASSUME NEW u \in Workers, WorkerStep(u) PROVE u = w
  <2>1. \E x : work' = [work EXCEPT ![u] = x]
    BY <1>2 DEF WorkerStep, ProcessStep, ReadMessage, TryAcquire, run, publish,
                Release, EvaluateRisk, Crash, StartEvaluating
  <2> QED
    BY <2>1 DEF TypeOK
<1> QED
  BY <1>1, <1>2 DEF Next, vars, Expire, PaymentArrives, ResultConsumed

\* Ids never recover from being degraded.
LEMMA DegradedGrows == ASSUME [Next]_vars PROVE degraded \subseteq degraded'
BY DEF Next, vars, WorkerStep, ProcessStep, ReadMessage, TryAcquire, run,
       publish, Release, EvaluateRisk, Expire, Crash, PaymentArrives,
       ResultConsumed

\* A worker evaluates without the key only after SETNX failed for its id.
LEMMA ForeignReleasesStep ==
  ASSUME TypeOK, ForeignReleasesAreDegraded, [Next]_vars
  PROVE  ForeignReleasesAreDegraded'
<1> SUFFICES ASSUME NEW w \in Workers
             PROVE  /\ (/\ work'[w].at \in {"evaluate", "publish", "release"}
                        /\ work'[w].via = "nolock")
                         => work'[w].event.id \in degraded'
                    /\ work'[w].at = "release" => work'[w].via # "rpc"
  BY DEF ForeignReleasesAreDegraded
<1>1. CASE work'[w] = work[w]
  BY <1>1, DegradedGrows DEF ForeignReleasesAreDegraded
<1>2. CASE work'[w] # work[w]
  <2>1. CASE work'[w] = Reading
    BY <2>1 DEF Reading
  <2>2. ASSUME NEW e \in PaymentEvent,
               \/ work'[w] = [at |-> "acquire", event |-> e]
               \/ work'[w] = [at |-> "evaluate", event |-> e, via |-> "lock"]
               \/ work'[w] = [at |-> "evaluate", event |-> e, via |-> "rpc"]
               \/ /\ work'[w] = [at |-> "evaluate", event |-> e, via |-> "nolock"]
                  /\ e.id \in degraded'
        PROVE  /\ (/\ work'[w].at \in {"evaluate", "publish", "release"}
                   /\ work'[w].via = "nolock")
                    => work'[w].event.id \in degraded'
               /\ work'[w].at = "release" => work'[w].via # "rpc"
    BY <2>2
  <2>3. CASE ReadMessage(w)
    <3>1. PICK e \in PaymentEvent : work'[w] = [at |-> "acquire", event |-> e]
      BY <2>3 DEF ReadMessage, TypeOK
    <3> QED
      BY <2>2, <3>1
  <2>4. CASE TryAcquire(w)
    <3> PICK e \in PaymentEvent : e = work[w].event
      BY <2>4 DEF TryAcquire, TypeOK, Reading, Acquiring, Evaluating,
                  Publishing, Releasing
    <3> QED
      BY <2>1, <2>2, <2>4 DEF TryAcquire, StartEvaluating, TypeOK
  <2>5. CASE run(w)
    <3>1. /\ work[w].at = "evaluate"
          /\ work'[w].at = "publish"
          /\ work'[w].via = work[w].via
          /\ work'[w].event = work[w].event
      BY <2>5 DEF run, TypeOK
    <3> QED
      BY <3>1, DegradedGrows DEF ForeignReleasesAreDegraded
  <2>6. CASE publish(w)
    <3>1. CASE work[w].via = "rpc"
      BY <2>1, <2>6, <3>1 DEF publish, TypeOK
    <3>2. CASE work[w].via # "rpc"
      <4>1. /\ work[w].at = "publish"
            /\ work'[w].via = work[w].via
            /\ work'[w].event = work[w].event
        BY <2>6, <3>2 DEF publish, TypeOK
      <4> QED
        BY <3>2, <4>1, DegradedGrows DEF ForeignReleasesAreDegraded
    <3> QED
      BY <3>1, <3>2
  <2>7. CASE Release(w) \/ Crash(w)
    BY <2>1, <2>7 DEF Release, Crash, TypeOK
  <2>8. CASE \E e \in PaymentEvent : EvaluateRisk(w, e)
    <3>1. PICK e \in PaymentEvent :
             work'[w] = [at |-> "evaluate", event |-> e, via |-> "rpc"]
      BY <2>8 DEF EvaluateRisk, StartEvaluating, TypeOK
    <3> QED
      BY <2>2, <3>1
  <2>9. WorkerStep(w)
    BY <1>2, WorkSteps
  <2> QED
    BY <2>3, <2>4, <2>5, <2>6, <2>7, <2>8, <2>9 DEF WorkerStep, ProcessStep
<1> QED
  BY <1>1, <1>2

\* Whoever holds a key after a step held it before, or has just acquired it
\* from a Redis that did not have it.  A key disappears only when its one
\* holder releases it, when nobody holds it, or its id is degraded.
LEMMA LockStep ==
  ASSUME IInv, [Next]_vars
  PROVE  HeldKeysExist' /\ ExclusiveUnlessDegraded'
<1> USE DEF IInv
<1> DEFINE LockOK(id) ==
      /\ \A w \in Workers : Holds(w, id) => id \in inFlight
      /\ \A v, w \in Workers : Holds(v, id) /\ Holds(w, id) => v = w
<1> SUFFICES ASSUME NEW id \in EventIds \ degraded'
             PROVE  LockOK(id)'
  BY DEF HeldKeysExist, ExclusiveUnlessDegraded
<1>1. id \in EventIds \ degraded
  BY DegradedGrows
<1>2. LockOK(id)
  BY <1>1 DEF HeldKeysExist, ExclusiveUnlessDegraded
<1>3. ASSUME id \in inFlight => id \in inFlight',
             \A w \in Workers : Holds(w, id)' => Holds(w, id)
      PROVE  LockOK(id)'
  BY <1>2, <1>3
<1>4. ASSUME NEW u \in Workers, TryAcquire(u)
      PROVE  LockOK(id)'
  <2>1. \A w \in Workers \ {u} : work'[w] = work[w]
    BY <1>4 DEF TryAcquire, StartEvaluating, TypeOK
  <2>2. CASE Holds(u, id)'
    <3>1. id \notin inFlight /\ id \in inFlight'
      BY <1>4, <2>2 DEF TryAcquire, StartEvaluating, Holds, TypeOK, Reading
    <3> QED
      BY <1>2, <2>1, <2>2, <3>1 DEF Holds
  <2>3. CASE ~Holds(u, id)'
    <3>1. id \in inFlight => id \in inFlight'
      BY <1>4 DEF TryAcquire
    <3>2. \A w \in Workers : Holds(w, id)' => Holds(w, id)
      BY <2>1, <2>3 DEF Holds
    <3> QED
      BY <1>3, <3>1, <3>2
  <2> QED
    BY <2>2, <2>3
<1>5. ASSUME NEW u \in Workers, Release(u)
      PROVE  LockOK(id)'
  <2>1. /\ \A w \in Workers \ {u} : work'[w] = work[w]
        /\ work'[u] = Reading
    BY <1>5 DEF Release, TypeOK
  <2>2. \A w \in Workers : Holds(w, id)' => w # u /\ Holds(w, id)
    BY <2>1 DEF Holds, Reading
  <2>3. CASE work[u].event.id # id
    BY <1>3, <1>5, <2>2, <2>3 DEF Release
  <2>4. CASE work[u].event.id = id
    <3>1. work[u].via = "lock"
      BY <1>1, <1>5, <2>4 DEF Release, ForeignReleasesAreDegraded, TypeOK,
         Reading, Acquiring, Evaluating, Publishing, Releasing, Via
    <3>2. Holds(u, id)
      BY <1>5, <2>4, <3>1 DEF Release, Holds
    <3> QED
      BY <1>2, <2>2, <3>2
  <2> QED
    BY <2>3, <2>4
<1>6. ASSUME NEW j \in EventIds, Expire(j)
      PROVE  LockOK(id)'
  <2>1. \A w \in Workers : Holds(w, id)' <=> Holds(w, id)
    BY <1>6 DEF Expire, Holds
  <2>2. CASE j = id
    <3>1. \A w \in Workers : ~Holds(w, id)
      BY <1>1, <1>6, <2>2 DEF Expire
    <3> QED
      BY <2>1, <3>1
  <2>3. CASE j # id
    BY <1>3, <1>6, <2>1, <2>3 DEF Expire
  <2> QED
    BY <2>2, <2>3
<1>7. ASSUME UNCHANGED inFlight, NEW u \in Workers,
             \A w \in Workers \ {u} : work'[w] = work[w],
             Holds(u, id)' => Holds(u, id)
      PROVE  LockOK(id)'
  <2>1. \A w \in Workers : Holds(w, id)' => Holds(w, id)
    BY <1>7 DEF Holds
  <2> QED
    BY <1>3, <1>7, <2>1
<1>8. ASSUME NEW u \in Workers, ReadMessage(u) \/ run(u) \/ publish(u)
                \/ Crash(u) \/ \E e \in PaymentEvent : EvaluateRisk(u, e)
      PROVE  LockOK(id)'
  <2>1. \A w \in Workers \ {u} : work'[w] = work[w]
    BY <1>8 DEF ReadMessage, run, publish, Crash, EvaluateRisk,
                StartEvaluating, TypeOK
  <2>2. Holds(u, id)' => Holds(u, id)
    <3>1. CASE run(u)
      BY <3>1 DEF run, Holds, TypeOK
    <3>2. CASE publish(u)
      BY <3>2 DEF publish, Holds, TypeOK, Reading
    <3>3. CASE ReadMessage(u)
      BY <3>3 DEF ReadMessage, Holds, TypeOK
    <3>4. CASE Crash(u)
      BY <3>4 DEF Crash, Holds, TypeOK, Reading
    <3>5. CASE \E e \in PaymentEvent : EvaluateRisk(u, e)
      BY <3>5 DEF EvaluateRisk, StartEvaluating, Holds, TypeOK
    <3> QED
      BY <1>8, <3>1, <3>2, <3>3, <3>4, <3>5
  <2>3. UNCHANGED inFlight
    BY <1>8 DEF ReadMessage, run, publish, Crash, EvaluateRisk
  <2> QED
    BY <1>7, <2>1, <2>2, <2>3
<1>9. CASE UNCHANGED <<inFlight, work>>
  <2>1. \A w \in Workers : Holds(w, id)' <=> Holds(w, id)
    BY <1>9 DEF Holds
  <2> QED
    BY <1>3, <1>9, <2>1
<1> QED
  BY <1>4, <1>5, <1>6, <1>8, <1>9
     DEF Next, vars, WorkerStep, ProcessStep, PaymentArrives,
         ResultConsumed

-----------------------------------------------------------------------------
(* The theorems *)

\* IInv holds initially.
LEMMA Initially == Init => IInv
BY DEF Init, IInv, TypeOK, ForeignReleasesAreDegraded, HeldKeysExist,
       ExclusiveUnlessDegraded, Holds, Reading

\* Every step preserves IInv.
LEMMA Preserved == IInv /\ [Next]_vars => IInv'
BY TypeStep, ForeignReleasesStep, LockStep DEF IInv

\* So IInv is an invariant.
LEMMA Inductive == Spec => []IInv
BY Initially, Preserved, PTL DEF Spec

\* Topics, keys and workers are always well typed.
THEOREM TypeCorrect == Spec => []TypeOK
BY Inductive, PTL DEF IInv

\* Two consumers evaluate one payment event at once only after a Redis call
\* for it failed or its key expired under its holder.
THEOREM Exclusion == Spec => []ExclusiveUnlessDegraded
BY Inductive, PTL DEF IInv

\* Until then the key of whoever holds it is in Redis.
THEOREM KeysExist == Spec => []HeldKeysExist
BY Inductive, PTL DEF IInv

=============================================================================
