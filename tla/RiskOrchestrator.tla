-------------------------- MODULE RiskOrchestrator --------------------------
(***************************************************************************)
(* The risk orchestrator: Process evaluates each payments.received event   *)
(* under an in-flight key in Redis and publishes risk.evaluated; the gRPC  *)
(* handler EvaluateRisk evaluates a payment without the key.               *)
(*                                                                         *)
(* A worker is one goroutine of one instance: the consumer loop or a gRPC  *)
(* call. Workers interleave at every Redis, rules-engine or Kafka call.    *)
(***************************************************************************)
EXTENDS Kafka

CONSTANTS EventIds,   \* values of payment_event_id, the name of the in-flight key
          NoId,       \* the empty payment_event_id
          Tenants,
          Bodies,     \* the rest of a payment: amount, currency, parties ...
          Outcome,    \* the actions of a rule
          Workers

ASSUME FailOpenAssumption == "approve" \in Outcome

VARIABLES paymentsTopic,  \* payments.received
          riskTopic,      \* risk.evaluated
          inFlight,       \* the in-flight keys that exist in Redis
          work,           \* what each worker is doing
          degraded        \* history: ids whose SETNX failed, or whose key
                          \* expired under its holder

vars == <<paymentsTopic, riskTopic, inFlight, work, degraded>>

-----------------------------------------------------------------------------
(* Messages and control states *)

PaymentEvent == [id : EventIds, tenant : Tenants, body : Bodies]

\* What a risk.evaluated event, and later the decision, identify a payment by.
Keys == [id : EventIds, tenant : Tenants]
KeyOf(e) == [id |-> e.id, tenant |-> e.tenant]

RiskEvaluated ==
    {m \in [key : Keys, action : Outcome, failOpen : BOOLEAN] :
        m.failOpen => m.action = "approve"}

\* How a worker came to evaluate: holding the key, without it because SETNX
\* failed, or for a gRPC caller.
Via == {"lock", "nolock", "rpc"}

Reading    == [at |-> "read"]
Acquiring  == [at : {"acquire"}, event : PaymentEvent]
Evaluating == [at : {"evaluate"}, event : PaymentEvent, via : Via]
Publishing == [at : {"publish"}, event : PaymentEvent, via : Via,
               result : RiskEvaluated]
Releasing  == [at : {"release"}, event : PaymentEvent, via : Via]

\* Worker w has acquired the in-flight key of id and not yet released it.
Holds(w, id) ==
    /\ work[w].at \in {"evaluate", "publish", "release"}
    /\ work[w].via = "lock"
    /\ work[w].event.id = id

Init ==
    /\ paymentsTopic = {}
    /\ riskTopic = {}
    /\ inFlight = {}
    /\ work = [w \in Workers |-> Reading]
    /\ degraded = {}

-----------------------------------------------------------------------------
(* Consumer.Run and Orchestrator.Process *)

ReadMessage(w) ==
    /\ work[w] = Reading
    /\ \E m \in paymentsTopic :
        /\ paymentsTopic' \in Delivered(paymentsTopic, m)
        /\ work' = [work EXCEPT ![w] = [at |-> "acquire", event |-> m]]
    /\ UNCHANGED <<riskTopic, inFlight, degraded>>

StartEvaluating(w, e, via) ==
    work' = [work EXCEPT ![w] = [at |-> "evaluate", event |-> e, via |-> via]]

\* Fault: EXISTS and SET instead of SETNX, the check is not atomic.
TryAcquire_NoNX(w) ==
    /\ work[w].at = "acquire"
    /\ LET e == work[w].event IN
        /\ inFlight' = inFlight \cup {e.id}
        /\ StartEvaluating(w, e, "lock")
    /\ UNCHANGED <<paymentsTopic, riskTopic, degraded>>

\* Fault: Release is deferred before the result of SETNX is looked at.
TryAcquire_SkipReleases(w) ==
    /\ work[w].at = "acquire"
    /\ LET e == work[w].event IN
        IF e.id \in inFlight
        THEN /\ inFlight' = inFlight \ {e.id}
             /\ work' = [work EXCEPT ![w] = Reading]
        ELSE /\ inFlight' = inFlight \cup {e.id}
             /\ StartEvaluating(w, e, "lock")
    /\ UNCHANGED <<paymentsTopic, riskTopic, degraded>>

\* SETNX acquires the key, finds it taken (the event is skipped and its message
\* is gone), or fails, with or without effect, and the event is evaluated all
\* the same.
TryAcquire(w) ==
    /\ work[w].at = "acquire"
    /\ LET e == work[w].event IN
        \/ /\ e.id \notin inFlight
           /\ inFlight' = inFlight \cup {e.id}
           /\ StartEvaluating(w, e, "lock")
           /\ UNCHANGED degraded
        \/ /\ e.id \in inFlight
           /\ work' = [work EXCEPT ![w] = Reading]
           /\ UNCHANGED <<inFlight, degraded>>
        \/ /\ inFlight' \in {inFlight, inFlight \cup {e.id}}
           /\ StartEvaluating(w, e, "nolock")
           /\ degraded' = degraded \cup {e.id}
    /\ UNCHANGED <<paymentsTopic, riskTopic>>

\* Fault: a fail-open result keeps a verdict of the rules.
Verdicts_FailOpenKeepsAction(e) ==
    [key : {KeyOf(e)}, action : Outcome, failOpen : BOOLEAN]

\* What run returns for an event: the verdict of the rules engine, or approve
\* when the call fails or exceeds its budget.
Verdicts(e) == [key : {KeyOf(e)}, action : Outcome, failOpen : {FALSE}]
                 \cup [key : {KeyOf(e)}, action : {"approve"}, failOpen : {TRUE}]

run(w) ==
    /\ work[w].at = "evaluate"
    /\ \E r \in Verdicts(work[w].event) :
         work' = [work EXCEPT ![w] =
                    [at    |-> "publish",
                     event |-> work[w].event,
                     via   |-> work[w].via,
                     result |-> r]]
    /\ UNCHANGED <<paymentsTopic, riskTopic, inFlight, degraded>>

publish(w) ==
    /\ work[w].at = "publish"
    /\ riskTopic' \in Enqueued(riskTopic, work[w].result)
    /\ work' = [work EXCEPT ![w] =
                  IF work[w].via = "rpc" THEN Reading
                  ELSE [at    |-> "release",
                        event |-> work[w].event,
                        via   |-> work[w].via]]
    /\ UNCHANGED <<paymentsTopic, inFlight, degraded>>

\* The deferred Release: DEL removes the key whoever set it, or fails.
Release(w) ==
    /\ work[w].at = "release"
    /\ inFlight' \in {inFlight \ {work[w].event.id}, inFlight}
    /\ work' = [work EXCEPT ![w] = Reading]
    /\ UNCHANGED <<paymentsTopic, riskTopic, degraded>>

-----------------------------------------------------------------------------
(* EvaluateRisk, expiry and crashes *)

\* A gRPC call starts, on a worker of its own; it must name a payment event.
EvaluateRisk(w, e) ==
    /\ work[w] = Reading
    /\ e.id # NoId
    /\ StartEvaluating(w, e, "rpc")
    /\ UNCHANGED <<paymentsTopic, riskTopic, inFlight, degraded>>

\* Fault: SETNX sets no expiry.
Expire_NoTTL(id) == FALSE /\ UNCHANGED vars

\* The key's TTL runs out.
Expire(id) ==
    /\ id \in inFlight
    /\ inFlight' = inFlight \ {id}
    /\ degraded' = IF \E w \in Workers : Holds(w, id)
                   THEN degraded \cup {id} ELSE degraded
    /\ UNCHANGED <<paymentsTopic, riskTopic, work>>

\* The process of w stops; its key stays in Redis until it expires.
Crash(w) ==
    /\ work[w] # Reading
    /\ work' = [work EXCEPT ![w] = Reading]
    /\ UNCHANGED <<paymentsTopic, riskTopic, inFlight, degraded>>

\* The ingestion service, as the orchestrator sees it.
PaymentArrives(e) ==
    /\ paymentsTopic' = paymentsTopic \cup {e}
    /\ UNCHANGED <<riskTopic, inFlight, work, degraded>>

\* The decision service, as the orchestrator sees it.
ResultConsumed(m) ==
    /\ m \in riskTopic
    /\ riskTopic' \in Delivered(riskTopic, m)
    /\ UNCHANGED <<paymentsTopic, inFlight, work, degraded>>

ProcessStep(w) == TryAcquire(w) \/ run(w) \/ publish(w) \/ Release(w)

WorkerStep(w) ==
    \/ ReadMessage(w)
    \/ ProcessStep(w)
    \/ \E e \in PaymentEvent : EvaluateRisk(w, e)
    \/ Crash(w)

Next ==
    \/ \E w \in Workers : WorkerStep(w)
    \/ \E id \in EventIds : Expire(id)
    \/ \E e \in PaymentEvent : PaymentArrives(e)
    \/ \E m \in RiskEvaluated : ResultConsumed(m)

Spec == Init /\ [][Next]_vars

\* A worker in the middle of an event goes on (or crashes), and Redis expires
\* keys; nothing forces messages to arrive or to be read.
FairSpec ==
    /\ Spec
    /\ \A w \in Workers : WF_vars(ProcessStep(w))
    /\ \A id \in EventIds : WF_vars(Expire(id))

-----------------------------------------------------------------------------
(* Properties *)

TypeOK ==
    /\ paymentsTopic \subseteq PaymentEvent
    /\ riskTopic \subseteq RiskEvaluated
    /\ inFlight \subseteq EventIds
    /\ work \in [Workers -> {Reading} \cup Acquiring \cup Evaluating
                               \cup Publishing \cup Releasing]
    /\ degraded \subseteq EventIds

\* The in-flight key prevents concurrent evaluations of one payment event by
\* the consumers, through crashes, failed releases and expiry, as long as SETNX
\* never failed for that id and its key never expired under its holder.
ExclusiveUnlessDegraded ==
    \A id \in EventIds \ degraded : \A v, w \in Workers :
        Holds(v, id) /\ Holds(w, id) => v = w

\* While a worker holds the key of an id that is not degraded, the key exists:
\* nobody but its holder deletes it.
HeldKeysExist ==
    \A id \in EventIds \ degraded, w \in Workers :
        Holds(w, id) => id \in inFlight

\* A key left behind by a crash or a failed release never blocks its payment
\* for good.
InFlightKeysGoAway == \A id \in EventIds : id \in inFlight ~> id \notin inFlight

=============================================================================
