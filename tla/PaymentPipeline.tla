--------------------------- MODULE PaymentPipeline ---------------------------
(***************************************************************************)
(* The way of a payment through the platform: the ingestion service, the   *)
(* risk orchestrator, the decision service and case management, joined by  *)
(* the topics payments.received, risk.evaluated and decision.made. Each    *)
(* service takes its own steps; what one of them publishes is what the     *)
(* next one reads, so the environment actions of the four modules          *)
(* (PaymentConsumed, PaymentArrives, ResultConsumed, RiskEvaluatedArrives, *)
(* DecisionMadeArrives) are no actions of this one.                        *)
(*                                                                         *)
(* Several groups read decision.made, and reading moves no more than the   *)
(* offset of one: the topic keeps what it has, and case management may be  *)
(* handed any of it, again after a rebalance.                              *)
(***************************************************************************)
EXTENDS Naturals

CONSTANTS Tenants, IdempotencyKeys, Amounts, NoId, Callers, SchemaAccepts,
          EventIds, Outcome, Workers,
          Consumers, Analysts, MaxOverrides,
          CaseConsumers, Agents, Requested, MaxActions, MaxTime

ASSUME EventIdsAssumption == NoId \in EventIds
ASSUME SchemaAssumption == SchemaAccepts \in BOOLEAN
ASSUME OutcomeAssumption == "approve" \in Outcome /\ "none" \notin Outcome
ASSUME MaxOverridesAssumption == MaxOverrides \in Nat
ASSUME MaxTimeAssumption == MaxTime \in Nat
ASSUME RequestedAssumption ==
    Requested \subseteq {"low", "medium", "high", "critical"}

VARIABLES rows, dedupe, calls,
          paymentsTopic,
          inFlight, workers, degraded,
          riskTopic,
          decisions, overrides, consumers, tx,
          decisionTopic,
          cases, actions, sla, caseTopic, now, caseWorkers,
          byHand   \* history: the decisions that a CreateCase request named

ingestionVars == <<rows, dedupe, calls>>
riskVars      == <<inFlight, workers, degraded>>
decisionVars  == <<decisions, overrides, consumers, tx>>
caseVars      == <<cases, actions, sla, caseTopic, now, caseWorkers, byHand>>

vars == <<ingestionVars, paymentsTopic, riskVars, riskTopic, decisionVars,
          decisionTopic, caseVars>>

Ing  == INSTANCE Ingestion
Risk == INSTANCE RiskOrchestrator WITH Bodies <- Ing!Body, work <- workers
Dec  == INSTANCE Decision WITH Keys <- Risk!Keys, work <- consumers
Case == INSTANCE CaseManagement WITH Keys <- Risk!Keys, work <- caseWorkers,
                                     Consumers <- CaseConsumers

Init == Ing!Init /\ Risk!Init /\ Dec!Init /\ Case!Init /\ byHand = {}

IngestionStep ==
    /\ \/ \E c \in Callers : Ing!CallStep(c)
       \/ \E slot \in Ing!Slot : Ing!Expire(slot)
    /\ UNCHANGED <<riskVars, riskTopic, decisionVars, decisionTopic, caseVars>>

RiskStep ==
    /\ \/ \E w \in Workers : Risk!WorkerStep(w)
       \/ \E id \in EventIds : Risk!Expire(id)
    /\ UNCHANGED <<ingestionVars, decisionVars, decisionTopic, caseVars>>

DecisionStep ==
    /\ \/ \E c \in Consumers : Dec!ConsumerStep(c)
       \/ \E a \in Analysts : Dec!OverrideStep(a)
    /\ UNCHANGED <<ingestionVars, paymentsTopic, riskVars, caseVars>>

\* What the CreateCase requests under way are about.
AskedFor ==
    {caseWorkers[a].key : a \in {a \in Agents : caseWorkers[a].at = "insert"}}

CaseStep ==
    /\ decisionTopic' = decisionTopic
    /\ \/ \E c \in CaseConsumers : Case!ConsumerStep(c)
       \/ \E a \in Agents : Case!AgentStep(a)
       \/ \E w \in CaseConsumers \cup Agents : Case!WorkerStep(w)
       \/ Case!Tick
    /\ byHand' = byHand \cup AskedFor'
    /\ UNCHANGED <<ingestionVars, paymentsTopic, riskVars, riskTopic,
                   decisionVars>>

Next == IngestionStep \/ RiskStep \/ DecisionStep \/ CaseStep

Spec == Init /\ [][Next]_vars

-----------------------------------------------------------------------------
(* Properties *)

HasPayment(tenant) == \E row \in rows : row.tenant = tenant

\* A decision that did not come from a gRPC evaluation is about a tenant that
\* has a stored payment: no decision is made of nothing, and none lands in
\* another tenant, whatever is lost, duplicated, retried or crashes on the way
\* from the INSERT in the ingestion service to the INSERT in the decision
\* service.
DecisionsHavePayments ==
    \A k \in Risk!Keys :
        k.id = NoId /\ Dec!Exists(k) => HasPayment(k.tenant)

\* "all DB queries, cache keys, and Kafka payloads are tenant-scoped" (the
\* README): a payment that is about to acquire its in-flight key never finds it
\* held for a payment of another tenant. (It would be skipped, and lost.)
InFlightKeysTenantScoped ==
    \A v, w \in Workers :
        /\ workers[w].at = "acquire"
        /\ Risk!Holds(v, workers[w].event.id)
        => workers[v].event.tenant = workers[w].event.tenant

\* A case that nobody asked for by hand comes from a decision on a payment: it is
\* about a recorded decision, of a tenant with a stored payment, and was opened
\* with an outcome that this decision has had and that calls for a case, however
\* evaluations of the payment, overrides, repeated announcements and updates of
\* the case overlap. (The service stores what the event says and never asks the
\* decision service; the outcome in force may be another one by then.)
CasesFollowDecisions ==
    \A k \in Risk!Keys :
        Case!Exists(k) /\ k \notin byHand =>
            /\ \E i \in DOMAIN Dec!History(k) :
                  cases[k].opening.outcome = Dec!History(k)[i]
            /\ cases[k].opening.outcome \in {"review", "block"}
            /\ k.id = NoId => HasPayment(k.tenant)

\* In the pipeline the orchestrator, the decision service and case management do
\* only what they do on their own: the events one service sends are events the
\* next one is built for, so what is shown of each module holds here.
ServicesImplemented == Risk!Spec /\ Dec!Spec /\ Case!Spec

=============================================================================
