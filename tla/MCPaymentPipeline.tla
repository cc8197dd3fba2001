-------------------------- MODULE MCPaymentPipeline --------------------------
(***************************************************************************)
(* Model checking of PaymentPipeline: two tenants, one of which gets its   *)
(* payment stored, one ingestion call at a time, two orchestrator workers, *)
(* one decision consumer, one analyst, one case consumer and one call of   *)
(* case management.                                                        *)
(***************************************************************************)
EXTENDS PaymentPipeline, FiniteSets, TLC

\* Who is in the middle of something.
Upstream ==
    {c \in Callers : calls[c] # Ing!Idle}
    \cup {w \in Workers : workers[w] # Risk!Reading}
    \cup {c \in Consumers : consumers[c] # Dec!Reading}
Busy ==
    Upstream
    \cup {a \in Analysts : tx[a] # Dec!NoTx}
    \cup {w \in CaseConsumers \cup Agents : caseWorkers[w] # Case!Idle}

\* Bounds: one stored payment, one message in transit to the orchestrator or the
\* decision service, one announcement, and two processes at work at once. Once
\* there is a case, or one was asked for by hand, only overrides and case management
\* go on. Nobody here reads the events about cases, so nothing is explored after one
\* reached its topic.
Bounded ==
    /\ Cardinality(rows) <= 1
    /\ Cardinality(paymentsTopic) + Cardinality(riskTopic) <= 1
    /\ Cardinality(decisionTopic) <= 1
    /\ Cardinality(Busy) <= 2
    /\ byHand # {} \/ (\E k \in Risk!Keys : Case!Exists(k)) =>
          Upstream = {} /\ paymentsTopic = {} /\ riskTopic = {}
    /\ caseTopic = {}

\* Tenants and workers are interchangeable.
MCSymmetry == Permutations(Tenants) \cup Permutations(Workers)

=============================================================================
