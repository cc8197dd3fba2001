------------------------------ MODULE Decision ------------------------------
(***************************************************************************)
(* The decision service: Consumer.Run records one decision per             *)
(* (payment_event_id, tenant_id) from the risk.evaluated topic and         *)
(* publishes decision.made; the gRPC handler OverrideDecision lets an      *)
(* analyst replace an outcome in a transaction.                            *)
(*                                                                         *)
(* Each instance runs one consumer goroutine, so consumers interleave at   *)
(* every database or broker call; override transactions interleave with    *)
(* them and with each other between SELECT ... FOR UPDATE and COMMIT.      *)
(***************************************************************************)
EXTENDS Naturals, Sequences, Kafka

CONSTANTS Keys,          \* the (payment_event_id, tenant_id) pairs
          Outcome,       \* the outcomes of the CHECK constraint
          Consumers,     \* one Consumer.Run per instance of the service
          Analysts,      \* OverrideDecision calls that may run at once
          MaxOverrides   \* bound: overrides of one decision

ASSUME OutcomeAssumption == "approve" \in Outcome /\ "none" \notin Outcome
ASSUME MaxOverridesAssumption == MaxOverrides \in Nat

VARIABLES decisions,      \* the table decisions: a row or Absent for each key
          overrides,      \* the table decision_overrides: the rows of each key
          riskTopic,      \* risk.evaluated
          decisionTopic,  \* decision.made
          work,           \* what each consumer is doing
          tx              \* the open transaction of each override call

vars == <<decisions, overrides, riskTopic, decisionTopic, work, tx>>

-----------------------------------------------------------------------------
(* Messages, rows and control states *)

\* A risk.evaluated event; fail-open results always approve (run in
\* orchestrator.go).
RiskEvaluated ==
    {m \in [key : Keys, action : Outcome, failOpen : BOOLEAN] :
        m.failOpen => m.action = "approve"}

DecisionMade == [key : Keys, outcome : Outcome, overridden : BOOLEAN]

\* buildReasonCodes, the codes of the matched rules taken as one value.
ReasonCodes == {"fail_open_applied", "rules"}
\* Fault: the reason codes of a fail-open result are left nil.
buildReasonCodes_NilOnFailOpen(event) ==
    IF event.failOpen THEN "none" ELSE "rules"
buildReasonCodes(event) ==
    IF event.failOpen THEN "fail_open_applied" ELSE "rules"

Row == [outcome : Outcome, reasonCodes : ReasonCodes, overridden : BOOLEAN]
Absent == [outcome |-> "none", reasonCodes |-> "none", overridden |-> FALSE]

OverrideRow == [previous : Outcome, new : Outcome]

Reading    == [at |-> "read"]
Recording  == [at : {"insert", "fetch"}, event : RiskEvaluated]
Publishing == [at : {"publish"}, decision : DecisionMade]

NoTx   == [at |-> "idle"]
OpenTx == [at : {"locked"}, key : Keys, previous : Outcome, new : Outcome]

Exists(k) == decisions[k] # Absent

\* The payload PublishDecisionMade builds from the row of k.
Snapshot(k) == [key        |-> k,
                outcome    |-> decisions[k].outcome,
                overridden |-> decisions[k].overridden]

Init ==
    /\ decisions = [k \in Keys |-> Absent]
    /\ overrides = [k \in Keys |-> <<>>]
    /\ riskTopic = {}
    /\ decisionTopic = {}
    /\ work = [c \in Consumers |-> Reading]
    /\ tx = [a \in Analysts |-> NoTx]

-----------------------------------------------------------------------------
(* The consumer of risk.evaluated *)

ReadMessage(c) ==
    /\ work[c] = Reading
    /\ \E m \in riskTopic :
        /\ riskTopic' \in Delivered(riskTopic, m)
        /\ work' = [work EXCEPT ![c] = [at |-> "insert", event |-> m]]
    /\ UNCHANGED <<decisions, overrides, decisionTopic, tx>>

\* Fault: ON CONFLICT DO UPDATE, the latest evaluation wins.
RecordDecision_Upsert(c) ==
    /\ work[c].at = "insert"
    /\ LET e == work[c].event
           new == [outcome     |-> e.action,
                   reasonCodes |-> buildReasonCodes(e),
                   overridden  |-> decisions[e.key].overridden] IN
        /\ decisions' = [decisions EXCEPT ![e.key] = new]
        /\ work' = [work EXCEPT ![c] =
              [at       |-> "publish",
               decision |-> [key        |-> e.key,
                             outcome    |-> e.action,
                             overridden |-> new.overridden]]]
    /\ UNCHANGED <<overrides, riskTopic, decisionTopic, tx>>

\* Fault: a conflict publishes the event's own outcome, not the stored one.
RecordDecision_PublishesEvent(c) ==
    /\ work[c].at = "insert"
    /\ LET e == work[c].event IN
        /\ decisions' = IF Exists(e.key) THEN decisions
              ELSE [decisions EXCEPT ![e.key] =
                        [outcome     |-> e.action,
                         reasonCodes |-> buildReasonCodes(e),
                         overridden  |-> FALSE]]
        /\ work' = [work EXCEPT ![c] =
              [at       |-> "publish",
               decision |-> [key        |-> e.key,
                             outcome    |-> e.action,
                             overridden |-> FALSE]]]
    /\ UNCHANGED <<overrides, riskTopic, decisionTopic, tx>>

\* INSERT ... ON CONFLICT DO NOTHING RETURNING: a new row is returned, a
\* conflict leads to a second query.
RecordDecision(c) ==
    /\ work[c].at = "insert"
    /\ LET e == work[c].event IN
        \/ /\ ~Exists(e.key)
           /\ decisions' = [decisions EXCEPT ![e.key] =
                                [outcome     |-> e.action,
                                 reasonCodes |-> buildReasonCodes(e),
                                 overridden  |-> FALSE]]
           /\ work' = [work EXCEPT ![c] =
                          [at       |-> "publish",
                           decision |-> [key        |-> e.key,
                                         outcome    |-> e.action,
                                         overridden |-> FALSE]]]
        \/ /\ Exists(e.key)
           /\ work' = [work EXCEPT ![c] = [at |-> "fetch", event |-> e]]
           /\ UNCHANGED decisions
    /\ UNCHANGED <<overrides, riskTopic, decisionTopic, tx>>

\* The existing row, read by a query of its own.
GetDecision(c) ==
    /\ work[c].at = "fetch"
    /\ work' = [work EXCEPT ![c] =
                   [at |-> "publish", decision |-> Snapshot(work[c].event.key)]]
    /\ UNCHANGED <<decisions, overrides, riskTopic, decisionTopic, tx>>

PublishDecisionMade(c) ==
    /\ work[c].at = "publish"
    /\ decisionTopic' \in Enqueued(decisionTopic, work[c].decision)
    /\ work' = [work EXCEPT ![c] = Reading]
    /\ UNCHANGED <<decisions, overrides, riskTopic, tx>>

\* A database error is logged and the loop continues, a crash restarts it; the
\* offset is committed, so the message in hand is gone either way.
AbandonMessage(c) ==
    /\ work[c] # Reading
    /\ work' = [work EXCEPT ![c] = Reading]
    /\ UNCHANGED <<decisions, overrides, riskTopic, decisionTopic, tx>>

-----------------------------------------------------------------------------
(* OverrideDecision *)

\* Fault: SELECT without FOR UPDATE takes no lock.
RowLocked_NoForUpdate(k) == FALSE
RowLocked(k) == \E a \in Analysts : tx[a].at = "locked" /\ tx[a].key = k

\* SELECT outcome ... FOR UPDATE waits for the row lock of the decision.
LockDecision(a, k, new) ==
    /\ tx[a] = NoTx
    /\ Exists(k)
    /\ ~RowLocked(k)
    /\ Len(overrides[k]) < MaxOverrides
    /\ tx' = [tx EXCEPT ![a] = [at       |-> "locked",
                                key      |-> k,
                                previous |-> decisions[k].outcome,
                                new      |-> new]]
    /\ UNCHANGED <<decisions, overrides, riskTopic, decisionTopic, work>>

\* Fault: the outcome being replaced is read after the UPDATE.
CommitOverride_ReadsPreviousLate(a) ==
    /\ tx[a].at = "locked"
    /\ LET k == tx[a].key IN
        /\ decisions' = [decisions EXCEPT ![k].outcome = tx[a].new,
                                          ![k].overridden = TRUE]
        /\ overrides' = [overrides EXCEPT ![k] =
                Append(@, [previous |-> tx[a].new, new |-> tx[a].new])]
    /\ tx' = [tx EXCEPT ![a] = NoTx]
    /\ UNCHANGED <<riskTopic, decisionTopic, work>>

\* COMMIT of the UPDATE of the decision and the INSERT of the override row.
CommitOverride(a) ==
    /\ tx[a].at = "locked"
    /\ LET k == tx[a].key IN
        /\ decisions' = [decisions EXCEPT ![k].outcome = tx[a].new,
                                          ![k].overridden = TRUE]
        /\ overrides' = [overrides EXCEPT ![k] =
                Append(@, [previous |-> tx[a].previous, new |-> tx[a].new])]
    /\ tx' = [tx EXCEPT ![a] = NoTx]
    /\ UNCHANGED <<riskTopic, decisionTopic, work>>

\* Any error or crash before COMMIT.
RollbackOverride(a) ==
    /\ tx[a].at = "locked"
    /\ tx' = [tx EXCEPT ![a] = NoTx]
    /\ UNCHANGED <<decisions, overrides, riskTopic, decisionTopic, work>>

-----------------------------------------------------------------------------
(* The orchestrator, as this service sees it *)

RiskEvaluatedArrives(m) ==
    /\ riskTopic' = riskTopic \cup {m}
    /\ UNCHANGED <<decisions, overrides, decisionTopic, work, tx>>

ConsumerStep(c) ==
    \/ ReadMessage(c)
    \/ RecordDecision(c)
    \/ GetDecision(c)
    \/ PublishDecisionMade(c)
    \/ AbandonMessage(c)

OverrideStep(a) ==
    \/ \E k \in Keys, new \in Outcome : LockDecision(a, k, new)
    \/ CommitOverride(a)
    \/ RollbackOverride(a)

Next ==
    \/ \E c \in Consumers : ConsumerStep(c)
    \/ \E a \in Analysts : OverrideStep(a)
    \/ \E m \in RiskEvaluated : RiskEvaluatedArrives(m)

Spec == Init /\ [][Next]_vars

-----------------------------------------------------------------------------
(* Properties *)

TypeOK ==
    /\ decisions \in [Keys -> Row \cup {Absent}]
    /\ overrides \in [Keys -> Seq(OverrideRow)]
    /\ riskTopic \subseteq RiskEvaluated
    /\ decisionTopic \subseteq DecisionMade
    /\ work \in [Consumers -> {Reading} \cup Recording \cup Publishing]
    /\ tx \in [Analysts -> {NoTx} \cup OpenTx]

\* The outcomes decision k has had, oldest first: what each override replaced,
\* then the outcome in force.
History(k) ==
    IF Exists(k)
    THEN [i \in 1..Len(overrides[k]) + 1 |->
            IF i <= Len(overrides[k]) THEN overrides[k][i].previous
                                      ELSE decisions[k].outcome]
    ELSE <<>>

\* The override rows of a decision tell an unbroken story: each one replaces
\* exactly the outcome the one before it set, the last one set the outcome in
\* force, and a row is marked overridden exactly when an override row exists.
\* (OverrideDecision reads the outcome it replaces one statement before it
\* writes, while other overrides of the same decision run.)
OverrideTrailUnbroken ==
    \A k \in Keys :
        LET n == Len(overrides[k]) IN
        /\ \A i \in 1..n : overrides[k][i].new = History(k)[i + 1]
        /\ (n > 0) <=> decisions[k].overridden

\* Every decision.made event on the topic reports an outcome its decision has
\* really had, and calls it overridden exactly when it is not the first one,
\* even when it was read before an override and published after it.
PublishedOutcomesAreReal ==
    \A m \in decisionTopic :
        \E i \in DOMAIN History(m.key) :
            /\ m.outcome = History(m.key)[i]
            /\ m.overridden <=> i > 1

\* A decision recorded because the rules engine failed keeps saying so, and
\* started as an approval: an override or a later, successful evaluation of
\* the same payment never rewrites why it was taken.
FailOpenStartsAsApprove ==
    \A k \in Keys : decisions[k].reasonCodes = "fail_open_applied" =>
                        History(k)[1] = "approve"

\* A decision, once recorded, is never deleted or re-decided: its history only
\* grows, its reason codes stay, and only a step that adds an override row
\* changes its outcome. (ON CONFLICT DO NOTHING: the first evaluation wins.)
FirstEvaluationWins ==
    [][\A k \in Keys : Exists(k) =>
        /\ decisions'[k].reasonCodes = decisions[k].reasonCodes
        /\ \/ decisions'[k].outcome = decisions[k].outcome
           \/ Len(overrides'[k]) = Len(overrides[k]) + 1
        /\ \A i \in 1..Len(overrides[k]) : overrides'[k][i] = overrides[k][i]
      ]_vars

\* The service implements the ledger of outcomes.
Ledger == INSTANCE DecisionLedger
            WITH ledger <- [k \in Keys |-> History(k)],
                 announced <- decisionTopic

ImplementsLedger == Ledger!Spec

=============================================================================
