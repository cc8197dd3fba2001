--------------------------- MODULE DecisionProofs ---------------------------
(***************************************************************************)
(* Proofs about Decision, for every set of keys, consumers and analysts.   *)
(*                                                                         *)
(* The inductive invariant adds to the properties what the steps between   *)
(* two database calls rely on: the outcome an open override transaction    *)
(* has read is still in force (its row lock), a conflicting event's        *)
(* decision exists, and the event a consumer is about to publish is an     *)
(* entry of its decision's history.                                        *)
(***************************************************************************)
EXTENDS Decision, TLAPS

\* A decision.made event that its decision's history contains.
Real(m) ==
    \E i \in DOMAIN History(m.key) :
        /\ m.outcome = History(m.key)[i]
        /\ m.overridden <=> i > 1

\* Only a recorded decision has override rows.
OverridesHaveDecisions == \A k \in Keys : ~Exists(k) => overrides[k] = <<>>

\* What an open transaction read under its row lock still holds, and two open
\* transactions lock different rows.
RowLockHolds ==
    \A a \in Analysts : tx[a].at = "locked" =>
        /\ Exists(tx[a].key)
        /\ tx[a].previous = decisions[tx[a].key].outcome
        /\ \A b \in Analysts : tx[b].at = "locked" /\ tx[b].key = tx[a].key => a = b

\* The row a conflicting INSERT lost to does not go away.
ConflictsHaveRows ==
    \A c \in Consumers : work[c].at = "fetch" => Exists(work[c].event.key)

HeldEventsAreReal ==
    \A c \in Consumers : work[c].at = "publish" => Real(work[c].decision)

IInv ==
    /\ TypeOK
    /\ OverridesHaveDecisions
    /\ RowLockHolds
    /\ ConflictsHaveRows
    /\ HeldEventsAreReal
    /\ OverrideTrailUnbroken
    /\ PublishedOutcomesAreReal
    /\ FailOpenStartsAsApprove

-----------------------------------------------------------------------------
(* Type correctness *)

\* A step keeps every table, topic, consumer and transaction well typed. What
\* GetDecision copies and CommitOverride updates is a row because a decision,
\* once recorded, stays.
LEMMA TypeStep ==
  ASSUME TypeOK, RowLockHolds, ConflictsHaveRows, [Next]_vars
  PROVE  TypeOK'
<1>1. ASSUME NEW c \in Consumers, ReadMessage(c)
      PROVE  TypeOK'
  <2>1. PICK m \in riskTopic :
           /\ riskTopic' \in Delivered(riskTopic, m)
           /\ work' = [work EXCEPT ![c] = [at |-> "insert", event |-> m]]
    BY <1>1 DEF ReadMessage
  <2>2. [at |-> "insert", event |-> m] \in Recording
    BY DEF TypeOK, Recording
  <2> QED
    BY <1>1, <2>1, <2>2 DEF ReadMessage, TypeOK, Delivered
<1>2. ASSUME NEW c \in Consumers, RecordDecision(c)
      PROVE  TypeOK'
  <2> DEFINE e == work[c].event
  <2>1. work[c] \in Recording /\ e \in RiskEvaluated
    BY <1>2 DEF RecordDecision, TypeOK, Reading, Recording, Publishing
  <2>2. e.key \in Keys /\ e.action \in Outcome
    BY <2>1 DEF RiskEvaluated
  <2>3. CASE ~Exists(e.key)
    <3>1. [outcome     |-> e.action,
           reasonCodes |-> buildReasonCodes(e),
           overridden  |-> FALSE] \in Row
      BY <2>2 DEF Row, ReasonCodes, buildReasonCodes
    <3>2. [at       |-> "publish",
           decision |-> [key        |-> e.key,
                         outcome    |-> e.action,
                         overridden |-> FALSE]] \in Publishing
      BY <2>2 DEF Publishing, DecisionMade
    <3> QED
      BY <1>2, <2>3, <3>1, <3>2 DEF RecordDecision, TypeOK
  <2>4. CASE Exists(e.key)
    <3>1. [at |-> "fetch", event |-> e] \in Recording
      BY <2>1 DEF Recording
    <3> QED
      BY <1>2, <2>4, <3>1 DEF RecordDecision, TypeOK
  <2> QED
    BY <2>3, <2>4
<1>3. ASSUME NEW c \in Consumers, GetDecision(c)
      PROVE  TypeOK'
  <2> DEFINE k == work[c].event.key
  <2>1. work[c] \in Recording /\ Exists(k)
    BY <1>3 DEF GetDecision, TypeOK, ConflictsHaveRows,
                Reading, Recording, Publishing
  <2>2. k \in Keys /\ decisions[k] \in Row
    BY <2>1 DEF TypeOK, Exists, Recording, RiskEvaluated
  <2>3. [at |-> "publish", decision |-> Snapshot(k)] \in Publishing
    BY <2>2 DEF Publishing, DecisionMade, Snapshot, Row
  <2> QED
    BY <1>3, <2>3 DEF GetDecision, TypeOK
<1>4. ASSUME NEW c \in Consumers, PublishDecisionMade(c)
      PROVE  TypeOK'
  <2>1. work[c].decision \in DecisionMade
    BY <1>4 DEF PublishDecisionMade, TypeOK, Reading, Recording, Publishing
  <2> QED
    BY <1>4, <2>1 DEF PublishDecisionMade, TypeOK, Enqueued
<1>5. ASSUME NEW c \in Consumers, AbandonMessage(c)
      PROVE  TypeOK'
  BY <1>5 DEF AbandonMessage, TypeOK
<1>6. ASSUME NEW a \in Analysts, NEW k \in Keys, NEW new \in Outcome,
             LockDecision(a, k, new)
      PROVE  TypeOK'
  <2>1. decisions[k].outcome \in Outcome
    BY <1>6 DEF LockDecision, TypeOK, Exists, Row
  <2>2. [at |-> "locked", key |-> k, previous |-> decisions[k].outcome,
         new |-> new] \in OpenTx
    BY <2>1 DEF OpenTx
  <2> QED
    BY <1>6, <2>2 DEF LockDecision, TypeOK
<1>7. ASSUME NEW a \in Analysts, CommitOverride(a)
      PROVE  TypeOK'
  <2> DEFINE k == tx[a].key
             row == [previous |-> tx[a].previous, new |-> tx[a].new]
  <2>1. tx[a] \in OpenTx /\ Exists(k)
    BY <1>7 DEF CommitOverride, TypeOK, RowLockHolds, NoTx, OpenTx
  <2>2. k \in Keys /\ row \in OverrideRow /\ decisions[k] \in Row
    BY <2>1 DEF OpenTx, OverrideRow, TypeOK, Exists
  <2>3. [decisions[k] EXCEPT !.outcome = tx[a].new, !.overridden = TRUE] \in Row
    BY <2>1, <2>2 DEF Row, OpenTx
  <2>4. Append(overrides[k], row) \in Seq(OverrideRow)
    BY <2>2 DEF TypeOK
  <2>5. /\ decisions' \in [Keys -> Row \cup {Absent}]
        /\ overrides' \in [Keys -> Seq(OverrideRow)]
    BY <1>7, <2>2, <2>3, <2>4 DEF CommitOverride, TypeOK
  <2> QED
    BY <1>7, <2>5 DEF CommitOverride, TypeOK
<1>8. ASSUME NEW a \in Analysts, RollbackOverride(a)
      PROVE  TypeOK'
  BY <1>8 DEF RollbackOverride, TypeOK
<1>9. ASSUME NEW m \in RiskEvaluated, RiskEvaluatedArrives(m)
      PROVE  TypeOK'
  BY <1>9 DEF RiskEvaluatedArrives, TypeOK
<1>10. CASE UNCHANGED vars
  BY <1>10 DEF vars, TypeOK
<1> QED
  BY <1>1, <1>2, <1>3, <1>4, <1>5, <1>6, <1>7, <1>8, <1>9, <1>10
     DEF Next, ConsumerStep, OverrideStep

-----------------------------------------------------------------------------
(* How a step changes the two tables *)

\* Only the INSERT of a decision and the COMMIT of an override change a table.
LEMMA TableSteps ==
  ASSUME [Next]_vars
  PROVE  \/ UNCHANGED <<decisions, overrides>>
         \/ \E c \in Consumers : RecordDecision(c)
         \/ \E a \in Analysts : CommitOverride(a)
BY DEF Next, vars, ConsumerStep, OverrideStep, ReadMessage, GetDecision,
       PublishDecisionMade, AbandonMessage, LockDecision, RollbackOverride,
       RiskEvaluatedArrives

\* An INSERT leaves every decision that exists as it is.
LEMMA InsertKeepsRows ==
  ASSUME NEW c \in Consumers, RecordDecision(c),
         NEW k \in Keys, Exists(k), TypeOK
  PROVE  decisions'[k] = decisions[k] /\ overrides'[k] = overrides[k]
BY DEF RecordDecision, TypeOK

\* A COMMIT adds one override row to the decision its transaction locked and
\* replaces that decision's outcome.
LEMMA CommitEffect ==
  ASSUME NEW a \in Analysts, CommitOverride(a), TypeOK, RowLockHolds
  PROVE  /\ tx[a] \in OpenTx
         /\ tx[a].key \in Keys
         /\ Exists(tx[a].key)
         /\ tx[a].previous = decisions[tx[a].key].outcome
         /\ decisions[tx[a].key] \in Row
         /\ decisions' = [decisions EXCEPT ![tx[a].key] =
                [@ EXCEPT !.outcome = tx[a].new, !.overridden = TRUE]]
         /\ decisions'[tx[a].key] =
                [decisions[tx[a].key] EXCEPT !.outcome = tx[a].new,
                                             !.overridden = TRUE]
         /\ overrides'[tx[a].key] = Append(overrides[tx[a].key],
                [previous |-> tx[a].previous, new |-> tx[a].new])
         /\ \A k \in Keys \ {tx[a].key} : /\ decisions'[k] = decisions[k]
                                          /\ overrides'[k] = overrides[k]
         /\ tx'[a] = NoTx
         /\ \A b \in Analysts \ {a} : tx'[b] = tx[b]
<1>1. tx[a] \in OpenTx
  BY DEF CommitOverride, TypeOK, NoTx
<1>2. tx[a].key \in Keys /\ Exists(tx[a].key)
  BY <1>1 DEF RowLockHolds, CommitOverride, OpenTx
<1>3. decisions[tx[a].key] \in Row
  BY <1>2 DEF TypeOK, Exists
<1> QED
  BY <1>1, <1>2, <1>3 DEF CommitOverride, RowLockHolds, TypeOK, Row

\* The histories of decisions only grow at their end, and no decision goes away.
LEMMA HistoryGrows ==
  ASSUME TypeOK, RowLockHolds, [Next]_vars, NEW k \in Keys
  PROVE  /\ Exists(k) => Exists(k)'
         /\ \A i \in DOMAIN History(k) : /\ i \in DOMAIN History(k)'
                                        /\ History(k)'[i] = History(k)[i]
<1>1. CASE UNCHANGED <<decisions, overrides>>
  BY <1>1 DEF History, Exists
<1>2. ASSUME NEW c \in Consumers, RecordDecision(c), Exists(k)
      PROVE  /\ Exists(k)'
             /\ History(k)' = History(k)
  BY <1>2, InsertKeepsRows DEF History, Exists
<1>3. ASSUME NEW a \in Analysts, CommitOverride(a), tx[a].key # k
      PROVE  /\ Exists(k)' = Exists(k)
             /\ History(k)' = History(k)
  BY <1>3, CommitEffect DEF History, Exists
<1>4. ASSUME NEW a \in Analysts, CommitOverride(a), tx[a].key = k
      PROVE  /\ Exists(k)'
             /\ \A i \in DOMAIN History(k) : /\ i \in DOMAIN History(k)'
                                            /\ History(k)'[i] = History(k)[i]
  <2> DEFINE n == Len(overrides[k])
             row == [previous |-> tx[a].previous, new |-> tx[a].new]
  <2>1. /\ overrides[k] \in Seq(OverrideRow) /\ n \in Nat
        /\ overrides'[k] = Append(overrides[k], row)
        /\ row.previous = decisions[k].outcome
        /\ Exists(k)
    <3>1. overrides[k] \in Seq(OverrideRow) /\ n \in Nat
      BY DEF TypeOK
    <3> QED
      BY <1>4, <3>1, CommitEffect DEF Exists
  <2>2. Exists(k)'
    <3>1. decisions'[k].outcome \in Outcome
      BY <1>4, CommitEffect DEF Row, OpenTx
    <3> QED
      BY <3>1, OutcomeAssumption DEF Exists, Absent
  <2>3. /\ Len(overrides'[k]) = n + 1
        /\ overrides'[k][n + 1] = row
        /\ \A i \in 1..n : overrides'[k][i] = overrides[k][i]
    BY <2>1
  <2>4. /\ DOMAIN History(k) = 1..n + 1
        /\ DOMAIN History(k)' = 1..n + 2
    BY <2>1, <2>2, <2>3 DEF History
  <2>5. ASSUME NEW i \in 1..n + 1
        PROVE  History(k)'[i] = History(k)[i]
    BY <2>1, <2>2, <2>3 DEF History
  <2> QED
    BY <2>2, <2>4, <2>5
<1>5. ~Exists(k) => DOMAIN History(k) = {}
  BY DEF History
<1>6. QED
  BY <1>1, <1>2, <1>3, <1>4, <1>5, TableSteps

\* An event that reports a past or present outcome keeps doing so.
LEMMA RealStaysReal ==
  ASSUME TypeOK, RowLockHolds, [Next]_vars, NEW m \in DecisionMade, Real(m)
  PROVE  Real(m)'
<1>1. m.key \in Keys
  BY DEF DecisionMade
<1> QED
  BY <1>1, HistoryGrows DEF Real

-----------------------------------------------------------------------------
(* The conjuncts of the inductive invariant *)

\* Override rows never appear without their decision.
LEMMA OverridesHaveDecisionsStep ==
  ASSUME TypeOK, RowLockHolds, OverridesHaveDecisions, [Next]_vars
  PROVE  OverridesHaveDecisions'
<1> SUFFICES ASSUME NEW k \in Keys, ~Exists(k)'
             PROVE  overrides'[k] = <<>>
  BY DEF OverridesHaveDecisions, Exists
<1>1. ~Exists(k) /\ overrides[k] = <<>>
  BY HistoryGrows DEF OverridesHaveDecisions
<1>2. CASE UNCHANGED <<decisions, overrides>>
  BY <1>1, <1>2
<1>3. ASSUME NEW c \in Consumers, RecordDecision(c)
      PROVE  overrides'[k] = <<>>
  BY <1>1, <1>3 DEF RecordDecision
<1>4. ASSUME NEW a \in Analysts, CommitOverride(a)
      PROVE  overrides'[k] = <<>>
  BY <1>1, <1>4, CommitEffect DEF Exists
<1> QED
  BY <1>2, <1>3, <1>4, TableSteps

\* The row lock keeps what an override transaction has read in force until it
\* commits, and keeps a second transaction away from the same decision.
LEMMA RowLockHoldsStep ==
  ASSUME TypeOK, RowLockHolds, [Next]_vars
  PROVE  RowLockHolds'
<1>1. ASSUME UNCHANGED <<decisions, tx>>
      PROVE  RowLockHolds'
  BY <1>1 DEF RowLockHolds, Exists
<1>2. ASSUME NEW c \in Consumers, RecordDecision(c)
      PROVE  RowLockHolds'
  <2>1. \A a \in Analysts : tx[a].at = "locked" =>
           /\ tx[a].key \in Keys
           /\ Exists(tx[a].key)
    BY DEF RowLockHolds, TypeOK, NoTx, OpenTx
  <2>2. \A k \in Keys : Exists(k) => decisions'[k] = decisions[k]
    BY <1>2, InsertKeepsRows
  <2>3. tx' = tx
    BY <1>2 DEF RecordDecision
  <2> QED
    BY <2>1, <2>2, <2>3 DEF RowLockHolds, Exists
<1>3. ASSUME NEW a \in Analysts, NEW k \in Keys, NEW new \in Outcome,
             LockDecision(a, k, new)
      PROVE  RowLockHolds'
  BY <1>3 DEF LockDecision, RowLocked, RowLockHolds, Exists, TypeOK
<1>4. ASSUME NEW a \in Analysts, CommitOverride(a)
      PROVE  RowLockHolds'
  <2> SUFFICES ASSUME NEW b \in Analysts, tx'[b].at = "locked"
               PROVE  /\ Exists(tx[b].key)'
                      /\ tx'[b].previous = decisions'[tx'[b].key].outcome
                      /\ \A d \in Analysts :
                            tx'[d].at = "locked" /\ tx'[d].key = tx'[b].key
                              => b = d
    BY DEF RowLockHolds
  <2>1. tx'[a] = NoTx /\ \A d \in Analysts \ {a} : tx'[d] = tx[d]
    BY <1>4, CommitEffect
  <2>2. b # a /\ tx'[b] = tx[b]
    BY <2>1 DEF NoTx
  <2>3. tx[b] \in OpenTx /\ tx[b].key \in Keys
    BY <2>2 DEF TypeOK, NoTx, OpenTx
  <2>4. tx[b].key # tx[a].key
    BY <1>4, <2>2 DEF RowLockHolds, CommitOverride
  <2>5. decisions'[tx[b].key] = decisions[tx[b].key]
    BY <1>4, <2>3, <2>4, CommitEffect
  <2>6. Exists(tx[b].key)' /\ tx'[b].previous = decisions'[tx'[b].key].outcome
    BY <2>2, <2>5 DEF RowLockHolds, Exists
  <2>7. ASSUME NEW d \in Analysts,
               tx'[d].at = "locked", tx'[d].key = tx'[b].key
        PROVE  b = d
    BY <2>1, <2>2, <2>7 DEF RowLockHolds, NoTx
  <2> QED
    BY <2>6, <2>7
<1>5. ASSUME NEW a \in Analysts, RollbackOverride(a)
      PROVE  RowLockHolds'
  BY <1>5 DEF RollbackOverride, RowLockHolds, Exists, TypeOK, NoTx
<1> QED
  BY <1>1, <1>2, <1>3, <1>4, <1>5
     DEF Next, vars, ConsumerStep, OverrideStep, ReadMessage, GetDecision,
         PublishDecisionMade, AbandonMessage, RiskEvaluatedArrives

\* Only its own steps change what a consumer is doing.
LEMMA WorkSteps ==
  ASSUME TypeOK, [Next]_vars, NEW c \in Consumers, work'[c] # work[c]
  PROVE  ConsumerStep(c)
<1>1. ASSUME UNCHANGED work PROVE FALSE
  BY <1>1
<1>2. ASSUME NEW d \in Consumers, ConsumerStep(d) PROVE d = c
  <2>1. \E w : work' = [work EXCEPT ![d] = w]
    BY <1>2 DEF ConsumerStep, ReadMessage, RecordDecision, GetDecision,
                PublishDecisionMade, AbandonMessage
  <2> QED
    BY <2>1 DEF TypeOK
<1> QED
  BY <1>1, <1>2 DEF Next, vars, OverrideStep, LockDecision, CommitOverride,
                    RollbackOverride, RiskEvaluatedArrives

\* The row a conflicting INSERT lost to is still there when it is fetched.
LEMMA ConflictsHaveRowsStep ==
  ASSUME TypeOK, RowLockHolds, ConflictsHaveRows, [Next]_vars
  PROVE  ConflictsHaveRows'
<1> SUFFICES ASSUME NEW c \in Consumers, work'[c].at = "fetch"
             PROVE  Exists(work[c].event.key)'
  BY DEF ConflictsHaveRows
<1>1. CASE work'[c] = work[c]
  <2>1. work[c] \in Recording /\ Exists(work[c].event.key)
    BY <1>1 DEF ConflictsHaveRows, TypeOK, Reading, Recording, Publishing
  <2>2. work[c].event.key \in Keys
    BY <2>1 DEF Recording, RiskEvaluated
  <2> QED
    BY <1>1, <2>1, <2>2, HistoryGrows DEF Exists
<1>2. CASE work'[c] # work[c]
  <2>1. RecordDecision(c)
    BY <1>2, WorkSteps DEF ConsumerStep, ReadMessage, GetDecision,
                           PublishDecisionMade, AbandonMessage, TypeOK, Reading
  <2>2. /\ work[c].event = work'[c].event
        /\ Exists(work[c].event.key)
        /\ decisions' = decisions
    BY <2>1 DEF RecordDecision, TypeOK
  <2> QED
    BY <2>2 DEF Exists
<1> QED
  BY <1>1, <1>2

\* What a consumer is about to publish is in its decision's history: the row it
\* inserted or fetched, or an outcome overridden since.
LEMMA HeldEventsAreRealStep ==
  ASSUME TypeOK, RowLockHolds, OverridesHaveDecisions, ConflictsHaveRows,
         OverrideTrailUnbroken, HeldEventsAreReal, [Next]_vars
  PROVE  HeldEventsAreReal'
<1> SUFFICES ASSUME NEW c \in Consumers, work'[c].at = "publish"
             PROVE  Real(work[c].decision)'
  BY DEF HeldEventsAreReal
<1>1. CASE work'[c] = work[c]
  <2>1. work[c].decision \in DecisionMade /\ Real(work[c].decision)
    BY <1>1 DEF HeldEventsAreReal, TypeOK, Reading, Recording, Publishing
  <2> QED
    BY <1>1, <2>1, RealStaysReal DEF Real
<1>2. ASSUME work'[c] # work[c], RecordDecision(c)
      PROVE  Real(work[c].decision)'
  <2> PICK e \in RiskEvaluated : e = work[c].event
    BY <1>2 DEF RecordDecision, TypeOK, Reading, Recording, Publishing
  <2>1. e.key \in Keys /\ e.action \in Outcome
    BY DEF RiskEvaluated
  <2>2. /\ ~Exists(e.key)
        /\ overrides' = overrides
        /\ decisions'[e.key] = [outcome     |-> e.action,
                                reasonCodes |-> buildReasonCodes(e),
                                overridden  |-> FALSE]
        /\ work'[c] = [at       |-> "publish",
                       decision |-> [key        |-> e.key,
                                     outcome    |-> e.action,
                                     overridden |-> FALSE]]
    <3>1. CASE Exists(e.key)
      BY <1>2, <3>1 DEF RecordDecision, TypeOK
    <3>2. CASE ~Exists(e.key)
      BY <1>2, <2>1, <3>2 DEF RecordDecision, TypeOK
    <3> QED
      BY <3>1, <3>2
  <2>3. Exists(e.key)' /\ decisions'[e.key].outcome = e.action
    BY <2>1, <2>2, OutcomeAssumption DEF Exists, Absent
  <2>4. overrides'[e.key] = <<>>
    BY <2>1, <2>2 DEF OverridesHaveDecisions
  <2>5. DOMAIN History(e.key)' = 1..1 /\ History(e.key)'[1] = e.action
    BY <2>2, <2>3, <2>4 DEF History
  <2>6. /\ work'[c].decision.key = e.key
        /\ work'[c].decision.outcome = e.action
        /\ ~work'[c].decision.overridden
    BY <2>2
  <2> QED
    BY <2>5, <2>6 DEF Real
<1>3. ASSUME work'[c] # work[c], GetDecision(c)
      PROVE  Real(work[c].decision)'
  <2> PICK k \in Keys : k = work[c].event.key
    BY <1>3 DEF GetDecision, TypeOK, Reading, Recording, Publishing,
                RiskEvaluated
  <2> DEFINE n == Len(overrides[k])
  <2>1. Exists(k)
    BY <1>3 DEF GetDecision, ConflictsHaveRows
  <2>2. work'[c].decision = Snapshot(k) /\ UNCHANGED <<decisions, overrides>>
    BY <1>3 DEF GetDecision, TypeOK
  <2>3. n \in Nat
    BY <2>1 DEF TypeOK
  <2>4. /\ n + 1 \in DOMAIN History(k)
        /\ History(k)[n + 1] = decisions[k].outcome
    BY <2>1, <2>3 DEF History
  <2>5. decisions[k].overridden <=> n + 1 > 1
    <3>1. (n > 0) <=> decisions[k].overridden
      BY <2>1 DEF OverrideTrailUnbroken
    <3>2. \A j \in Nat : (j > 0) <=> (j + 1 > 1)
      OBVIOUS
    <3> QED
      BY <2>3, <3>1, <3>2
  <2>6. /\ work'[c].decision.key = k
        /\ work'[c].decision.outcome = History(k)[n + 1]
        /\ work'[c].decision.overridden <=> n + 1 > 1
    BY <2>2, <2>4, <2>5 DEF Snapshot
  <2>7. History(k)' = History(k)
    BY <2>2 DEF History, Exists
  <2> QED
    BY <2>4, <2>6, <2>7 DEF Real
<1> QED
  BY <1>1, <1>2, <1>3, WorkSteps
     DEF ConsumerStep, ReadMessage, PublishDecisionMade, AbandonMessage,
         TypeOK, Reading

\* An override appends a row that starts where the trail ended.
LEMMA OverrideTrailStep ==
  ASSUME TypeOK, RowLockHolds, OverridesHaveDecisions, OverrideTrailUnbroken,
         [Next]_vars
  PROVE  OverrideTrailUnbroken'
<1> SUFFICES ASSUME NEW k \in Keys
             PROVE  /\ \A i \in 1..Len(overrides'[k]) :
                          overrides'[k][i].new = History(k)'[i + 1]
                    /\ (Len(overrides'[k]) > 0) <=> decisions'[k].overridden
  BY DEF OverrideTrailUnbroken
<1> DEFINE n == Len(overrides[k])
<1>1. n \in Nat /\ overrides[k] \in Seq(OverrideRow)
  BY DEF TypeOK
<1>2. /\ \A i \in 1..n : overrides[k][i].new = History(k)[i + 1]
      /\ (n > 0) <=> decisions[k].overridden
  BY DEF OverrideTrailUnbroken
<1>3. CASE decisions'[k] = decisions[k] /\ overrides'[k] = overrides[k]
  BY <1>2, <1>3 DEF History, Exists
<1>4. ASSUME NEW c \in Consumers, RecordDecision(c), ~Exists(k)
      PROVE  /\ \A i \in 1..Len(overrides'[k]) :
                   overrides'[k][i].new = History(k)'[i + 1]
             /\ (Len(overrides'[k]) > 0) <=> decisions'[k].overridden
  <2>1. overrides'[k] = <<>>
    BY <1>4 DEF RecordDecision, OverridesHaveDecisions
  <2>2. ~decisions'[k].overridden
    <3>1. ~decisions[k].overridden
      BY <1>4 DEF Exists, Absent
    <3>2. CASE decisions'[k] = decisions[k]
      BY <3>1, <3>2
    <3>3. CASE decisions'[k] # decisions[k]
      BY <1>4, <3>3 DEF RecordDecision, TypeOK
    <3> QED
      BY <3>2, <3>3
  <2> QED
    BY <2>1, <2>2
<1>5. ASSUME NEW a \in Analysts, CommitOverride(a), tx[a].key = k
      PROVE  /\ \A i \in 1..Len(overrides'[k]) :
                   overrides'[k][i].new = History(k)'[i + 1]
             /\ (Len(overrides'[k]) > 0) <=> decisions'[k].overridden
  <2> DEFINE row == [previous |-> tx[a].previous, new |-> tx[a].new]
  <2>1. overrides'[k] = Append(overrides[k], row)
    BY <1>5, CommitEffect
  <2>2. /\ Len(overrides'[k]) = n + 1
        /\ overrides'[k][n + 1] = row
        /\ \A i \in 1..n : overrides'[k][i] = overrides[k][i]
    BY <1>1, <2>1
  <2>3. /\ decisions'[k].outcome = row.new
        /\ decisions'[k].overridden
        /\ Exists(k)
        /\ decisions'[k].outcome \in Outcome
    BY <1>5, CommitEffect DEF Row, OpenTx, Exists
  <2>4. Exists(k)'
    BY <2>3, OutcomeAssumption DEF Exists, Absent
  <2>5. History(k)'[n + 2] = row.new
    BY <1>1, <2>2, <2>3, <2>4 DEF History
  <2>6. ASSUME NEW i \in 1..n
        PROVE  overrides'[k][i].new = History(k)'[i + 1]
    <3>1. i + 1 \in DOMAIN History(k)
      BY <1>1, <2>3 DEF History
    <3>2. History(k)'[i + 1] = History(k)[i + 1]
      BY <3>1, HistoryGrows
    <3> QED
      BY <1>2, <2>2, <3>2
  <2>7. \A i \in 1..Len(overrides'[k]) :
           overrides'[k][i].new = History(k)'[i + 1]
    BY <1>1, <2>2, <2>5, <2>6
  <2>8. Len(overrides'[k]) > 0
    BY <1>1, <2>2
  <2> QED
    BY <2>3, <2>7, <2>8
<1>6. CASE UNCHANGED <<decisions, overrides>>
  BY <1>3, <1>6
<1>7. ASSUME NEW c \in Consumers, RecordDecision(c), Exists(k)
      PROVE  decisions'[k] = decisions[k] /\ overrides'[k] = overrides[k]
  BY <1>7, InsertKeepsRows
<1>8. ASSUME NEW a \in Analysts, CommitOverride(a), tx[a].key # k
      PROVE  decisions'[k] = decisions[k] /\ overrides'[k] = overrides[k]
  BY <1>8, CommitEffect
<1> QED
  BY <1>3, <1>4, <1>5, <1>6, <1>7, <1>8, TableSteps

\* An event reaches the topic from the hand of a consumer.
LEMMA PublishedOutcomesStep ==
  ASSUME TypeOK, RowLockHolds, HeldEventsAreReal, PublishedOutcomesAreReal,
         [Next]_vars
  PROVE  PublishedOutcomesAreReal'
<1> SUFFICES ASSUME NEW m \in decisionTopic'
             PROVE  Real(m)'
  BY DEF PublishedOutcomesAreReal, Real
<1>1. CASE m \in decisionTopic
  <2>1. m \in DecisionMade /\ Real(m)
    BY <1>1 DEF PublishedOutcomesAreReal, Real, TypeOK
  <2> QED
    BY <2>1, RealStaysReal
<1>2. CASE m \notin decisionTopic
  <2>1. PICK c \in Consumers : PublishDecisionMade(c)
    BY <1>2 DEF Next, vars, ConsumerStep, OverrideStep, ReadMessage,
                RecordDecision, GetDecision, AbandonMessage, LockDecision,
                CommitOverride, RollbackOverride, RiskEvaluatedArrives
  <2>2. m = work[c].decision /\ work[c].at = "publish"
    BY <1>2, <2>1 DEF PublishDecisionMade, Enqueued
  <2>3. m \in DecisionMade /\ Real(m)
    BY <2>2 DEF HeldEventsAreReal, TypeOK, Reading, Recording, Publishing
  <2> QED
    BY <2>3, RealStaysReal
<1> QED
  BY <1>1, <1>2

\* The reason codes are written with the first outcome and never again.
LEMMA FailOpenStep ==
  ASSUME TypeOK, RowLockHolds, OverridesHaveDecisions, FailOpenStartsAsApprove,
         [Next]_vars
  PROVE  FailOpenStartsAsApprove'
<1> SUFFICES ASSUME NEW k \in Keys,
                    decisions'[k].reasonCodes = "fail_open_applied"
             PROVE  History(k)'[1] = "approve"
  BY DEF FailOpenStartsAsApprove
<1>1. CASE Exists(k) /\ decisions[k].reasonCodes = "fail_open_applied"
  <2>1. 1 \in DOMAIN History(k)
    BY <1>1 DEF History, TypeOK
  <2> QED
    BY <1>1, <2>1, HistoryGrows DEF FailOpenStartsAsApprove
<1>2. CASE Exists(k) /\ decisions[k].reasonCodes # "fail_open_applied"
  <2>1. CASE UNCHANGED <<decisions, overrides>>
    BY <1>2, <2>1
  <2>2. ASSUME NEW c \in Consumers, RecordDecision(c) PROVE FALSE
    BY <1>2, <2>2, InsertKeepsRows
  <2>3. ASSUME NEW a \in Analysts, CommitOverride(a) PROVE FALSE
    BY <1>2, <2>3, CommitEffect DEF Row
  <2> QED
    BY <2>1, <2>2, <2>3, <1>2, TableSteps
<1>3. CASE ~Exists(k)
  <2>1. decisions[k].reasonCodes # "fail_open_applied"
    BY <1>3 DEF Exists, Absent
  <2>2. CASE UNCHANGED <<decisions, overrides>>
    BY <2>1, <2>2
  <2>3. ASSUME NEW a \in Analysts, CommitOverride(a) PROVE FALSE
    BY <1>3, <2>1, <2>3, CommitEffect DEF Exists
  <2>4. ASSUME NEW c \in Consumers, RecordDecision(c)
        PROVE  History(k)'[1] = "approve"
    <3>1. /\ work[c].event.key = k
          /\ work[c].event.failOpen
          /\ decisions'[k].outcome = work[c].event.action
          /\ overrides' = overrides
      BY <1>3, <2>1, <2>4 DEF RecordDecision, TypeOK, buildReasonCodes, Exists
    <3>2. work[c].event.action = "approve"
      BY <2>4, <3>1 DEF RecordDecision, TypeOK, Reading, Recording, Publishing,
                        RiskEvaluated
    <3>3. overrides'[k] = <<>> /\ Exists(k)'
      BY <1>3, <3>1, <3>2, OutcomeAssumption
         DEF OverridesHaveDecisions, Exists, Absent
    <3> QED
      BY <3>1, <3>2, <3>3 DEF History
  <2> QED
    BY <2>2, <2>3, <2>4, TableSteps
<1> QED
  BY <1>1, <1>2, <1>3

-----------------------------------------------------------------------------
(* The theorems *)

\* IInv holds initially.
LEMMA Initially == Init => IInv
BY OutcomeAssumption
   DEF Init, IInv, TypeOK, OverridesHaveDecisions, RowLockHolds,
       ConflictsHaveRows, HeldEventsAreReal, OverrideTrailUnbroken,
       PublishedOutcomesAreReal, FailOpenStartsAsApprove, Exists, Absent,
       Reading, NoTx

\* Every step preserves IInv.
LEMMA Preserved == IInv /\ [Next]_vars => IInv'
BY TypeStep, OverridesHaveDecisionsStep, RowLockHoldsStep,
   ConflictsHaveRowsStep, HeldEventsAreRealStep, OverrideTrailStep,
   PublishedOutcomesStep, FailOpenStep DEF IInv

\* So IInv is an invariant.
LEMMA Inductive == Spec => []IInv
BY Initially, Preserved, PTL DEF Spec

\* Every table, topic, consumer and transaction is always well typed.
THEOREM TypeCorrect == Spec => []TypeOK
BY Inductive, PTL DEF IInv

\* However many analysts override one decision at once, its override rows form
\* an unbroken trail that ends in the outcome in force.
THEOREM TrailUnbroken == Spec => []OverrideTrailUnbroken
BY Inductive, PTL DEF IInv

\* No interleaving of consumers and overrides publishes an outcome the decision
\* has never had, or misreports whether it was overridden.
THEOREM PublishedReal == Spec => []PublishedOutcomesAreReal
BY Inductive, PTL DEF IInv

\* A fail-open decision always started as an approval.
THEOREM FailOpenApproves == Spec => []FailOpenStartsAsApprove
BY Inductive, PTL DEF IInv

\* The first evaluation of a payment decides it: reason codes and override rows
\* are never rewritten, and only an override changes the outcome.
THEOREM FirstWins == Spec => FirstEvaluationWins
<1>1. ASSUME IInv, [Next]_vars, NEW k \in Keys, Exists(k)
      PROVE  /\ decisions'[k].reasonCodes = decisions[k].reasonCodes
             /\ \/ decisions'[k].outcome = decisions[k].outcome
                \/ Len(overrides'[k]) = Len(overrides[k]) + 1
             /\ \A i \in 1..Len(overrides[k]) :
                   overrides'[k][i] = overrides[k][i]
  <2> USE <1>1 DEF IInv
  <2>1. CASE UNCHANGED <<decisions, overrides>>
    BY <2>1
  <2>2. ASSUME NEW c \in Consumers, RecordDecision(c)
        PROVE  decisions'[k] = decisions[k] /\ overrides'[k] = overrides[k]
    BY <2>2, InsertKeepsRows
  <2>3. ASSUME NEW a \in Analysts, CommitOverride(a), tx[a].key # k
        PROVE  decisions'[k] = decisions[k] /\ overrides'[k] = overrides[k]
    BY <2>3, CommitEffect
  <2>4. ASSUME NEW a \in Analysts, CommitOverride(a), tx[a].key = k
        PROVE  /\ decisions'[k].reasonCodes = decisions[k].reasonCodes
               /\ Len(overrides'[k]) = Len(overrides[k]) + 1
               /\ \A i \in 1..Len(overrides[k]) :
                     overrides'[k][i] = overrides[k][i]
    <3>1. overrides[k] \in Seq(OverrideRow)
      BY DEF TypeOK
    <3>2. overrides'[k] = Append(overrides[k],
             [previous |-> tx[a].previous, new |-> tx[a].new])
      BY <2>4, CommitEffect
    <3>3. decisions'[k].reasonCodes = decisions[k].reasonCodes
      BY <2>4, CommitEffect DEF Row
    <3> QED
      BY <3>1, <3>2, <3>3
  <2> QED
    BY <2>1, <2>2, <2>3, <2>4, TableSteps
<1>2. IInv /\ [Next]_vars =>
        [\A k \in Keys : Exists(k) =>
          /\ decisions'[k].reasonCodes = decisions[k].reasonCodes
          /\ \/ decisions'[k].outcome = decisions[k].outcome
             \/ Len(overrides'[k]) = Len(overrides[k]) + 1
          /\ \A i \in 1..Len(overrides[k]) :
                overrides'[k][i] = overrides[k][i]]_vars
  BY <1>1
<1> QED
  BY <1>2, Inductive, PTL DEF Spec, FirstEvaluationWins

-----------------------------------------------------------------------------
(* The service implements the ledger of outcomes *)

\* The ledger the refinement mapping shows.
Histories == [k \in Keys |-> History(k)]

\* The INSERT of a decision records the first entry of its ledger.
LEMMA InsertRecords ==
  ASSUME IInv, NEW c \in Consumers, RecordDecision(c)
  PROVE  \/ UNCHANGED <<Histories, decisionTopic>>
         \/ \E k \in Keys, o \in Outcome : Ledger!Record(k, o)
<1> USE DEF IInv
<1> PICK e \in RiskEvaluated : e = work[c].event
  BY DEF RecordDecision, TypeOK, Reading, Recording, Publishing
<1>1. e.key \in Keys /\ e.action \in Outcome
  BY DEF RiskEvaluated
<1>2. CASE Exists(e.key)
  <2>1. UNCHANGED <<decisions, overrides, decisionTopic>>
    BY <1>2 DEF RecordDecision
  <2> QED
    BY <2>1 DEF Histories, History, Exists
<1>3. CASE ~Exists(e.key)
  <2>1. /\ overrides' = overrides
        /\ decisionTopic' = decisionTopic
        /\ decisions'[e.key].outcome = e.action
        /\ \A k \in Keys \ {e.key} : decisions'[k] = decisions[k]
    BY <1>1, <1>3 DEF RecordDecision, TypeOK
  <2>2. Exists(e.key)'
    BY <1>1, <2>1, OutcomeAssumption DEF Exists, Absent
  <2>3. overrides[e.key] = <<>>
    BY <1>1, <1>3 DEF OverridesHaveDecisions
  <2>4. History(e.key) = <<>> /\ History(e.key)' = <<e.action>>
    BY <1>1, <1>3, <2>1, <2>2, <2>3 DEF History
  <2>5. \A k \in Keys \ {e.key} : History(k)' = History(k)
    BY <2>1 DEF History, Exists
  <2>6. Histories' = [Histories EXCEPT ![e.key] = <<e.action>>]
    BY <1>1, <2>4, <2>5 DEF Histories
  <2>7. Ledger!Record(e.key, e.action)
    BY <1>1, <2>1, <2>4, <2>6 DEF Ledger!Record, Histories
  <2> QED
    BY <1>1, <2>7
<1> QED
  BY <1>2, <1>3

\* The COMMIT of an override appends to the ledger of its decision.
LEMMA CommitOverrides ==
  ASSUME IInv, NEW a \in Analysts, CommitOverride(a)
  PROVE  \E k \in Keys, o \in Outcome : Ledger!Override(k, o)
<1> USE DEF IInv
<1> PICK k \in Keys : k = tx[a].key
  BY CommitEffect
<1> DEFINE n == Len(overrides[k])
           o == tx[a].new
           row == [previous |-> tx[a].previous, new |-> tx[a].new]
<1>1. overrides[k] \in Seq(OverrideRow) /\ n \in Nat
  BY DEF TypeOK
<1>2. /\ overrides'[k] = Append(overrides[k], row)
      /\ decisions'[k].outcome = o
      /\ row.previous = decisions[k].outcome
      /\ Exists(k)
      /\ o \in Outcome
  BY CommitEffect DEF OpenTx, Row, Exists
<1>3. Exists(k)'
  BY <1>2, OutcomeAssumption DEF Exists, Absent
<1>4. /\ Len(overrides'[k]) = n + 1
      /\ overrides'[k][n + 1] = row
      /\ \A i \in 1..n : overrides'[k][i] = overrides[k][i]
  BY <1>1, <1>2
<1>5. /\ History(k) \in Seq(Outcome)
      /\ Len(History(k)) = n + 1
      /\ History(k) # <<>>
  <2>1. decisions[k].outcome \in Outcome
    BY <1>2 DEF TypeOK, Exists, Row
  <2>2. \A i \in 1..n : overrides[k][i].previous \in Outcome
    <3>1. \A i \in 1..n : overrides[k][i] \in OverrideRow
      BY <1>1
    <3> QED
      BY <3>1 DEF OverrideRow
  <2>3. History(k) \in [1..n + 1 -> Outcome]
    BY <1>1, <1>2, <2>1, <2>2 DEF History
  <2> QED
    BY <1>1, <2>3
<1>6. History(k)' = Append(History(k), o)
  <2>1. History(k)' = [i \in 1..n + 2 |->
                         IF i <= n + 1 THEN overrides'[k][i].previous ELSE o]
    BY <1>1, <1>2, <1>3, <1>4 DEF History
  <2>2. Append(History(k), o) = [i \in 1..n + 2 |->
                         IF i <= n + 1 THEN History(k)[i] ELSE o]
    BY <1>1, <1>5
  <2>3. \A i \in 1..n + 1 : History(k)[i] = overrides'[k][i].previous
    BY <1>1, <1>2, <1>4 DEF History
  <2> QED
    BY <1>1, <2>1, <2>2, <2>3
<1>7. \A j \in Keys \ {k} : History(j)' = History(j)
  BY CommitEffect DEF History, Exists
<1>8. Histories' = [Histories EXCEPT ![k] = Append(@, o)]
  BY <1>6, <1>7 DEF Histories
<1>9. Ledger!Override(k, o)
  <2>1. Histories[k] # <<>>
    BY <1>5 DEF Histories
  <2>2. decisionTopic' = decisionTopic
    BY DEF CommitOverride
  <2> QED
    BY <1>8, <2>1, <2>2 DEF Ledger!Override, Histories
<1> QED
  BY <1>2, <1>9

\* Publishing announces an entry of the ledger.
LEMMA PublishAnnounces ==
  ASSUME IInv, NEW c \in Consumers, PublishDecisionMade(c)
  PROVE  \/ UNCHANGED <<Histories, decisionTopic>>
         \/ \E k \in Keys : \E i \in 1..Len(Histories[k]) :
               Ledger!Announce(k, i)
<1> USE DEF IInv
<1> DEFINE m == work[c].decision
<1>1. m \in DecisionMade /\ Real(m)
  BY DEF PublishDecisionMade, HeldEventsAreReal, TypeOK, Reading, Recording,
         Publishing
<1>2. UNCHANGED Histories
  BY DEF PublishDecisionMade, Histories, History, Exists
<1>3. CASE decisionTopic' = decisionTopic
  BY <1>2, <1>3
<1>4. CASE decisionTopic' = decisionTopic \cup {m}
  <2>1. PICK i \in DOMAIN History(m.key) :
           m.outcome = History(m.key)[i] /\ (m.overridden <=> i > 1)
    BY <1>1 DEF Real
  <2>2. m.key \in Keys /\ m.overridden \in BOOLEAN
    BY <1>1 DEF DecisionMade
  <2>3. i \in 1..Len(Histories[m.key])
    BY <2>1, <2>2 DEF Histories, History, TypeOK
  <2>4. m = [key        |-> m.key,
             outcome    |-> Histories[m.key][i],
             overridden |-> i > 1]
    BY <1>1, <2>1, <2>2 DEF Histories, DecisionMade
  <2>5. Ledger!Announce(m.key, i)
    BY <1>2, <1>4, <2>3, <2>4 DEF Ledger!Announce, Histories
  <2> QED
    BY <2>2, <2>3, <2>5
<1> QED
  BY <1>3, <1>4 DEF PublishDecisionMade, Enqueued

\* The decision service implements DecisionLedger: every step is a step of the
\* ledger or leaves it alone.
THEOREM LedgerImplemented == Spec => ImplementsLedger
<1>1. Init => Ledger!Init
  BY DEF Init, Ledger!Init, History, Exists
<1>2. IInv /\ [Next]_vars => [Ledger!Next]_<<Histories, decisionTopic>>
  <2> SUFFICES ASSUME IInv, [Next]_vars
               PROVE  [Ledger!Next]_<<Histories, decisionTopic>>
    OBVIOUS
  <2>1. ASSUME NEW c \in Consumers, RecordDecision(c)
        PROVE  [Ledger!Next]_<<Histories, decisionTopic>>
    BY <2>1, InsertRecords DEF Ledger!Next
  <2>2. ASSUME NEW a \in Analysts, CommitOverride(a)
        PROVE  [Ledger!Next]_<<Histories, decisionTopic>>
    BY <2>2, CommitOverrides DEF Ledger!Next
  <2>3. ASSUME NEW c \in Consumers, PublishDecisionMade(c)
        PROVE  [Ledger!Next]_<<Histories, decisionTopic>>
    BY <2>3, PublishAnnounces DEF Ledger!Next, Histories
  <2>4. ASSUME UNCHANGED <<decisions, overrides, decisionTopic>>
        PROVE  UNCHANGED <<Histories, decisionTopic>>
    BY <2>4 DEF Histories, History, Exists
  <2> QED
    BY <2>1, <2>2, <2>3, <2>4
       DEF Next, vars, ConsumerStep, OverrideStep, ReadMessage, GetDecision,
           AbandonMessage, LockDecision, RollbackOverride, RiskEvaluatedArrives
<1> QED
  BY <1>1, <1>2, Inductive, PTL
     DEF Spec, ImplementsLedger, Ledger!Spec, Ledger!vars, Histories

=============================================================================
