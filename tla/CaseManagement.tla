--------------------------- MODULE CaseManagement ---------------------------
(***************************************************************************)
(* The case-management service: Consumer.Run opens one case per decision   *)
(* for each decision.made event that says review or block, registers its   *)
(* SLA deadline in Redis and publishes case.created; gRPC handlers create, *)
(* assign, update and escalate cases, each change in a transaction that    *)
(* also writes a case_actions row.                                         *)
(*                                                                         *)
(* A consumer is one instance's loop, an agent one gRPC call at a time;    *)
(* they interleave at every database, Redis or Kafka call. The assignee,   *)
(* the actor and the notes are payload and are left out.                   *)
(***************************************************************************)
EXTENDS Naturals, Sequences, SequencesExt, Kafka

CONSTANTS Keys,        \* the decisions: (decision_id, tenant_id) pairs
          Outcome,     \* the outcomes of a decision
          Consumers,   \* one Consumer.Run per instance of the service
          Agents,      \* gRPC calls that may run at once
          Requested,   \* the priorities that CreateCase requests ask for
          MaxActions,  \* bound: case_actions rows of one case
          MaxTime      \* bound: the last tick of the clock

ASSUME MaxTimeAssumption == MaxTime \in Nat
ASSUME RequestedAssumption ==
    Requested \subseteq {"low", "medium", "high", "critical"}

VARIABLES decisionTopic,  \* decision.made
          caseTopic,      \* case.created, case.escalated and case.resolved
          cases,          \* the table cases: a row or NoCase for each key
          actions,        \* the table case_actions: the rows of each case
          sla,            \* the deadline under each case's SLA key, or NoSLA
          now,
          work            \* what each consumer and agent is doing

vars == <<decisionTopic, caseTopic, cases, actions, sla, now, work>>

Goroutines == Consumers \cup Agents

-----------------------------------------------------------------------------
(* Rows, events and control states *)

\* The part of a decision.made event that says what was decided; whether it was
\* overridden is decoded and not used.
DecisionMade == [key : Keys, outcome : Outcome, overridden : BOOLEAN]

CaseStatus == {"open", "in_review", "resolved", "escalated"}
CasePriority == {"low", "medium", "high", "critical"}

outcomeToPriority(outcome) ==
    CASE outcome = "block" -> "critical"
      [] outcome = "review" -> "high"
      [] OTHER -> "medium"

\* Stand-ins, in order, for 4, 24, 48 and 72 hours.
SLAHours == [critical |-> 1, high |-> 2, medium |-> 3, low |-> 4]
priorityToSLADeadline(priority) == now + SLAHours[priority]

Deadline == 1..MaxTime + SLAHours["low"]
NoSLA == 0

\* What a case is created with, and never changes.
Opening == [outcome : Outcome, priority : CasePriority, deadline : Deadline]
Case == [status : CaseStatus, opening : Opening]
NoCase == [status |-> "none"]
Exists(k) == cases[k] # NoCase

\* A case_actions row: AssignCase writes "assign", the others the new status.
Action == CaseStatus \cup {"assign"}
StatusAfter(action) == IF action = "assign" THEN "in_review" ELSE action

\* case.created carries the row, the other events only name the case.
Created == [type : {"case.created"}, key : Keys, row : Case]
Changed == [type : {"case.escalated", "case.resolved"}, key : Keys]
CaseEvent == Created \cup Changed

Idle        == [at |-> "idle"]
Creating    == [at : {"insert", "fetch"}, key : Keys, opening : Opening]
Registering == [at : {"register"}, key : Keys, deadline : Deadline, event : Created]
Publishing  == [at : {"publish"}, event : CaseEvent]
\* An open transaction has updated the row and holds its lock.
Updating    == [at : {"update"}, rpc : {"assign", "update", "escalate"},
                key : Keys, action : Action]

Init ==
    /\ decisionTopic = {}
    /\ caseTopic = {}
    /\ cases = [k \in Keys |-> NoCase]
    /\ actions = [k \in Keys |-> <<>>]
    /\ sla = [k \in Keys |-> NoSLA]
    /\ now = 0
    /\ work = [w \in Goroutines |-> Idle]

Become(w, state) == work' = [work EXCEPT ![w] = state]

-----------------------------------------------------------------------------
(* Creating a case *)

StartCreating(w, k, outcome, priority) ==
    Become(w, [at      |-> "insert",
               key     |-> k,
               opening |-> [outcome  |-> outcome,
                            priority |-> priority,
                            deadline |-> priorityToSLADeadline(priority)]])

\* Only review and block open a case.
ReadMessage(c) ==
    /\ work[c] = Idle
    /\ \E m \in decisionTopic :
        /\ decisionTopic' \in Delivered(decisionTopic, m)
        /\ IF m.outcome \in {"review", "block"}
           THEN StartCreating(c, m.key, m.outcome, outcomeToPriority(m.outcome))
           ELSE UNCHANGED work
    /\ UNCHANGED <<caseTopic, cases, actions, sla, now>>

\* The gRPC handler takes decision, outcome and priority from the request.
CreateCaseRequest(a, k, outcome, priority) ==
    /\ work[a] = Idle
    /\ StartCreating(a, k, outcome, priority)
    /\ UNCHANGED <<decisionTopic, caseTopic, cases, actions, sla, now>>

\* With the row in hand, the consumer registers the SLA, the handler publishes.
Continue(w, k, row) ==
    LET event == [type |-> "case.created", key |-> k, row |-> row] IN
    Become(w, IF w \in Consumers
              THEN [at       |-> "register",
                    key      |-> k,
                    deadline |-> work[w].opening.deadline,
                    event    |-> event]
              ELSE [at |-> "publish", event |-> event])

\* Fault: ON CONFLICT DO UPDATE.
CreateCase_Upsert(w) ==
    /\ work[w].at = "insert"
    /\ LET k == work[w].key
           status == IF Exists(k) THEN cases[k].status ELSE "open"
           row == [status |-> status, opening |-> work[w].opening] IN
        /\ cases' = [cases EXCEPT ![k] = row]
        /\ Continue(w, k, row)
    /\ UNCHANGED <<decisionTopic, caseTopic, actions, sla, now>>

\* INSERT ... ON CONFLICT DO NOTHING RETURNING; a conflict leads to a SELECT.
CreateCase(w) ==
    /\ work[w].at = "insert"
    /\ LET k == work[w].key
           row == [status |-> "open", opening |-> work[w].opening] IN
        \/ /\ ~Exists(k)
           /\ cases' = [cases EXCEPT ![k] = row]
           /\ Continue(w, k, row)
        \/ /\ Exists(k)
           /\ Become(w, [work[w] EXCEPT !.at = "fetch"])
           /\ UNCHANGED cases
    /\ UNCHANGED <<decisionTopic, caseTopic, actions, sla, now>>

GetCaseByDecision(w) ==
    /\ work[w].at = "fetch"
    /\ Continue(w, work[w].key, cases[work[w].key])
    /\ UNCHANGED <<decisionTopic, caseTopic, cases, actions, sla, now>>

\* Register sets the deadline computed from the event, whichever row the case
\* already had; a deadline in the past is not stored, an error, with or without
\* effect, is only logged.
Register(c) ==
    /\ work[c].at = "register"
    /\ LET k == work[c].key
           d == work[c].deadline IN
        sla' \in IF d > now THEN {sla, [sla EXCEPT ![k] = d]} ELSE {sla}
    /\ Become(c, [at |-> "publish", event |-> work[c].event])
    /\ UNCHANGED <<decisionTopic, caseTopic, cases, actions, now>>

PublishCaseEvent(w) ==
    /\ work[w].at = "publish"
    /\ caseTopic' \in Enqueued(caseTopic, work[w].event)
    /\ Become(w, Idle)
    /\ UNCHANGED <<decisionTopic, cases, actions, sla, now>>

-----------------------------------------------------------------------------
(* AssignCase, UpdateCaseStatus, EscalateCase *)

RowLocked(k) == \E a \in Agents : work[a].at = "update" /\ work[a].key = k

\* Fault: an unspecified status is let through.
ActionsOf_Unspecified(rpc) ==
    CASE rpc = "assign"   -> {"assign"}
      [] rpc = "update"   -> CaseStatus \cup {"unspecified"}
      [] rpc = "escalate" -> {"escalated"}

\* What a call writes to case_actions.
ActionsOf(rpc) ==
    CASE rpc = "assign"   -> {"assign"}
      [] rpc = "update"   -> CaseStatus
      [] rpc = "escalate" -> {"escalated"}

\* Fault: the UPDATE runs outside of the transaction.
UpdateCase_Autocommit(a, k, rpc, action) ==
    /\ work[a] = Idle
    /\ Exists(k)
    /\ ~RowLocked(k)
    /\ Len(actions[k]) < MaxActions
    /\ cases' = [cases EXCEPT ![k].status = StatusAfter(action)]
    /\ Become(a, [at |-> "update", rpc |-> rpc, key |-> k, action |-> action])
    /\ UNCHANGED <<decisionTopic, caseTopic, actions, sla, now>>

\* BEGIN and UPDATE, which waits for the lock of the row. No status is refused.
UpdateCase(a, k, rpc, action) ==
    /\ work[a] = Idle
    /\ Exists(k)
    /\ ~RowLocked(k)
    /\ Len(actions[k]) < MaxActions
    /\ Become(a, [at |-> "update", rpc |-> rpc, key |-> k, action |-> action])
    /\ UNCHANGED <<decisionTopic, caseTopic, cases, actions, sla, now>>

\* What is announced of an update: a resolution by UpdateCaseStatus and an
\* escalation by EscalateCase.
Announces(t) ==
    \/ t.rpc = "update" /\ t.action = "resolved"
    \/ t.rpc = "escalate"

Announcement(t) ==
    [type |-> IF t.action = "resolved" THEN "case.resolved" ELSE "case.escalated",
     key  |-> t.key]

\* INSERT of the action and COMMIT. A COMMIT that took effect may be reported
\* as failed, and then nothing is announced.
CommitUpdate(a) ==
    /\ work[a].at = "update"
    /\ LET t == work[a] IN
        /\ cases' = [cases EXCEPT ![t.key].status = StatusAfter(t.action)]
        /\ actions' = [actions EXCEPT ![t.key] = Append(@, t.action)]
        /\ \/ /\ Announces(t)
              /\ Become(a, [at |-> "publish", event |-> Announcement(t)])
           \/ Become(a, Idle)
    /\ UNCHANGED <<decisionTopic, caseTopic, sla, now>>

-----------------------------------------------------------------------------
(* Errors, crashes, the clock and the decision service *)

\* Fault: the error of a transaction is only logged, the event is sent.
Abandon_Announces(w) ==
    /\ work[w] # Idle
    /\ Become(w, IF work[w].at = "update" /\ Announces(work[w])
                 THEN [at |-> "publish", event |-> Announcement(work[w])]
                 ELSE Idle)
    /\ UNCHANGED <<decisionTopic, caseTopic, cases, actions, sla, now>>

\* An error ends a message or a call, a crash does too; an open transaction is
\* rolled back.
Abandon(w) ==
    /\ work[w] # Idle
    /\ Become(w, Idle)
    /\ UNCHANGED <<decisionTopic, caseTopic, cases, actions, sla, now>>

\* SLA keys expire at their deadline.
Tick ==
    /\ now < MaxTime
    /\ now' = now + 1
    /\ sla' = [k \in Keys |-> IF sla[k] <= now' THEN NoSLA ELSE sla[k]]
    /\ UNCHANGED <<decisionTopic, caseTopic, cases, actions, work>>

DecisionMadeArrives(m) ==
    /\ decisionTopic' = decisionTopic \cup {m}
    /\ UNCHANGED <<caseTopic, cases, actions, sla, now, work>>

ConsumerStep(c) == ReadMessage(c) \/ Register(c)

AgentStep(a) ==
    \/ \E k \in Keys, outcome \in Outcome, priority \in Requested :
         CreateCaseRequest(a, k, outcome, priority)
    \/ \E k \in Keys, rpc \in {"assign", "update", "escalate"} :
         \E action \in ActionsOf(rpc) : UpdateCase(a, k, rpc, action)
    \/ CommitUpdate(a)

WorkerStep(w) ==
    \/ CreateCase(w)
    \/ GetCaseByDecision(w)
    \/ PublishCaseEvent(w)
    \/ Abandon(w)

Next ==
    \/ \E c \in Consumers : ConsumerStep(c)
    \/ \E a \in Agents : AgentStep(a)
    \/ \E w \in Goroutines : WorkerStep(w)
    \/ Tick
    \/ \E m \in DecisionMade : DecisionMadeArrives(m)

Spec == Init /\ [][Next]_vars

-----------------------------------------------------------------------------
(* Properties *)

TypeOK ==
    /\ decisionTopic \subseteq DecisionMade
    /\ caseTopic \subseteq CaseEvent
    /\ cases \in [Keys -> Case \cup {NoCase}]
    /\ actions \in [Keys -> Seq(Action)]
    /\ sla \in [Keys -> Deadline \cup {NoSLA}]
    /\ now \in 0..MaxTime
    /\ work \in [Goroutines -> {Idle} \cup Creating \cup Registering
                                 \cup Publishing \cup Updating]

\* The statuses case k has had.
StatusesOf(k) ==
    {"open"} \cup {StatusAfter(actions[k][i]) : i \in DOMAIN actions[k]}

\* The status of a case is the one its last action gave it, or open: the two
\* writes of an update are seen together or not at all, whatever calls run at
\* once, fail or crash.
CaseTrailUnbroken ==
    \A k \in Keys :
        IF Exists(k)
        THEN cases[k].status = IF actions[k] = <<>> THEN "open"
                               ELSE StatusAfter(Last(actions[k]))
        ELSE actions[k] = <<>>

\* What is announced of a case is true of it: case.created, repeated for every
\* repeated decision, carries what the case was opened with and a status it has
\* had; case.resolved and case.escalated follow a committed action.
AnnouncedCasesAreReal ==
    \A e \in caseTopic :
        /\ Exists(e.key)
        /\ CASE e.type = "case.created"   -> /\ e.row.opening = cases[e.key].opening
                                             /\ e.row.status \in StatusesOf(e.key)
             [] e.type = "case.escalated" -> "escalated" \in StatusesOf(e.key)
             [] e.type = "case.resolved"  -> "resolved" \in StatusesOf(e.key)

\* The first event or request opens the case of a decision; later ones, with
\* another outcome even, change nothing of it, and its status changes only
\* together with one new action.
FirstOpeningWins ==
    [][\A k \in Keys : Exists(k) =>
        /\ cases'[k].opening = cases[k].opening
        /\ \/ UNCHANGED <<cases[k], actions[k]>>
           \/ actions'[k] = Append(actions[k], Last(actions'[k]))
      ]_vars

\* "Key: cm:sla:{case_id}  Value: deadline ... When the key expires, the SLA has
\* been breached" (cache.go): the SLA key of a case holds the case's deadline.
SLAKeysHoldDeadlines ==
    \A k \in Keys : sla[k] # NoSLA => sla[k] = cases[k].opening.deadline

=============================================================================
