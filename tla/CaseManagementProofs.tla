------------------------ MODULE CaseManagementProofs ------------------------
(***************************************************************************)
(* Proofs about CaseManagement, for every set of decisions, outcomes,      *)
(* consumers and calls, and every value of the bounds.                     *)
(*                                                                         *)
(* An announcement is made some steps after what it tells of. It stays     *)
(* true because a case never loses its opening nor a status it has had;    *)
(* the invariant therefore says of the events that a worker still carries  *)
(* what AnnouncedCasesAreReal says of those on the topic.                  *)
(***************************************************************************)
EXTENDS CaseManagement, TLAPS

\* What AnnouncedCasesAreReal says of one event.
Real(e) ==
    /\ Exists(e.key)
    /\ e.type = "case.created"   => /\ e.row.opening = cases[e.key].opening
                                    /\ e.row.status \in StatusesOf(e.key)
    /\ e.type = "case.escalated" => "escalated" \in StatusesOf(e.key)
    /\ e.type = "case.resolved"  => "resolved" \in StatusesOf(e.key)

\* A worker that has seen a conflict or holds a row's lock works on a case that
\* exists, updates it as its call may, and carries events that are real.
WorkIsReal ==
    \A w \in Goroutines :
        /\ work[w].at \in {"fetch", "update"} => Exists(work[w].key)
        /\ work[w].at = "update" => work[w].action \in ActionsOf(work[w].rpc)
        /\ work[w].at \in {"register", "publish"} => Real(work[w].event)

IInv ==
    /\ TypeOK
    /\ CaseTrailUnbroken
    /\ WorkIsReal
    /\ AnnouncedCasesAreReal

-----------------------------------------------------------------------------
(* Types *)

\* The new state of a worker keeps the workers well typed.
LEMMA BecomeType ==
  ASSUME TypeOK, NEW w \in Goroutines,
         NEW s \in {Idle} \cup Creating \cup Registering \cup Publishing \cup Updating,
         Become(w, s)
  PROVE  /\ work' \in [Goroutines -> {Idle} \cup Creating \cup Registering
                                       \cup Publishing \cup Updating]
         /\ work'[w] = s
         /\ \A v \in Goroutines : v # w => work'[v] = work[v]
BY DEF TypeOK, Become

\* Each control state carries what its step needs.
LEMMA WorkFields ==
  ASSUME TypeOK, NEW w \in Goroutines
  PROVE  /\ work[w].at \in {"insert", "fetch"} => work[w] \in Creating
         /\ work[w].at = "register" => work[w] \in Registering
         /\ work[w].at = "publish" => work[w] \in Publishing
         /\ work[w].at = "update" => work[w] \in Updating
BY DEF TypeOK, Idle, Creating, Registering, Publishing, Updating

\* The opening of a new case: its deadline is within the bounds of the clock.
LEMMA OpeningType ==
  ASSUME TypeOK, NEW w \in Goroutines, NEW k \in Keys, NEW outcome \in Outcome,
         NEW priority \in CasePriority
  PROVE  [at |-> "insert", key |-> k,
          opening |-> [outcome  |-> outcome, priority |-> priority,
                       deadline |-> priorityToSLADeadline(priority)]] \in Creating
<1>1. priorityToSLADeadline(priority) \in Deadline
  BY MaxTimeAssumption
     DEF priorityToSLADeadline, Deadline, SLAHours, CasePriority, TypeOK
<1> QED
  BY <1>1 DEF Creating, Opening

\* What a worker goes on with once it has the row of the case.
LEMMA ContinueType ==
  ASSUME TypeOK, NEW w \in Goroutines, work[w] \in Creating, NEW row \in Case,
         Continue(w, work[w].key, row)
  PROVE  /\ work' \in [Goroutines -> {Idle} \cup Creating \cup Registering
                                       \cup Publishing \cup Updating]
         /\ work'[w].at \in {"register", "publish"}
         /\ work'[w].event = [type |-> "case.created", key |-> work[w].key, row |-> row]
         /\ \A v \in Goroutines : v # w => work'[v] = work[v]
<1> DEFINE event == [type |-> "case.created", key |-> work[w].key, row |-> row]
           reg == [at |-> "register", key |-> work[w].key,
                   deadline |-> work[w].opening.deadline, event |-> event]
           pub == [at |-> "publish", event |-> event]
<1>1. event \in Created
  BY DEF Created, Creating
<1>2. reg \in Registering
  BY <1>1 DEF Registering, Creating, Opening
<1>3. pub \in Publishing
  BY <1>1 DEF Publishing, CaseEvent
<1>4. CASE w \in Consumers
  <2>1. Become(w, reg)
    BY <1>4 DEF Continue
  <2> QED
    BY <2>1, <1>2, BecomeType
<1>5. CASE w \notin Consumers
  <2>1. Become(w, pub)
    BY <1>5 DEF Continue
  <2> QED
    BY <2>1, <1>3, BecomeType
<1> QED
  BY <1>4, <1>5

\* A case that exists is a row, and the absent one is none.
LEMMA ExistsType ==
  ASSUME TypeOK, NEW k \in Keys
  PROVE  /\ Exists(k) <=> cases[k] \in Case
         /\ Exists(k) => /\ cases[k].opening \in Opening
                         /\ cases[k].status \in CaseStatus
                         /\ cases[k] = [status |-> cases[k].status,
                                        opening |-> cases[k].opening]
<1>1. NoCase \notin Case
  BY DEF NoCase, Case, CaseStatus
<1> QED
  BY <1>1 DEF TypeOK, Exists, Case

-----------------------------------------------------------------------------
(* The steps of the table *)

\* How a step can change the rows and their actions: CreateCase inserts an open
\* case where there was none, CommitUpdate appends an action and gives the case
\* its status, and nothing else writes.
LEMMA TableStep ==
  ASSUME TypeOK, [Next]_vars
  PROVE  \/ UNCHANGED <<cases, actions>>
         \/ \E w \in Goroutines :
               /\ work[w].at = "insert"
               /\ work[w].key \in Keys /\ work[w].opening \in Opening
               /\ ~Exists(work[w].key)
               /\ cases' = [cases EXCEPT ![work[w].key] =
                              [status |-> "open", opening |-> work[w].opening]]
               /\ UNCHANGED actions
         \/ \E a \in Agents :
               /\ work[a].at = "update"
               /\ work[a].key \in Keys /\ work[a].action \in Action
               /\ cases' = [cases EXCEPT ![work[a].key].status =
                                         StatusAfter(work[a].action)]
               /\ actions' = [actions EXCEPT ![work[a].key] =
                                         Append(@, work[a].action)]
<1>1. ASSUME NEW w \in Goroutines, CreateCase(w), cases' # cases
      PROVE  /\ work[w].at = "insert"
             /\ work[w].key \in Keys /\ work[w].opening \in Opening
             /\ ~Exists(work[w].key)
             /\ cases' = [cases EXCEPT ![work[w].key] =
                            [status |-> "open", opening |-> work[w].opening]]
             /\ UNCHANGED actions
  BY <1>1, WorkFields DEF CreateCase, Creating
<1>2. ASSUME NEW a \in Agents, CommitUpdate(a)
      PROVE  /\ work[a].at = "update"
             /\ work[a].key \in Keys /\ work[a].action \in Action
             /\ cases' = [cases EXCEPT ![work[a].key].status =
                                       StatusAfter(work[a].action)]
             /\ actions' = [actions EXCEPT ![work[a].key] =
                                       Append(@, work[a].action)]
  <2>1. a \in Goroutines
    BY DEF Goroutines
  <2> QED
    BY <1>2, <2>1, WorkFields DEF CommitUpdate, Updating
<1>3. ASSUME NEW w \in Goroutines, CreateCase(w) PROVE UNCHANGED actions
  BY <1>3 DEF CreateCase
<1> QED
  BY <1>1, <1>2, <1>3 DEF Next, vars, ConsumerStep, AgentStep, WorkerStep,
     ReadMessage, Register, CreateCaseRequest, UpdateCase, GetCaseByDecision,
     PublishCaseEvent, Abandon, Tick, DecisionMadeArrives

\* What a committed update leaves of its own case.
LEMMA CommitRow ==
  ASSUME TypeOK, NEW k \in Keys, NEW action \in Action, Exists(k),
         cases' = [cases EXCEPT ![k].status = StatusAfter(action)],
         actions' = [actions EXCEPT ![k] = Append(@, action)]
  PROVE  /\ cases'[k] = [status |-> StatusAfter(action),
                         opening |-> cases[k].opening]
         /\ cases'[k] \in Case
         /\ actions'[k] = Append(actions[k], action)
         /\ actions'[k] \in Seq(Action) /\ actions'[k] # <<>>
         /\ Last(actions'[k]) = action
         /\ \A j \in Keys : j # k => UNCHANGED <<cases[j], actions[j]>>
<1>1. cases[k] \in Case /\ k \in DOMAIN cases
  BY ExistsType DEF TypeOK
<1>2. actions[k] \in Seq(Action)
  BY DEF TypeOK
<1>3. StatusAfter(action) \in CaseStatus
  BY DEF StatusAfter, Action, CaseStatus
<1>4. cases'[k] = [cases[k] EXCEPT !.status = StatusAfter(action)]
  BY <1>1
<1>5. actions'[k] = Append(actions[k], action)
  BY DEF TypeOK
<1>6. /\ cases'[k] = [status |-> StatusAfter(action), opening |-> cases[k].opening]
      /\ cases'[k] \in Case
  BY <1>1, <1>3, <1>4 DEF Case
<1>7. \A j \in Keys : j # k => UNCHANGED <<cases[j], actions[j]>>
  BY DEF TypeOK
<1>8. /\ actions'[k] \in Seq(Action) /\ actions'[k] # <<>>
      /\ Last(actions'[k]) = action
  BY <1>2, <1>5 DEF Last
<1> QED
  BY <1>5, <1>6, <1>7, <1>8

\* A case keeps what it was opened with, and the statuses it has had.
LEMMA HistoryStays ==
  ASSUME IInv, [Next]_vars, NEW k \in Keys, Exists(k)
  PROVE  /\ Exists(k)'
         /\ cases'[k].opening = cases[k].opening
         /\ StatusesOf(k) \subseteq StatusesOf(k)'
<1> USE DEF IInv
<1>1. CASE UNCHANGED <<cases, actions>>
  BY <1>1 DEF Exists, StatusesOf
<1>2. ASSUME NEW w \in Goroutines, work[w].key \in Keys, ~Exists(work[w].key),
             cases' = [cases EXCEPT ![work[w].key] =
                         [status |-> "open", opening |-> work[w].opening]],
             UNCHANGED actions
      PROVE  cases'[k] = cases[k] /\ UNCHANGED actions
  BY <1>2 DEF TypeOK
<1>3. ASSUME NEW a \in Agents, work[a].at = "update", work[a].key \in Keys,
             work[a].action \in Action,
             cases' = [cases EXCEPT ![work[a].key].status =
                                         StatusAfter(work[a].action)],
             actions' = [actions EXCEPT ![work[a].key] =
                                         Append(@, work[a].action)]
      PROVE  /\ Exists(k)'
             /\ cases'[k].opening = cases[k].opening
             /\ StatusesOf(k) \subseteq StatusesOf(k)'
  <2>1. Exists(work[a].key)
    BY <1>3 DEF WorkIsReal, Goroutines
  <2>2. CASE k # work[a].key
    BY <1>3, <2>1, <2>2, CommitRow DEF Exists, StatusesOf
  <2>3. CASE k = work[a].key
    <3> DEFINE j == work[a].key
    <3>0. /\ cases'[j] = [status |-> StatusAfter(work[a].action),
                          opening |-> cases[j].opening]
          /\ cases'[j] \in Case
          /\ actions'[j] = Append(actions[j], work[a].action)
      BY <1>3, <2>1, CommitRow
    <3>1. /\ cases'[k] \in Case
          /\ cases'[k].opening = cases[k].opening
          /\ actions'[k] = Append(actions[k], work[a].action)
      BY <2>3, <3>0
    <3>2. Exists(k)'
      BY <3>1 DEF Exists, NoCase, Case, CaseStatus
    <3>3. \A i \in DOMAIN actions[k] :
            i \in DOMAIN actions'[k] /\ actions'[k][i] = actions[k][i]
      BY <3>1 DEF TypeOK
    <3> QED
      BY <3>1, <3>2, <3>3 DEF StatusesOf
  <2> QED
    BY <2>2, <2>3
<1> QED
  BY <1>1, <1>2, <1>3, TableStep DEF Exists, StatusesOf

\* So an event about a case that is real stays so.
LEMMA RealStays ==
  ASSUME IInv, [Next]_vars, NEW e \in CaseEvent, Real(e)
  PROVE  Real(e)'
<1>1. e.key \in Keys /\ Exists(e.key)
  BY DEF CaseEvent, Created, Changed, Real
<1> QED
  BY <1>1, HistoryStays DEF Real

\* The status of a case is one it has had.
LEMMA StatusHad ==
  ASSUME TypeOK, CaseTrailUnbroken, NEW k \in Keys, Exists(k)
  PROVE  cases[k].status \in StatusesOf(k)
<1>1. actions[k] \in Seq(Action)
  BY DEF TypeOK
<1>2. CASE actions[k] = <<>>
  BY <1>2 DEF CaseTrailUnbroken, StatusesOf
<1>3. CASE actions[k] # <<>>
  <2>1. Len(actions[k]) \in DOMAIN actions[k]
    BY <1>1, <1>3
  <2>2. cases[k].status = StatusAfter(actions[k][Len(actions[k])])
    BY <1>3 DEF CaseTrailUnbroken, Last
  <2> QED
    BY <2>1, <2>2 DEF StatusesOf
<1> QED
  BY <1>2, <1>3

-----------------------------------------------------------------------------
(* Preservation, one lemma for each part of IInv *)

\* The table, its actions, the SLA keys, the topics and the workers stay well
\* typed.
LEMMA TypeStep ==
  ASSUME IInv, [Next]_vars PROVE TypeOK'
<1> USE DEF IInv
<1>1. ASSUME NEW c \in Consumers, ReadMessage(c) PROVE TypeOK'
  <2>1. c \in Goroutines
    BY DEF Goroutines
  <2>2. PICK m \in decisionTopic :
          /\ decisionTopic' \in Delivered(decisionTopic, m)
          /\ \/ UNCHANGED work
             \/ StartCreating(c, m.key, m.outcome, outcomeToPriority(m.outcome))
    BY <1>1 DEF ReadMessage
  <2>3. m.key \in Keys /\ m.outcome \in Outcome
    BY DEF TypeOK, DecisionMade
  <2>4. outcomeToPriority(m.outcome) \in CasePriority
    BY DEF outcomeToPriority, CasePriority
  <2>5. work' \in [Goroutines -> {Idle} \cup Creating \cup Registering
                                \cup Publishing \cup Updating]
    <3>1. CASE UNCHANGED work
      BY <3>1 DEF TypeOK
    <3>2. CASE StartCreating(c, m.key, m.outcome, outcomeToPriority(m.outcome))
      BY <3>2, <2>1, <2>3, <2>4, OpeningType, BecomeType DEF StartCreating
    <3> QED
      BY <2>2, <3>1, <3>2
  <2>6. decisionTopic' \subseteq DecisionMade
    BY <2>2 DEF Delivered, TypeOK
  <2> QED
    BY <1>1, <2>5, <2>6 DEF ReadMessage, TypeOK
<1>2. ASSUME NEW c \in Consumers, Register(c) PROVE TypeOK'
  <2>1. c \in Goroutines /\ work[c] \in Registering
    BY <1>2, WorkFields DEF Register, Goroutines
  <2>2. [at |-> "publish", event |-> work[c].event] \in Publishing
    BY <2>1 DEF Registering, Publishing, CaseEvent
  <2>3. work[c].key \in Keys /\ work[c].deadline \in Deadline
    BY <2>1 DEF Registering
  <2>4. sla' \in [Keys -> Deadline \cup {NoSLA}]
    BY <1>2, <2>3 DEF Register, TypeOK
  <2> QED
    BY <1>2, <2>1, <2>2, <2>4, BecomeType DEF Register, TypeOK
<1>3. ASSUME NEW a \in Agents, NEW k \in Keys, NEW outcome \in Outcome,
             NEW priority \in Requested, CreateCaseRequest(a, k, outcome, priority)
      PROVE  TypeOK'
  <2>1. a \in Goroutines /\ priority \in CasePriority
    BY RequestedAssumption DEF Goroutines, CasePriority
  <2> QED
    BY <1>3, <2>1, OpeningType, BecomeType
       DEF CreateCaseRequest, StartCreating, TypeOK
<1>4. ASSUME NEW a \in Agents, NEW k \in Keys,
             NEW rpc \in {"assign", "update", "escalate"},
             NEW action \in ActionsOf(rpc), UpdateCase(a, k, rpc, action)
      PROVE  TypeOK'
  <2>1. a \in Goroutines
    BY DEF Goroutines
  <2>2. action \in Action
    BY DEF ActionsOf, Action, CaseStatus
  <2>3. [at |-> "update", rpc |-> rpc, key |-> k, action |-> action] \in Updating
    BY <2>2 DEF Updating
  <2> QED
    BY <1>4, <2>1, <2>3, BecomeType DEF UpdateCase, TypeOK
<1>5. ASSUME NEW a \in Agents, CommitUpdate(a) PROVE TypeOK'
  <2>1. a \in Goroutines /\ work[a] \in Updating
    BY <1>5, WorkFields DEF CommitUpdate, Goroutines
  <2>2. work[a].key \in Keys /\ work[a].action \in Action
    BY <2>1 DEF Updating
  <2>3. Exists(work[a].key)
    BY <1>5, <2>1 DEF CommitUpdate, WorkIsReal
  <2>4. Announcement(work[a]) \in Changed
    BY <2>2 DEF Announcement, Changed
  <2>5. [at |-> "publish", event |-> Announcement(work[a])] \in Publishing
    BY <2>4 DEF Publishing, CaseEvent
  <2>6. work' \in [Goroutines -> {Idle} \cup Creating \cup Registering
                                \cup Publishing \cup Updating]
    BY <1>5, <2>1, <2>5, BecomeType DEF CommitUpdate
  <2>7. /\ cases' = [cases EXCEPT ![work[a].key].status = StatusAfter(work[a].action)]
        /\ actions' = [actions EXCEPT ![work[a].key] = Append(@, work[a].action)]
    BY <1>5 DEF CommitUpdate
  <2>8. /\ DOMAIN cases' = Keys /\ cases' = [k \in Keys |-> cases'[k]]
        /\ DOMAIN actions' = Keys /\ actions' = [k \in Keys |-> actions'[k]]
    BY <2>7 DEF TypeOK
  <2>9. \A k \in Keys : cases'[k] \in Case \cup {NoCase} /\ actions'[k] \in Seq(Action)
    BY <2>2, <2>3, <2>7, CommitRow DEF TypeOK
  <2>10. /\ cases' \in [Keys -> Case \cup {NoCase}]
         /\ actions' \in [Keys -> Seq(Action)]
    BY <2>8, <2>9
  <2> QED
    BY <1>5, <2>6, <2>10 DEF CommitUpdate, TypeOK
<1>6. ASSUME NEW w \in Goroutines, CreateCase(w) PROVE TypeOK'
  <2>1. work[w] \in Creating
    BY <1>6, WorkFields DEF CreateCase
  <2>2. work[w].key \in Keys /\ work[w].opening \in Opening
    BY <2>1 DEF Creating
  <2>3. [status |-> "open", opening |-> work[w].opening] \in Case
    BY <2>2 DEF Case, CaseStatus
  <2>4. [work[w] EXCEPT !.at = "fetch"] \in Creating
    BY <2>1 DEF Creating
  <2>5. work' \in [Goroutines -> {Idle} \cup Creating \cup Registering
                                \cup Publishing \cup Updating]
    BY <1>6, <2>1, <2>3, <2>4, ContinueType, BecomeType DEF CreateCase
  <2>6. cases' \in [Keys -> Case \cup {NoCase}]
    BY <1>6, <2>2, <2>3 DEF CreateCase, TypeOK
  <2> QED
    BY <1>6, <2>5, <2>6 DEF CreateCase, TypeOK
<1>7. ASSUME NEW w \in Goroutines, GetCaseByDecision(w) PROVE TypeOK'
  <2>1. work[w] \in Creating /\ Exists(work[w].key)
    BY <1>7, WorkFields DEF GetCaseByDecision, WorkIsReal
  <2>2. cases[work[w].key] \in Case
    BY <2>1, ExistsType DEF Creating
  <2> QED
    BY <1>7, <2>1, <2>2, ContinueType DEF GetCaseByDecision, TypeOK
<1>8. ASSUME NEW w \in Goroutines, PublishCaseEvent(w) PROVE TypeOK'
  <2>1. work[w].event \in CaseEvent
    BY <1>8, WorkFields DEF PublishCaseEvent, Publishing
  <2> QED
    BY <1>8, <2>1, BecomeType DEF PublishCaseEvent, Enqueued, TypeOK
<1>9. ASSUME NEW w \in Goroutines, Abandon(w) PROVE TypeOK'
  BY <1>9, BecomeType DEF Abandon, TypeOK
<1>10. CASE Tick
  <2>1. now' \in 0..MaxTime
    BY <1>10, MaxTimeAssumption DEF Tick, TypeOK
  <2>2. sla' \in [Keys -> Deadline \cup {NoSLA}]
    BY <1>10 DEF Tick, TypeOK
  <2> QED
    BY <1>10, <2>1, <2>2 DEF Tick, TypeOK
<1>11. ASSUME NEW m \in DecisionMade, DecisionMadeArrives(m) PROVE TypeOK'
  BY <1>11 DEF DecisionMadeArrives, TypeOK
<1>12. CASE UNCHANGED vars
  BY <1>12 DEF vars, TypeOK
<1> QED
  BY <1>1, <1>2, <1>3, <1>4, <1>5, <1>6, <1>7, <1>8, <1>9, <1>10, <1>11, <1>12
     DEF Next, ConsumerStep, AgentStep, WorkerStep

\* A row and its actions change together.
LEMMA TrailStep ==
  ASSUME IInv, [Next]_vars PROVE CaseTrailUnbroken'
<1> USE DEF IInv
<1>1. CASE UNCHANGED <<cases, actions>>
  BY <1>1 DEF CaseTrailUnbroken, Exists
<1>2. ASSUME NEW w \in Goroutines, work[w].key \in Keys, work[w].opening \in Opening,
             ~Exists(work[w].key),
             cases' = [cases EXCEPT ![work[w].key] =
                         [status |-> "open", opening |-> work[w].opening]],
             UNCHANGED actions
      PROVE  CaseTrailUnbroken'
  BY <1>2 DEF CaseTrailUnbroken, TypeOK, Exists, NoCase
<1>3. ASSUME NEW a \in Agents, work[a].at = "update", work[a].key \in Keys,
             work[a].action \in Action,
             cases' = [cases EXCEPT ![work[a].key].status =
                                         StatusAfter(work[a].action)],
             actions' = [actions EXCEPT ![work[a].key] =
                                         Append(@, work[a].action)]
      PROVE  CaseTrailUnbroken'
  <2>0. PICK j \in Keys : j = work[a].key
    BY <1>3
  <2>1. Exists(j)
    BY <1>3, <2>0 DEF WorkIsReal, Goroutines
  <2>2. /\ cases'[j] = [status |-> StatusAfter(work[a].action),
                        opening |-> cases[j].opening]
        /\ actions'[j] # <<>> /\ Last(actions'[j]) = work[a].action
        /\ \A k \in Keys : k # j => UNCHANGED <<cases[k], actions[k]>>
    BY <1>3, <2>0, <2>1, CommitRow
  <2>3. Exists(j)'
    BY <2>1, HistoryStays
  <2> QED
    BY <2>2, <2>3 DEF CaseTrailUnbroken, Exists
<1> QED
  BY <1>1, <1>2, <1>3, TableStep

\* What a worker carries stays real, and what it takes up is.
LEMMA WorkStep ==
  ASSUME IInv, [Next]_vars PROVE WorkIsReal'
<1> USE DEF IInv
<1> DEFINE Fine(v) ==
      /\ work[v].at \in {"fetch", "update"} => Exists(work[v].key)
      /\ work[v].at = "update" => work[v].action \in ActionsOf(work[v].rpc)
      /\ work[v].at \in {"register", "publish"} => Real(work[v].event)
<1>1. ASSUME NEW v \in Goroutines, work'[v] = work[v] PROVE Fine(v)'
  <2>1. CASE work[v].at \in {"fetch", "update"}
    <3>1. work[v].key \in Keys /\ Exists(work[v].key)
      BY <2>1, WorkFields DEF WorkIsReal, Creating, Updating
    <3>2. Exists(work[v].key)'
      BY <1>1, <3>1, HistoryStays DEF Exists
    <3> QED
      BY <1>1, <2>1, <3>2 DEF WorkIsReal, ActionsOf
  <2>2. CASE work[v].at \in {"register", "publish"}
    <3>1. PICK e \in CaseEvent : e = work[v].event
      BY <2>2, WorkFields DEF Registering, Publishing, CaseEvent
    <3>2. Real(e)'
      BY <2>2, <3>1, RealStays DEF WorkIsReal
    <3>3. e = work'[v].event
      BY <1>1, <3>1
    <3> QED
      BY <1>1, <2>2, <3>2, <3>3 DEF Real, Exists, StatusesOf
  <2>3. CASE work[v].at \notin {"fetch", "update", "register", "publish"}
    BY <1>1, <2>3
  <2> QED
    BY <2>1, <2>2, <2>3
\* It is enough to look at the worker that takes the step.
<1>2. ASSUME NEW w \in Goroutines, \A v \in Goroutines : v # w => work'[v] = work[v],
             Fine(w)'
      PROVE  WorkIsReal'
  BY <1>1, <1>2 DEF WorkIsReal
<1>3. ASSUME UNCHANGED work PROVE WorkIsReal'
  BY <1>1, <1>3 DEF WorkIsReal
<1>4. ASSUME NEW c \in Consumers, ReadMessage(c) PROVE WorkIsReal'
  <2>1. c \in Goroutines
    BY DEF Goroutines
  <2>2. CASE UNCHANGED work
    BY <2>2, <1>3
  <2>3. CASE work' # work
    <3>1. /\ work'[c].at = "insert"
          /\ \A v \in Goroutines : v # c => work'[v] = work[v]
      BY <1>4, <2>1, <2>3 DEF ReadMessage, StartCreating, Become, TypeOK
    <3> QED
      BY <2>1, <3>1, <1>2
  <2> QED
    BY <2>2, <2>3
<1>5. ASSUME NEW c \in Consumers, Register(c) PROVE WorkIsReal'
  <2>1. c \in Goroutines
    BY DEF Goroutines
  <2>2. PICK e \in CaseEvent : e = work[c].event
    BY <1>5, <2>1, WorkFields DEF Register, Registering, CaseEvent
  <2>3. Real(e)'
    BY <1>5, <2>1, <2>2, RealStays DEF Register, WorkIsReal
  <2>4. /\ work'[c] = [at |-> "publish", event |-> e]
        /\ \A v \in Goroutines : v # c => work'[v] = work[v]
    BY <1>5, <2>1, <2>2 DEF Register, Become, TypeOK
  <2>5. Fine(c)'
    BY <2>3, <2>4 DEF Real, Exists, StatusesOf
  <2> QED
    BY <2>1, <2>4, <2>5, <1>2
<1>6. ASSUME NEW a \in Agents, NEW k \in Keys, NEW outcome \in Outcome,
             NEW priority \in Requested, CreateCaseRequest(a, k, outcome, priority)
      PROVE  WorkIsReal'
  <2>1. a \in Goroutines
    BY DEF Goroutines
  <2>2. /\ work'[a].at = "insert"
        /\ \A v \in Goroutines : v # a => work'[v] = work[v]
    BY <1>6, <2>1 DEF CreateCaseRequest, StartCreating, Become, TypeOK
  <2> QED
    BY <2>1, <2>2, <1>2
<1>7. ASSUME NEW a \in Agents, NEW k \in Keys,
             NEW rpc \in {"assign", "update", "escalate"},
             NEW action \in ActionsOf(rpc), UpdateCase(a, k, rpc, action)
      PROVE  WorkIsReal'
  <2>1. a \in Goroutines
    BY DEF Goroutines
  <2>2. /\ work'[a] = [at |-> "update", rpc |-> rpc, key |-> k, action |-> action]
        /\ \A v \in Goroutines : v # a => work'[v] = work[v]
        /\ Exists(k)'
    BY <1>7, <2>1 DEF UpdateCase, Become, TypeOK, Exists
  <2>3. Fine(a)'
    BY <2>2 DEF Exists, ActionsOf
  <2> QED
    BY <2>1, <2>2, <2>3, <1>2
<1>8. ASSUME NEW a \in Agents, CommitUpdate(a) PROVE WorkIsReal'
  <2>1. a \in Goroutines /\ work[a] \in Updating
    BY <1>8, WorkFields DEF CommitUpdate, Goroutines
  <2>2. PICK k \in Keys, action \in Action :
          k = work[a].key /\ action = work[a].action
    BY <2>1 DEF Updating
  <2>3. Exists(k) /\ action \in ActionsOf(work[a].rpc)
    BY <1>8, <2>1, <2>2 DEF CommitUpdate, WorkIsReal
  <2>4. /\ Exists(k)'
        /\ Last(actions'[k]) = action /\ actions'[k] \in Seq(Action)
        /\ actions'[k] # <<>>
    BY <1>8, <2>2, <2>3, CommitRow, HistoryStays DEF CommitUpdate
  <2>5. Len(actions'[k]) \in DOMAIN actions'[k]
    BY <2>4
  <2>6. StatusAfter(action) \in StatusesOf(k)'
    BY <2>4, <2>5 DEF StatusesOf, Last
  <2>7. ASSUME work'[a] = [at |-> "publish", event |-> Announcement(work[a])],
               Announces(work[a])
        PROVE  Fine(a)'
    <3>1. action \in {"resolved", "escalated"}
      BY <2>2, <2>3, <2>7 DEF Announces, ActionsOf
    <3>2. PICK e : e = Announcement(work[a])
      OBVIOUS
    <3>3. e.key = k /\ e.type = IF action = "resolved" THEN "case.resolved"
                                                      ELSE "case.escalated"
      BY <2>2, <3>2 DEF Announcement
    <3>4. Real(e)'
      BY <2>4, <2>6, <3>1, <3>3 DEF Real, StatusAfter
    <3> QED
      BY <2>7, <3>2, <3>4 DEF Real, Exists, StatusesOf
  <2>8. ASSUME work'[a] = Idle PROVE Fine(a)'
    BY <2>8 DEF Idle
  <2>9. /\ \A v \in Goroutines : v # a => work'[v] = work[v]
        /\ \/ work'[a] = [at |-> "publish", event |-> Announcement(work[a])]
              /\ Announces(work[a])
           \/ work'[a] = Idle
    BY <1>8, <2>1 DEF CommitUpdate, Become, TypeOK
  <2> QED
    BY <2>1, <2>7, <2>8, <2>9, <1>2
<1>9. ASSUME NEW w \in Goroutines, NEW row \in Case, NEW k \in Keys, k = work[w].key,
             work[w] \in Creating, Continue(w, work[w].key, row),
             Exists(k)', row.opening = cases'[k].opening,
             row.status \in StatusesOf(k)'
      PROVE  WorkIsReal'
  <2>1. /\ work'[w].at \in {"register", "publish"}
        /\ work'[w].event = [type |-> "case.created", key |-> k, row |-> row]
        /\ \A v \in Goroutines : v # w => work'[v] = work[v]
    BY <1>9, ContinueType
  <2>2. Real(work[w].event)'
    BY <1>9, <2>1 DEF Real, Exists, StatusesOf
  <2> QED
    BY <2>1, <2>2, <1>2
<1>10. ASSUME NEW w \in Goroutines, CreateCase(w) PROVE WorkIsReal'
  <2>1. work[w] \in Creating
    BY <1>10, WorkFields DEF CreateCase
  <2>2. PICK k \in Keys, opening \in Opening :
          k = work[w].key /\ opening = work[w].opening
    BY <2>1 DEF Creating
  <2>3. CASE ~Exists(k) /\ cases' = [cases EXCEPT ![k] =
                                     [status |-> "open", opening |-> opening]]
             /\ Continue(w, k, [status |-> "open", opening |-> opening])
    <3>1. [status |-> "open", opening |-> opening] \in Case
      BY DEF Case, CaseStatus
    <3>2. cases'[k] = [status |-> "open", opening |-> opening]
      BY <2>3 DEF TypeOK
    <3>3. Exists(k)' /\ "open" \in StatusesOf(k)'
      BY <3>2 DEF Exists, NoCase, StatusesOf
    <3> QED
      BY <2>1, <2>2, <2>3, <3>1, <3>2, <3>3, <1>9
  <2>4. CASE Exists(k) /\ Become(w, [work[w] EXCEPT !.at = "fetch"])
             /\ UNCHANGED cases
    <3>1. /\ work'[w].at = "fetch" /\ work'[w].key = k
          /\ \A v \in Goroutines : v # w => work'[v] = work[v]
      BY <2>1, <2>2, <2>4 DEF Become, TypeOK, Creating
    <3>2. Exists(k)'
      BY <2>4 DEF Exists
    <3> QED
      BY <3>1, <3>2, <1>2 DEF Exists
  <2> QED
    BY <1>10, <2>2, <2>3, <2>4 DEF CreateCase
<1>11. ASSUME NEW w \in Goroutines, GetCaseByDecision(w) PROVE WorkIsReal'
  <2>1. work[w] \in Creating
    BY <1>11, WorkFields DEF GetCaseByDecision
  <2>2. PICK k \in Keys : k = work[w].key
    BY <2>1 DEF Creating
  <2>3. Exists(k) /\ cases[k] \in Case /\ cases[k].status \in StatusesOf(k)
    BY <1>11, <2>2, ExistsType, StatusHad DEF GetCaseByDecision, WorkIsReal
  <2>4. UNCHANGED <<cases, actions>>
    BY <1>11 DEF GetCaseByDecision
  <2>5. Exists(k)' /\ cases[k].opening = cases'[k].opening
        /\ cases[k].status \in StatusesOf(k)'
    BY <2>3, <2>4 DEF Exists, StatusesOf
  <2> QED
    BY <1>11, <2>1, <2>2, <2>3, <2>5, <1>9 DEF GetCaseByDecision
<1>12. ASSUME NEW w \in Goroutines, Become(w, Idle) PROVE WorkIsReal'
  <2>1. /\ work'[w].at = "idle"
        /\ \A v \in Goroutines : v # w => work'[v] = work[v]
    BY <1>12 DEF Become, Idle, TypeOK
  <2> QED
    BY <2>1, <1>2
<1> QED
  BY <1>3, <1>4, <1>5, <1>6, <1>7, <1>8, <1>10, <1>11, <1>12
     DEF Next, vars, ConsumerStep, AgentStep, WorkerStep, PublishCaseEvent,
         Abandon, Tick, DecisionMadeArrives

\* An event reaches the topic from a worker that carries it, and stays real there.
LEMMA AnnouncedStep ==
  ASSUME IInv, [Next]_vars PROVE AnnouncedCasesAreReal'
<1> USE DEF IInv
<1>1. \A e \in caseTopic : e \in CaseEvent /\ Real(e)
  BY DEF TypeOK, AnnouncedCasesAreReal, Real
<1>2. ASSUME NEW w \in Goroutines, PublishCaseEvent(w)
      PROVE  \A e \in caseTopic' : e \in CaseEvent /\ Real(e)
  <2>1. work[w].event \in CaseEvent /\ Real(work[w].event)
    BY <1>2, WorkFields DEF PublishCaseEvent, Publishing, WorkIsReal
  <2> QED
    BY <1>1, <1>2, <2>1 DEF PublishCaseEvent, Enqueued
<1>3. \A e \in caseTopic' : e \in CaseEvent /\ Real(e)
  BY <1>1, <1>2 DEF Next, vars, ConsumerStep, AgentStep, WorkerStep, ReadMessage,
     Register, CreateCaseRequest, UpdateCase, CommitUpdate, CreateCase,
     GetCaseByDecision, Abandon, Tick, DecisionMadeArrives
<1>4. \A e \in caseTopic' : e \in CaseEvent /\ Real(e)'
  BY <1>3, RealStays
<1> QED
  BY <1>4 DEF AnnouncedCasesAreReal, Real, Exists, StatusesOf, CaseEvent, Created, Changed

-----------------------------------------------------------------------------
(* Where cases come from *)

\* Whoever is about to insert a case was asked to by a call, or has read an
\* announcement of the decision that is to be reviewed or blocked.
LEMMA InsertersStep ==
  ASSUME TypeOK, [Next]_vars, NEW w \in Goroutines, w \notin Agents,
         work'[w] # work[w], work'[w].at = "insert"
  PROVE  \E m \in decisionTopic :
            /\ m.outcome \in {"review", "block"}
            /\ work'[w].key = m.key
            /\ work'[w].opening.outcome = m.outcome
<1>1. ASSUME NEW c \in Consumers, ReadMessage(c)
      PROVE  \E m \in decisionTopic :
                /\ m.outcome \in {"review", "block"}
                /\ work'[w].key = m.key
                /\ work'[w].opening.outcome = m.outcome
  <2>1. c = w
    BY <1>1 DEF ReadMessage, StartCreating, Become, TypeOK
  <2> QED
    BY <1>1, <2>1 DEF ReadMessage, StartCreating, Become, TypeOK
\* Nothing else leads a worker that is no call there.
<1>2. ASSUME NEW v \in Goroutines, NEW s, Become(v, s), v = w => s.at # "insert"
      PROVE  FALSE
  BY <1>2 DEF Become, TypeOK
<1>3. ASSUME NEW a \in Agents, AgentStep(a) PROVE FALSE
  <2>1. a # w /\ a \in Goroutines
    BY DEF Goroutines
  <2>2. \E s : Become(a, s)
    BY <1>3 DEF AgentStep, CreateCaseRequest, StartCreating, UpdateCase,
       CommitUpdate
  <2> QED
    BY <1>2, <2>1, <2>2
<1>4. ASSUME NEW c \in Consumers, Register(c) PROVE FALSE
  <2>1. Become(c, [at |-> "publish", event |-> work[c].event])
    BY <1>4 DEF Register
  <2> QED
    BY <1>2, <2>1 DEF Goroutines
<1>5. ASSUME NEW v \in Goroutines, PublishCaseEvent(v) \/ Abandon(v) PROVE FALSE
  <2>1. Become(v, Idle)
    BY <1>5 DEF PublishCaseEvent, Abandon
  <2> QED
    BY <1>2, <2>1 DEF Idle
<1>6. ASSUME NEW v \in Goroutines, NEW k, NEW row, Continue(v, k, row) PROVE FALSE
  <2>1. CASE v \in Consumers
    BY <1>2, <1>6, <2>1 DEF Continue
  <2>2. CASE v \notin Consumers
    BY <1>2, <1>6, <2>2 DEF Continue
  <2> QED
    BY <2>1, <2>2
<1>7. ASSUME NEW v \in Goroutines, work[v].at = "insert",
             Become(v, [work[v] EXCEPT !.at = "fetch"])
      PROVE  FALSE
  <2>1. work[v] \in Creating
    BY <1>7, WorkFields
  <2>2. [work[v] EXCEPT !.at = "fetch"].at = "fetch"
    BY <2>1 DEF Creating
  <2> QED
    BY <1>2, <1>7, <2>2
<1>8. ASSUME NEW v \in Goroutines, CreateCase(v) \/ GetCaseByDecision(v) PROVE FALSE
  BY <1>6, <1>7, <1>8 DEF CreateCase, GetCaseByDecision
<1>9. CASE Tick \/ (\E m \in DecisionMade : DecisionMadeArrives(m))
           \/ UNCHANGED vars
  BY <1>9 DEF Tick, DecisionMadeArrives, vars
<1> QED
  BY <1>1, <1>3, <1>4, <1>5, <1>8, <1>9 DEF Next, ConsumerStep, WorkerStep

\* A case is opened with what its inserter holds, and keeps it.
LEMMA OpeningsStep ==
  ASSUME IInv, [Next]_vars, NEW k \in Keys, Exists(k)'
  PROVE  \/ Exists(k) /\ cases'[k].opening = cases[k].opening
         \/ \E w \in Goroutines : /\ work[w].at = "insert" /\ work[w].key = k
                                  /\ cases'[k].opening = work[w].opening
<1> USE DEF IInv
<1>1. CASE Exists(k)
  BY <1>1, HistoryStays
<1>2. CASE ~Exists(k)
  <2>1. ASSUME NEW a \in Agents, work[a].at = "update",
               work[a].key \in Keys, work[a].action \in Action,
               cases' = [cases EXCEPT ![work[a].key].status =
                                         StatusAfter(work[a].action)]
        PROVE  FALSE
    <3>1. Exists(work[a].key)
      BY <2>1 DEF WorkIsReal, Goroutines
    <3>2. cases'[k] = cases[k]
      BY <1>2, <2>1, <3>1 DEF TypeOK
    <3> QED
      BY <1>2, <3>2 DEF Exists
  <2>2. CASE UNCHANGED <<cases, actions>>
    BY <1>2, <2>2 DEF Exists
  <2>3. ASSUME NEW w \in Goroutines, work[w].at = "insert", work[w].key \in Keys,
               cases' = [cases EXCEPT ![work[w].key] =
                           [status |-> "open", opening |-> work[w].opening]]
        PROVE  work[w].key = k /\ cases'[k].opening = work[w].opening
    BY <1>2, <2>3 DEF Exists, TypeOK
  <2> QED
    BY <2>1, <2>2, <2>3, TableStep
<1> QED
  BY <1>1, <1>2

-----------------------------------------------------------------------------
(* The theorems *)

\* IInv holds initially.
LEMMA Initially == Init => IInv
BY MaxTimeAssumption DEF Init, IInv, TypeOK, CaseTrailUnbroken, WorkIsReal,
   AnnouncedCasesAreReal, Exists, Idle, NoSLA

\* Every step preserves IInv.
LEMMA Preserved == IInv /\ [Next]_vars => IInv'
BY TypeStep, TrailStep, WorkStep, AnnouncedStep DEF IInv

\* So IInv is an invariant.
LEMMA Inductive == Spec => []IInv
BY Initially, Preserved, PTL DEF Spec

\* The table, the SLA keys, the topics and the workers are always well typed.
THEOREM TypeCorrect == Spec => []TypeOK
BY Inductive, PTL DEF IInv

\* The status of a case is always the one its last action gave it.
THEOREM TrailUnbroken == Spec => []CaseTrailUnbroken
BY Inductive, PTL DEF IInv

\* What is announced of a case is always true of it.
THEOREM AnnouncedReal == Spec => []AnnouncedCasesAreReal
BY Inductive, PTL DEF IInv

\* The first event or request opens a case for good.
THEOREM FirstOpening == Spec => FirstOpeningWins
<1>1. ASSUME IInv, [Next]_vars
      PROVE  [\A k \in Keys : Exists(k) =>
                /\ cases'[k].opening = cases[k].opening
                /\ \/ UNCHANGED <<cases[k], actions[k]>>
                   \/ actions'[k] = Append(actions[k], Last(actions'[k]))
             ]_vars
  <2>1. ASSUME NEW k \in Keys, Exists(k)
        PROVE  \/ UNCHANGED <<cases[k], actions[k]>>
               \/ actions'[k] = Append(actions[k], Last(actions'[k]))
    <3>1. CASE UNCHANGED <<cases, actions>>
      BY <3>1
    <3>2. ASSUME NEW w \in Goroutines, work[w].key \in Keys, ~Exists(work[w].key),
                 cases' = [cases EXCEPT ![work[w].key] =
                             [status |-> "open", opening |-> work[w].opening]],
                 UNCHANGED actions
          PROVE  UNCHANGED <<cases[k], actions[k]>>
      BY <2>1, <3>2 DEF IInv, TypeOK
    <3>3. ASSUME NEW a \in Agents, work[a].at = "update", work[a].key \in Keys,
                 work[a].action \in Action,
                 cases' = [cases EXCEPT ![work[a].key].status =
                                             StatusAfter(work[a].action)],
                 actions' = [actions EXCEPT ![work[a].key] =
                                             Append(@, work[a].action)]
          PROVE  \/ UNCHANGED <<cases[k], actions[k]>>
                 \/ actions'[k] = Append(actions[k], Last(actions'[k]))
      <4>1. PICK j \in Keys : j = work[a].key /\ Exists(j)
        BY <1>1, <3>3 DEF IInv, WorkIsReal, Goroutines
      <4>2. PICK action \in Action : action = work[a].action
        BY <3>3
      <4>3. TypeOK
        BY <1>1 DEF IInv
      <4>4. /\ cases' = [cases EXCEPT ![j].status = StatusAfter(action)]
            /\ actions' = [actions EXCEPT ![j] = Append(@, action)]
        BY <3>3, <4>1, <4>2
      <4>5. /\ actions'[j] = Append(actions[j], action)
            /\ Last(actions'[j]) = action
            /\ j # k => UNCHANGED <<cases[k], actions[k]>>
        BY <4>1, <4>3, <4>4, CommitRow
      <4> QED
        BY <4>5
    <3> QED
      BY <1>1, <3>1, <3>2, <3>3, TableStep DEF IInv
  <2> QED
    BY <1>1, <2>1, HistoryStays
<1> QED
  BY <1>1, Inductive, PTL DEF Spec, FirstOpeningWins

=============================================================================
