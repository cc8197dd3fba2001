------------------------ MODULE PaymentPipelineProofs ------------------------
(***************************************************************************)
(* Proofs about PaymentPipeline. Each service, in the pipeline, does only  *)
(* what its own module lets it do, so the invariants proved of the modules *)
(* hold here, and a payment can be followed from the topic of one service  *)
(* to the table of the next.                                               *)
(*                                                                         *)
(* What a service may assume of the events it reads is what the service    *)
(* before it is proved to write; the four invariants are therefore proved  *)
(* together.                                                               *)
(***************************************************************************)
EXTENDS PaymentPipeline, TLAPS

\* The modules of the components with their lemmas.
IngP  == INSTANCE IngestionProofs
RiskP == INSTANCE RiskOrchestratorProofs WITH Bodies <- Ing!Body, work <- workers
DecP  == INSTANCE DecisionProofs WITH Keys <- Risk!Keys, work <- consumers
CaseP == INSTANCE CaseManagementProofs WITH Keys <- Risk!Keys,
                                            work <- caseWorkers,
                                            Consumers <- CaseConsumers

IInv == IngP!IInv /\ RiskP!IInv /\ DecP!IInv /\ CaseP!IInv

-----------------------------------------------------------------------------
(* A proof module defines what its component does *)

\* IngP is Ingestion with lemmas.
LEMMA SameIngestion ==
  /\ Ing!Init <=> IngP!Init
  /\ [Ing!Next]_(Ing!vars) <=> [IngP!Next]_(IngP!vars)
  /\ Ing!TypeOK <=> IngP!TypeOK
BY DEF   Ing!Request, IngP!Request, Ing!Slot, IngP!Slot, Ing!Body,
         IngP!Body, Ing!PaymentEvent, IngP!PaymentEvent, Ing!Idle,
         IngP!Idle, Ing!Running, IngP!Running, Ing!Status, IngP!Status,
         Ing!Replied, IngP!Replied, Ing!TypeOK, IngP!TypeOK, Ing!Init,
         IngP!Init, Ing!SlotOf, IngP!SlotOf, Ing!Stored, IngP!Stored,
         Ing!PaymentReceived, IngP!PaymentReceived, Ing!Goto, IngP!Goto,
         Ing!Reply, IngP!Reply, Ing!Call, IngP!Call, Ing!IsDuplicate,
         IngP!IsDuplicate, Ing!InsertPaymentEvent, IngP!InsertPaymentEvent,
         Ing!GetPaymentEventByIdempotencyKey,
         IngP!GetPaymentEventByIdempotencyKey, Ing!MarkProcessed,
         IngP!MarkProcessed, Ing!PublishPaymentReceived,
         IngP!PublishPaymentReceived, Ing!Expire, IngP!Expire, Ing!Crash,
         IngP!Crash, Ing!PaymentConsumed, IngP!PaymentConsumed,
         Ing!CallStep, IngP!CallStep, Ing!Next, IngP!Next, Ing!vars,
         IngP!vars, Ing!Enqueued, IngP!Enqueued, Ing!Delivered,
         IngP!Delivered

\* RiskP is RiskOrchestrator with lemmas.
LEMMA SameRisk ==
  /\ Risk!Init <=> RiskP!Init
  /\ [Risk!Next]_(Risk!vars) <=> [RiskP!Next]_(RiskP!vars)
  /\ Risk!TypeOK <=> RiskP!TypeOK
BY DEF   Risk!PaymentEvent, RiskP!PaymentEvent, Risk!Keys, RiskP!Keys,
         Risk!RiskEvaluated, RiskP!RiskEvaluated, Risk!Via, RiskP!Via,
         Risk!Reading, RiskP!Reading, Risk!Acquiring, RiskP!Acquiring,
         Risk!Evaluating, RiskP!Evaluating, Risk!Publishing,
         RiskP!Publishing, Risk!Releasing, RiskP!Releasing, Risk!TypeOK,
         RiskP!TypeOK, Risk!Init, RiskP!Init, Risk!KeyOf, RiskP!KeyOf,
         Risk!Holds, RiskP!Holds, Risk!ReadMessage, RiskP!ReadMessage,
         Risk!StartEvaluating, RiskP!StartEvaluating, Risk!TryAcquire,
         RiskP!TryAcquire, Risk!Verdicts, RiskP!Verdicts, Risk!run,
         RiskP!run, Risk!publish, RiskP!publish, Risk!Release,
         RiskP!Release, Risk!EvaluateRisk, RiskP!EvaluateRisk, Risk!Expire,
         RiskP!Expire, Risk!Crash, RiskP!Crash, Risk!PaymentArrives,
         RiskP!PaymentArrives, Risk!ResultConsumed, RiskP!ResultConsumed,
         Risk!ProcessStep, RiskP!ProcessStep, Risk!WorkerStep,
         RiskP!WorkerStep, Risk!Next, RiskP!Next, Risk!vars, RiskP!vars,
         Risk!Enqueued, RiskP!Enqueued, Risk!Delivered, RiskP!Delivered

\* DecP is Decision with lemmas.
LEMMA SameDecision ==
  /\ Dec!Init <=> DecP!Init
  /\ [Dec!Next]_(Dec!vars) <=> [DecP!Next]_(DecP!vars)
  /\ Dec!TypeOK <=> DecP!TypeOK
BY DEF   Dec!RiskEvaluated, DecP!RiskEvaluated, Dec!DecisionMade,
         DecP!DecisionMade, Dec!ReasonCodes, DecP!ReasonCodes, Dec!Row,
         DecP!Row, Dec!Absent, DecP!Absent, Dec!OverrideRow,
         DecP!OverrideRow, Dec!Reading, DecP!Reading, Dec!Recording,
         DecP!Recording, Dec!Publishing, DecP!Publishing, Dec!NoTx,
         DecP!NoTx, Dec!OpenTx, DecP!OpenTx, Dec!TypeOK, DecP!TypeOK,
         Dec!Init, DecP!Init, Dec!buildReasonCodes, DecP!buildReasonCodes,
         Dec!Exists, DecP!Exists, Dec!Snapshot, DecP!Snapshot,
         Dec!ReadMessage, DecP!ReadMessage, Dec!RecordDecision,
         DecP!RecordDecision, Dec!GetDecision, DecP!GetDecision,
         Dec!PublishDecisionMade, DecP!PublishDecisionMade,
         Dec!AbandonMessage, DecP!AbandonMessage, Dec!RowLocked,
         DecP!RowLocked, Dec!LockDecision, DecP!LockDecision,
         Dec!CommitOverride, DecP!CommitOverride, Dec!RollbackOverride,
         DecP!RollbackOverride, Dec!RiskEvaluatedArrives,
         DecP!RiskEvaluatedArrives, Dec!ConsumerStep, DecP!ConsumerStep,
         Dec!OverrideStep, DecP!OverrideStep, Dec!Next, DecP!Next, Dec!vars,
         DecP!vars, Dec!Enqueued, DecP!Enqueued, Dec!Delivered,
         DecP!Delivered

\* CaseP is CaseManagement with lemmas.
LEMMA SameCase ==
  /\ Case!Init <=> CaseP!Init
  /\ [Case!Next]_(Case!vars) <=> [CaseP!Next]_(CaseP!vars)
  /\ Case!TypeOK <=> CaseP!TypeOK
BY DEF   Case!DecisionMade, CaseP!DecisionMade, Case!CaseStatus,
         CaseP!CaseStatus, Case!CasePriority, CaseP!CasePriority,
         Case!outcomeToPriority, CaseP!outcomeToPriority,
         Case!SLAHours, CaseP!SLAHours, Case!priorityToSLADeadline,
         CaseP!priorityToSLADeadline, Case!Deadline, CaseP!Deadline,
         Case!NoSLA, CaseP!NoSLA, Case!Opening, CaseP!Opening,
         Case!Case, CaseP!Case, Case!NoCase, CaseP!NoCase,
         Case!Exists, CaseP!Exists, Case!Action, CaseP!Action,
         Case!StatusAfter, CaseP!StatusAfter, Case!Created,
         CaseP!Created, Case!Changed, CaseP!Changed, Case!CaseEvent,
         CaseP!CaseEvent, Case!Idle, CaseP!Idle, Case!Creating,
         CaseP!Creating, Case!Registering, CaseP!Registering,
         Case!Publishing, CaseP!Publishing, Case!Updating,
         CaseP!Updating, Case!Goroutines, CaseP!Goroutines, Case!TypeOK,
         CaseP!TypeOK, Case!Init, CaseP!Init, Case!Become,
         CaseP!Become, Case!StartCreating, CaseP!StartCreating,
         Case!ReadMessage, CaseP!ReadMessage, Case!CreateCaseRequest,
         CaseP!CreateCaseRequest, Case!Continue, CaseP!Continue,
         Case!CreateCase, CaseP!CreateCase, Case!GetCaseByDecision,
         CaseP!GetCaseByDecision, Case!Register, CaseP!Register,
         Case!PublishCaseEvent, CaseP!PublishCaseEvent,
         Case!RowLocked, CaseP!RowLocked, Case!ActionsOf,
         CaseP!ActionsOf, Case!UpdateCase, CaseP!UpdateCase,
         Case!Announces, CaseP!Announces, Case!Announcement,
         CaseP!Announcement, Case!CommitUpdate, CaseP!CommitUpdate,
         Case!Abandon, CaseP!Abandon, Case!Tick, CaseP!Tick,
         Case!DecisionMadeArrives, CaseP!DecisionMadeArrives,
         Case!ConsumerStep, CaseP!ConsumerStep, Case!AgentStep,
         CaseP!AgentStep, Case!WorkerStep, CaseP!WorkerStep,
         Case!Next, CaseP!Next, Case!vars, CaseP!vars, Case!Enqueued,
         CaseP!Enqueued, Case!Delivered, CaseP!Delivered

-----------------------------------------------------------------------------
(* Each service does what its module says *)

\* The ingestion service loses events to the orchestrator only by its reading
\* them.
LEMMA IngestionSteps ==
  ASSUME IInv, [Next]_vars PROVE [IngP!Next]_(IngP!vars)
<1>1. Ing!TypeOK
  BY SameIngestion DEF IInv, IngP!IInv
<1>2. SUFFICES [Ing!Next]_(Ing!vars)
  BY SameIngestion
<1>3. CASE IngestionStep
  BY <1>3 DEF IngestionStep, Ing!Next
<1>4. CASE RiskStep
  <2>1. CASE UNCHANGED paymentsTopic
    BY <1>4, <2>1 DEF RiskStep, ingestionVars, Ing!vars
  <2>2. CASE paymentsTopic' # paymentsTopic
    <3>1. PICK m \in paymentsTopic :
             paymentsTopic' \in Risk!Delivered(paymentsTopic, m)
      BY <1>4, <2>2 DEF RiskStep, Risk!WorkerStep, Risk!ProcessStep,
         Risk!ReadMessage, Risk!TryAcquire, Risk!run, Risk!publish,
         Risk!Release, Risk!EvaluateRisk, Risk!Crash, Risk!Expire
    <3>2. m \in Ing!PaymentEvent
      BY <1>1 DEF Ing!TypeOK
    <3>3. Ing!PaymentConsumed(m)
      BY <1>4, <3>1 DEF Ing!PaymentConsumed, RiskStep, ingestionVars,
         Risk!Delivered, Ing!Delivered
    <3> QED
      BY <3>2, <3>3 DEF Ing!Next
  <2> QED
    BY <2>1, <2>2
<1>5. CASE DecisionStep \/ CaseStep \/ UNCHANGED vars
  BY <1>5 DEF DecisionStep, CaseStep, vars, ingestionVars, Ing!vars
<1> QED
  BY <1>3, <1>4, <1>5 DEF Next

\* What the ingestion service publishes is an event for the orchestrator.
LEMMA RiskSteps ==
  ASSUME IInv, [Next]_vars PROVE [RiskP!Next]_(RiskP!vars)
<1>1. Ing!TypeOK /\ Risk!TypeOK
  BY SameIngestion, SameRisk DEF IInv, IngP!IInv, RiskP!IInv
<1>2. SUFFICES [Risk!Next]_(Risk!vars)
  BY SameRisk
<1>3. CASE IngestionStep
  <2>1. CASE UNCHANGED paymentsTopic
    BY <1>3, <2>1 DEF IngestionStep, riskVars, Risk!vars
  <2>2. CASE paymentsTopic' # paymentsTopic
    <3>1. PICK c \in Callers : Ing!PublishPaymentReceived(c)
      BY <1>3, <2>2 DEF IngestionStep, Ing!CallStep, Ing!Call,
         Ing!IsDuplicate, Ing!InsertPaymentEvent,
         Ing!GetPaymentEventByIdempotencyKey, Ing!MarkProcessed, Ing!Crash,
         Ing!Expire
    <3>2. calls[c].req \in Ing!Request
      BY <1>1, <3>1 DEF Ing!TypeOK, Ing!PublishPaymentReceived, Ing!Idle,
         Ing!Running, Ing!Replied
    <3>3. Ing!PaymentReceived(calls[c].req) \in Risk!PaymentEvent
      BY <3>2, EventIdsAssumption DEF Ing!PaymentReceived, Ing!Request,
         Ing!Body, Risk!PaymentEvent
    <3>4. Risk!PaymentArrives(Ing!PaymentReceived(calls[c].req))
      BY <1>3, <2>2, <3>1 DEF Risk!PaymentArrives, IngestionStep, riskVars,
         Ing!PublishPaymentReceived, Ing!Enqueued
    <3> QED
      BY <3>3, <3>4 DEF Risk!Next
  <2> QED
    BY <2>1, <2>2
<1>4. CASE RiskStep
  BY <1>4 DEF RiskStep, Risk!Next
<1>5. CASE DecisionStep
  <2>1. CASE UNCHANGED riskTopic
    BY <1>5, <2>1 DEF DecisionStep, riskVars, Risk!vars
  <2>2. CASE riskTopic' # riskTopic
    <3>1. PICK m \in riskTopic : riskTopic' \in Dec!Delivered(riskTopic, m)
      BY <1>5, <2>2 DEF DecisionStep, Dec!ConsumerStep, Dec!ReadMessage,
         Dec!RecordDecision, Dec!GetDecision, Dec!PublishDecisionMade,
         Dec!AbandonMessage, Dec!OverrideStep, Dec!LockDecision,
         Dec!CommitOverride, Dec!RollbackOverride
    <3>2. m \in Risk!RiskEvaluated
      BY <1>1 DEF Risk!TypeOK
    <3>3. Risk!ResultConsumed(m)
      BY <1>5, <3>1 DEF Risk!ResultConsumed, DecisionStep, riskVars,
         Risk!Delivered, Dec!Delivered
    <3> QED
      BY <3>2, <3>3 DEF Risk!Next
  <2> QED
    BY <2>1, <2>2
<1>6. CASE CaseStep \/ UNCHANGED vars
  BY <1>6 DEF CaseStep, vars, riskVars, Risk!vars
<1> QED
  BY <1>3, <1>4, <1>5, <1>6 DEF Next

\* What the orchestrator publishes is an event for the decision service.
LEMMA DecisionSteps ==
  ASSUME IInv, [Next]_vars PROVE [DecP!Next]_(DecP!vars)
<1>1. Risk!TypeOK
  BY SameRisk DEF IInv, RiskP!IInv
<1>2. SUFFICES [Dec!Next]_(Dec!vars)
  BY SameDecision
<1>3. CASE RiskStep
  <2>1. CASE UNCHANGED riskTopic
    BY <1>3, <2>1 DEF RiskStep, decisionVars, Dec!vars
  <2>2. CASE riskTopic' # riskTopic
    <3>1. PICK w \in Workers : Risk!publish(w)
      BY <1>3, <2>2 DEF RiskStep, Risk!WorkerStep, Risk!ProcessStep,
         Risk!ReadMessage, Risk!TryAcquire, Risk!run, Risk!Release,
         Risk!EvaluateRisk, Risk!Crash, Risk!Expire
    <3>2. workers[w].result \in Dec!RiskEvaluated
      BY <1>1, <3>1 DEF Risk!TypeOK, Risk!publish, Risk!Reading,
         Risk!Acquiring, Risk!Evaluating, Risk!Publishing, Risk!Releasing,
         Risk!RiskEvaluated, Dec!RiskEvaluated
    <3>3. Dec!RiskEvaluatedArrives(workers[w].result)
      BY <1>3, <2>2, <3>1 DEF Dec!RiskEvaluatedArrives, RiskStep,
         decisionVars, Risk!publish, Risk!Enqueued
    <3> QED
      BY <3>2, <3>3 DEF Dec!Next
  <2> QED
    BY <2>1, <2>2
<1>4. CASE DecisionStep
  BY <1>4 DEF DecisionStep, Dec!Next
<1>5. CASE IngestionStep \/ CaseStep \/ UNCHANGED vars
  BY <1>5 DEF IngestionStep, CaseStep, vars, riskVars, decisionVars, Dec!vars
<1> QED
  BY <1>3, <1>4, <1>5 DEF Next

\* What the decision service announces is an event for case management.
LEMMA CaseSteps ==
  ASSUME IInv, [Next]_vars PROVE [CaseP!Next]_(CaseP!vars)
<1>1. Dec!TypeOK
  BY SameDecision DEF IInv, DecP!IInv
<1>2. SUFFICES [Case!Next]_(Case!vars)
  BY SameCase
<1>3. CASE DecisionStep
  <2>1. CASE UNCHANGED decisionTopic
    BY <1>3, <2>1 DEF DecisionStep, caseVars, Case!vars
  <2>2. CASE decisionTopic' # decisionTopic
    <3>1. PICK c \in Consumers : Dec!PublishDecisionMade(c)
      BY <1>3, <2>2 DEF DecisionStep, Dec!ConsumerStep, Dec!ReadMessage,
         Dec!RecordDecision, Dec!GetDecision, Dec!AbandonMessage,
         Dec!OverrideStep, Dec!LockDecision, Dec!CommitOverride,
         Dec!RollbackOverride
    <3>2. consumers[c].decision \in Case!DecisionMade
      BY <1>1, <3>1 DEF Dec!TypeOK, Dec!PublishDecisionMade, Dec!Reading,
         Dec!Recording, Dec!Publishing, Dec!DecisionMade, Case!DecisionMade
    <3>3. Case!DecisionMadeArrives(consumers[c].decision)
      BY <1>3, <2>2, <3>1 DEF Case!DecisionMadeArrives, DecisionStep, caseVars,
         Dec!PublishDecisionMade, Dec!Enqueued
    <3> QED
      BY <3>2, <3>3 DEF Case!Next
  <2> QED
    BY <2>1, <2>2
<1>4. CASE CaseStep
  BY <1>4 DEF CaseStep, Case!Next, Case!Goroutines
<1>5. CASE IngestionStep \/ RiskStep \/ UNCHANGED vars
  BY <1>5 DEF IngestionStep, RiskStep, vars, caseVars, Case!vars
<1> QED
  BY <1>3, <1>4, <1>5 DEF Next

\* The invariants of the four modules hold in the pipeline.
LEMMA Inductive == Spec => []IInv
<1>1. Init => IInv
  BY SameIngestion, SameRisk, SameDecision, SameCase, IngP!Initially,
     RiskP!Initially, DecP!Initially, CaseP!Initially, SchemaAssumption,
     OutcomeAssumption, MaxOverridesAssumption, MaxTimeAssumption,
     RequestedAssumption DEF Init, IInv
<1>2. IInv /\ [Next]_vars => IInv'
  BY IngestionSteps, RiskSteps, DecisionSteps, CaseSteps, IngP!Preserved,
     RiskP!Preserved, DecP!Preserved, CaseP!Preserved, SchemaAssumption,
     OutcomeAssumption, MaxOverridesAssumption, MaxTimeAssumption,
     RequestedAssumption DEF IInv
<1> QED
  BY <1>1, <1>2, PTL DEF Spec

-----------------------------------------------------------------------------
(* Following a payment through the pipeline *)

\* A key without a payment event id is about a tenant with a stored payment.
Known(k) == k.id = NoId => HasPayment(k.tenant)

\* Everything on its way to a decision is about a tenant with a payment; the
\* evaluations of gRPC callers have a payment event id.
Chain ==
    /\ \A w \in Workers : workers[w].at # "read" => Known(workers[w].event)
    /\ \A w \in Workers :
          workers[w].at = "publish" => Known(workers[w].result.key)
    /\ \A m \in riskTopic : Known(m.key)
    /\ \A c \in Consumers :
          consumers[c].at = "insert" => Known(consumers[c].event.key)
    /\ DecisionsHavePayments

\* After the step the tenant of k, too, has a payment if k has no id.
KnownNext(k) == k.id = NoId => \E row \in rows' : row.tenant = k.tenant

\* Payments are never deleted.
LEMMA KnownStays ==
  ASSUME IInv, [Next]_vars
  PROVE  \A k : Known(k) => KnownNext(k)
BY IngestionSteps, IngP!RowsStep, SchemaAssumption
   DEF Known, KnownNext, HasPayment

\* The event of a payment is published after the payment is stored.
LEMMA PublishedKnown ==
  ASSUME IInv, NEW m \in paymentsTopic PROVE HasPayment(m.tenant)
<1>1. IngP!Stored([tenant |-> m.tenant, key |-> m.body.key])
  BY DEF IInv, IngP!IInv, IngP!PublishedAreStored
<1> QED
  BY <1>1 DEF IngP!Stored, IngP!SlotOf, HasPayment

\* Workers evaluate the events they read, and gRPC calls that name a payment.
LEMMA WorkersStep ==
  ASSUME IInv, Chain, [Next]_vars, NEW w \in Workers
  PROVE  /\ workers'[w].at # "read" => KnownNext(workers'[w].event)
         /\ workers'[w].at = "publish" => KnownNext(workers'[w].result.key)
<1>1. RiskP!TypeOK
  BY DEF IInv, RiskP!IInv
<1>2. CASE workers'[w] = workers[w]
  BY <1>2, KnownStays DEF Chain
<1>3. CASE workers'[w] # workers[w]
  <2>1. RiskP!WorkerStep(w)
    BY <1>1, <1>3, RiskSteps, RiskP!WorkSteps, OutcomeAssumption
  <2>2. CASE RiskP!ReadMessage(w)
    <3>1. PICK m \in paymentsTopic :
             workers'[w] = [at |-> "acquire", event |-> m]
      BY <1>1, <2>2 DEF RiskP!ReadMessage, RiskP!TypeOK
    <3>2. Known(m)
      BY PublishedKnown DEF Known
    <3> QED
      BY <3>1, <3>2, KnownStays
  <2>3. CASE RiskP!TryAcquire(w)
    <3>1. workers[w].at # "read"
      BY <2>3 DEF RiskP!TryAcquire
    <3>2. \/ workers'[w] = RiskP!Reading
          \/ \E via : workers'[w] = [at |-> "evaluate",
                                    event |-> workers[w].event, via |-> via]
      BY <1>1, <2>3
         DEF RiskP!TryAcquire, RiskP!StartEvaluating, RiskP!TypeOK
    <3>3. KnownNext(workers[w].event)
      BY <3>1, KnownStays DEF Chain
    <3>4. CASE workers'[w] = RiskP!Reading
      BY <3>4 DEF RiskP!Reading
    <3>5. ASSUME NEW via, workers'[w] = [at    |-> "evaluate",
                                         event |-> workers[w].event,
                                         via   |-> via]
          PROVE  /\ workers'[w].at # "publish"
                 /\ workers'[w].event = workers[w].event
      BY <3>5
    <3> QED
      BY <3>2, <3>3, <3>4, <3>5
  <2>4. CASE RiskP!run(w)
    <3>1. workers[w].at # "read"
      BY <2>4 DEF RiskP!run
    <3>2. PICK r \in RiskP!Verdicts(workers[w].event) :
             workers'[w] = [at |-> "publish", event |-> workers[w].event,
                            via |-> workers[w].via, result |-> r]
      BY <1>1, <2>4 DEF RiskP!run, RiskP!TypeOK
    <3>3. KnownNext(workers[w].event)
      BY <3>1, KnownStays DEF Chain
    <3>4. r.key = RiskP!KeyOf(workers[w].event)
      BY DEF RiskP!Verdicts
    <3>5. KnownNext(r.key)
      BY <3>3, <3>4 DEF KnownNext, RiskP!KeyOf
    <3> QED
      BY <3>2, <3>3, <3>5
  <2>5. CASE RiskP!publish(w)
    <3>1. workers[w].at # "read"
      BY <2>5 DEF RiskP!publish
    <3>2. \/ workers'[w] = RiskP!Reading
          \/ workers'[w] = [at |-> "release", event |-> workers[w].event,
                            via |-> workers[w].via]
      BY <1>1, <2>5 DEF RiskP!publish, RiskP!TypeOK
    <3>3. KnownNext(workers[w].event)
      BY <3>1, KnownStays DEF Chain
    <3> QED
      BY <3>2, <3>3 DEF RiskP!Reading
  <2>6. CASE RiskP!Release(w) \/ RiskP!Crash(w)
    BY <1>1, <2>6 DEF RiskP!Release, RiskP!Crash, RiskP!TypeOK, RiskP!Reading
  <2>7. CASE \E e \in RiskP!PaymentEvent : RiskP!EvaluateRisk(w, e)
    <3>1. PICK e \in RiskP!PaymentEvent :
             /\ e.id # NoId
             /\ workers'[w] = [at |-> "evaluate", event |-> e, via |-> "rpc"]
      BY <1>1, <2>7
         DEF RiskP!EvaluateRisk, RiskP!StartEvaluating, RiskP!TypeOK
    <3> QED
      BY <3>1 DEF KnownNext
  <2> QED
    BY <2>1, <2>2, <2>3, <2>4, <2>5, <2>6, <2>7
       DEF RiskP!WorkerStep, RiskP!ProcessStep
<1> QED
  BY <1>2, <1>3

\* What reaches risk.evaluated is the result of a worker.
LEMMA RiskTopicStep ==
  ASSUME IInv, Chain, [Next]_vars, NEW m \in riskTopic'
  PROVE  KnownNext(m.key)
<1>1. CASE m \in riskTopic
  BY <1>1, KnownStays DEF Chain
<1>2. CASE m \notin riskTopic
  <2>1. PICK w \in Workers : Risk!publish(w)
    BY <1>2 DEF Next, vars, IngestionStep, RiskStep, DecisionStep, CaseStep,
       Risk!WorkerStep, Risk!ProcessStep, Risk!ReadMessage, Risk!TryAcquire,
       Risk!run, Risk!Release, Risk!EvaluateRisk, Risk!Crash, Risk!Expire,
       Dec!ConsumerStep, Dec!ReadMessage, Dec!Delivered, Dec!RecordDecision,
       Dec!GetDecision, Dec!PublishDecisionMade, Dec!AbandonMessage,
       Dec!OverrideStep, Dec!LockDecision, Dec!CommitOverride,
       Dec!RollbackOverride
  <2>2. m = workers[w].result /\ workers[w].at = "publish"
    BY <1>2, <2>1 DEF Risk!publish, Risk!Enqueued
  <2> QED
    BY <2>2, KnownStays DEF Chain
<1> QED
  BY <1>1, <1>2

\* The decision service inserts what it reads there.
LEMMA ConsumersStep ==
  ASSUME IInv, Chain, [Next]_vars, NEW c \in Consumers,
         consumers'[c].at = "insert"
  PROVE  KnownNext(consumers'[c].event.key)
<1>1. DecP!TypeOK
  BY DEF IInv, DecP!IInv
<1>2. CASE consumers'[c] = consumers[c]
  BY <1>2, KnownStays DEF Chain
<1>3. CASE consumers'[c] # consumers[c]
  <2>1. DecP!ConsumerStep(c)
    BY <1>1, <1>3, DecisionSteps, DecP!WorkSteps, OutcomeAssumption,
       MaxOverridesAssumption
  <2>2. CASE DecP!ReadMessage(c)
    <3>1. PICK m \in riskTopic : consumers'[c] = [at |-> "insert", event |-> m]
      BY <1>1, <2>2 DEF DecP!ReadMessage, DecP!TypeOK
    <3> QED
      BY <3>1, KnownStays DEF Chain
  <2>3. CASE ~DecP!ReadMessage(c)
    <3>1. consumers'[c].at # "insert"
      BY <1>1, <2>1, <2>3 DEF DecP!ConsumerStep, DecP!RecordDecision,
         DecP!GetDecision, DecP!PublishDecisionMade, DecP!AbandonMessage,
         DecP!Reading, DecP!TypeOK
    <3> QED
      BY <3>1
  <2> QED
    BY <2>2, <2>3
<1> QED
  BY <1>2, <1>3

\* A new decision is about the event its consumer holds.
LEMMA DecisionsStep ==
  ASSUME IInv, Chain, [Next]_vars,
         NEW k \in Risk!Keys, Dec!Exists(k)'
  PROVE  KnownNext(k)
<1>1. DecP!TypeOK /\ DecP!RowLockHolds
  BY DEF IInv, DecP!IInv
<1>2. CASE Dec!Exists(k)
  BY <1>2, KnownStays DEF Chain, DecisionsHavePayments, Known
<1>3. CASE ~Dec!Exists(k)
  <2>1. decisions'[k] # decisions[k]
    BY <1>3 DEF Dec!Exists, Dec!Absent
  <2>2. ASSUME NEW a \in Analysts, DecP!CommitOverride(a) PROVE FALSE
    <3>1. decisions' = [decisions EXCEPT ![tx[a].key].outcome = tx[a].new,
                                         ![tx[a].key].overridden = TRUE]
      BY <2>2 DEF DecP!CommitOverride
    <3>2. tx[a].key # k
      BY <1>1, <1>3, <2>2 DEF DecP!CommitOverride, DecP!RowLockHolds,
         Dec!Exists, Dec!Absent, DecP!Exists, DecP!Absent
    <3> QED
      BY <2>1, <3>1, <3>2, <1>1 DEF DecP!TypeOK
  <2>3. PICK c \in Consumers : DecP!RecordDecision(c)
    BY <2>1, <2>2, DecisionSteps, DecP!TableSteps, OutcomeAssumption,
       MaxOverridesAssumption
  <2>4. consumers[c].at = "insert" /\ consumers[c].event.key = k
    BY <1>1, <2>1, <2>3 DEF DecP!RecordDecision, DecP!TypeOK
  <2> QED
    BY <2>4, KnownStays DEF Chain
<1> QED
  BY <1>2, <1>3

\* So the chain is never broken.
LEMMA ChainStep == IInv /\ Chain /\ [Next]_vars => Chain'
<1> SUFFICES ASSUME IInv, Chain, [Next]_vars PROVE Chain'
  OBVIOUS
<1>1. \A w \in Workers : workers'[w].at # "read" => Known(workers[w].event)'
  BY WorkersStep DEF Known, KnownNext, HasPayment
<1>2. \A w \in Workers :
         workers'[w].at = "publish" => Known(workers[w].result.key)'
  BY WorkersStep DEF Known, KnownNext, HasPayment
<1>3. \A m \in riskTopic' : Known(m.key)'
  BY RiskTopicStep DEF Known, KnownNext, HasPayment
<1>4. \A c \in Consumers :
         consumers'[c].at = "insert" => Known(consumers[c].event.key)'
  BY ConsumersStep DEF Known, KnownNext, HasPayment
<1>5. DecisionsHavePayments'
  BY DecisionsStep DEF DecisionsHavePayments, KnownNext, HasPayment
<1> QED
  BY <1>1, <1>2, <1>3, <1>4, <1>5 DEF Chain

-----------------------------------------------------------------------------
(* From a decision to its case *)

Had(k, outcome) ==
    \E i \in DOMAIN Dec!History(k) : outcome = Dec!History(k)[i]

\* A case of k opened with the outcome would follow from its decision.
Due(k, outcome) == Had(k, outcome) /\ outcome \in {"review", "block"} /\ Known(k)

\* A case that is there, and one that is about to be inserted, are due unless
\* somebody asked for a case of that decision.
CasesDue ==
    /\ \A w \in Case!Goroutines :
          caseWorkers[w].at = "insert" /\ caseWorkers[w].key \notin byHand =>
              Due(caseWorkers[w].key, caseWorkers[w].opening.outcome)
    /\ \A k \in Risk!Keys :
          Case!Exists(k) /\ k \notin byHand => Due(k, cases[k].opening.outcome)

\* What is due stays so: decisions keep their histories, tenants their payments.
LEMMA DueStays ==
  ASSUME IInv, [Next]_vars, NEW k \in Risk!Keys, NEW outcome, Due(k, outcome)
  PROVE  Due(k, outcome)'
<1>1. DecP!TypeOK /\ DecP!RowLockHolds
  BY DEF IInv, DecP!IInv
<1>2. \A i \in DOMAIN DecP!History(k) :
         i \in DOMAIN DecP!History(k)' /\ DecP!History(k)'[i] = DecP!History(k)[i]
  BY <1>1, DecisionSteps, DecP!HistoryGrows, OutcomeAssumption,
     MaxOverridesAssumption
<1>3. Dec!History(k) = DecP!History(k) /\ Dec!History(k)' = DecP!History(k)'
  BY DEF Dec!History, DecP!History, Dec!Exists, DecP!Exists, Dec!Absent,
     DecP!Absent
<1>4. Had(k, outcome)'
  BY <1>2, <1>3 DEF Due, Had
<1>5. Known(k)'
  BY KnownStays DEF Due, Known, KnownNext, HasPayment
<1> QED
  BY <1>4, <1>5 DEF Due

\* What is announced was decided, and so concerns a payment.
LEMMA AnnouncedDue ==
  ASSUME IInv, Chain, NEW m \in decisionTopic, m.outcome \in {"review", "block"}
  PROVE  m.key \in Risk!Keys /\ Due(m.key, m.outcome)
<1>1. m.key \in Risk!Keys
  BY DEF IInv, DecP!IInv, DecP!TypeOK, DecP!DecisionMade
<1>2. PICK i \in DOMAIN DecP!History(m.key) : m.outcome = DecP!History(m.key)[i]
  BY DEF IInv, DecP!IInv, DecP!PublishedOutcomesAreReal
<1>3. Dec!Exists(m.key)
  BY <1>2 DEF DecP!History, DecP!Exists, DecP!Absent, Dec!Exists, Dec!Absent
<1>4. Had(m.key, m.outcome)
  BY <1>2 DEF Had, Dec!History, DecP!History, Dec!Exists, DecP!Exists,
     Dec!Absent, DecP!Absent
<1>5. Known(m.key)
  BY <1>1, <1>3 DEF Chain, DecisionsHavePayments, Known
<1> QED
  BY <1>1, <1>4, <1>5 DEF Due

\* A worker inserts what was announced or asked for.
LEMMA InsertersDue ==
  ASSUME IInv, Chain, CasesDue, [Next]_vars, NEW w \in Case!Goroutines,
         caseWorkers'[w].at = "insert", caseWorkers'[w].key \notin byHand'
  PROVE  Due(caseWorkers[w].key, caseWorkers[w].opening.outcome)'
<1>1. CaseP!TypeOK /\ w \in CaseP!Goroutines
  BY DEF IInv, CaseP!IInv, Case!Goroutines, CaseP!Goroutines
<1>2. byHand \subseteq byHand'
  BY DEF Next, vars, caseVars, IngestionStep, RiskStep, DecisionStep, CaseStep
<1>3. CASE caseWorkers'[w] = caseWorkers[w]
  <2>1. caseWorkers[w].key \in Risk!Keys
    BY <1>1, <1>3, CaseP!WorkFields, MaxTimeAssumption, RequestedAssumption
       DEF CaseP!Creating
  <2>2. Due(caseWorkers[w].key, caseWorkers[w].opening.outcome)
    BY <1>2, <1>3 DEF CasesDue
  <2>3. PICK k \in Risk!Keys : k = caseWorkers[w].key
    BY <2>1
  <2>4. PICK outcome : outcome = caseWorkers[w].opening.outcome
    OBVIOUS
  <2>5. Due(k, outcome)'
    BY <2>2, <2>3, <2>4, DueStays
  <2> QED
    BY <1>3, <2>3, <2>4, <2>5
<1>4. CASE caseWorkers'[w] # caseWorkers[w]
  <2>1. w \notin Agents
    <3>1. CaseStep
      BY <1>4 DEF Next, vars, caseVars, IngestionStep, RiskStep, DecisionStep
    <3> QED
      BY <3>1 DEF CaseStep, AskedFor
  <2>2. PICK m \in decisionTopic : /\ m.outcome \in {"review", "block"}
                                  /\ caseWorkers'[w].key = m.key
                                  /\ caseWorkers'[w].opening.outcome = m.outcome
    BY <1>1, <1>4, <2>1, CaseSteps, CaseP!InsertersStep, MaxTimeAssumption,
       RequestedAssumption
  <2>3. PICK k \in Risk!Keys : k = m.key /\ Due(k, m.outcome)
    BY <2>2, AnnouncedDue
  <2>4. PICK outcome : outcome = m.outcome
    OBVIOUS
  <2>5. Due(k, outcome)'
    BY <2>3, <2>4, DueStays
  <2> QED
    BY <2>2, <2>3, <2>4, <2>5
<1> QED
  BY <1>3, <1>4

\* So cases are due.
LEMMA CasesDueStep == IInv /\ Chain /\ CasesDue /\ [Next]_vars => CasesDue'
<1> SUFFICES ASSUME IInv, Chain, CasesDue, [Next]_vars PROVE CasesDue'
  OBVIOUS
<1>1. ASSUME NEW k \in Risk!Keys, Case!Exists(k)', k \notin byHand'
      PROVE  Due(k, cases[k].opening.outcome)'
  <2>1. k \notin byHand
    BY <1>1 DEF Next, vars, caseVars, IngestionStep, RiskStep, DecisionStep,
       CaseStep
  <2>2. CaseP!Exists(k)' /\ (CaseP!Exists(k) <=> Case!Exists(k))
    BY <1>1 DEF Case!Exists, CaseP!Exists, Case!NoCase, CaseP!NoCase
  <2>3. \/ /\ Case!Exists(k)
           /\ cases'[k].opening = cases[k].opening
        \/ \E w \in CaseP!Goroutines :
              /\ caseWorkers[w].at = "insert" /\ caseWorkers[w].key = k
              /\ cases'[k].opening = caseWorkers[w].opening
    BY <2>2, CaseSteps, CaseP!OpeningsStep, MaxTimeAssumption,
       RequestedAssumption DEF IInv
  <2>4. PICK outcome : outcome = cases'[k].opening.outcome /\ Due(k, outcome)
    BY <2>1, <2>3 DEF CasesDue, Case!Goroutines, CaseP!Goroutines
  <2>5. Due(k, outcome)'
    BY <2>4, DueStays
  <2> QED
    BY <2>4, <2>5
<1>2. ASSUME NEW w \in Case!Goroutines,
             caseWorkers'[w].at = "insert", caseWorkers'[w].key \notin byHand'
      PROVE  Due(caseWorkers[w].key, caseWorkers[w].opening.outcome)'
  BY <1>2, InsertersDue
<1> QED
  BY <1>1, <1>2 DEF CasesDue, Case!Goroutines

-----------------------------------------------------------------------------
(* The theorems *)

\* In the pipeline the ingestion service implements its module: the
\* orchestrator's workers take events off its topic as its consumers may.
THEOREM IngestionImplemented == Spec => Ing!Spec
<1>1. Init => Ing!Init
  BY DEF Init
<1>2. IInv /\ [Next]_vars => [Ing!Next]_(Ing!vars)
  BY IngestionSteps, SameIngestion
<1> QED
  BY <1>1, <1>2, Inductive, PTL DEF Spec, Ing!Spec

\* In the pipeline the orchestrator, the decision service and case management
\* implement their modules.
THEOREM EachImplemented == Spec => ServicesImplemented
<1>1. Init => Risk!Init /\ Dec!Init /\ Case!Init
  BY DEF Init
<1>2. IInv /\ [Next]_vars => [Risk!Next]_(Risk!vars)
  BY RiskSteps, SameRisk
<1>3. IInv /\ [Next]_vars => [Dec!Next]_(Dec!vars)
  BY DecisionSteps, SameDecision
<1>4. IInv /\ [Next]_vars => [Case!Next]_(Case!vars)
  BY CaseSteps, SameCase
<1> QED
  BY <1>1, <1>2, <1>3, <1>4, Inductive, PTL
     DEF Spec, ServicesImplemented, Risk!Spec, Dec!Spec, Case!Spec

\* A payment can be followed to its decision.
LEMMA ChainHolds == Spec => []Chain
<1>1. Init => Chain
  BY DEF Init, Risk!Init, Dec!Init, Risk!Reading, Dec!Reading, Chain,
         DecisionsHavePayments, Dec!Exists, Dec!Absent
<1> QED
  BY <1>1, ChainStep, Inductive, PTL DEF Spec

\* Every decision without a payment event id was made for a tenant whose
\* payment the ingestion service had stored.
THEOREM HavePayments == Spec => []DecisionsHavePayments
<1>1. Chain => DecisionsHavePayments
  BY DEF Chain
<1> QED
  BY <1>1, ChainHolds, PTL

\* Every case that nobody asked for by hand is about a decision on a payment, and
\* was opened with an outcome of that decision that calls for a case.
THEOREM CasesFollow == Spec => []CasesFollowDecisions
<1>1. Init => CasesDue
  BY DEF Init, Case!Init, Case!Idle, Case!Exists, CasesDue
<1>2. CasesDue => CasesFollowDecisions
  BY DEF CasesDue, Due, Had, Known, CasesFollowDecisions
<1> QED
  BY <1>1, <1>2, CasesDueStep, ChainHolds, Inductive, PTL DEF Spec

\* What is shown of each service alone holds while all four run: no client is
\* told that a payment is received that is not stored, no event is published
\* for one, no two workers evaluate one payment event unless SETNX failed or its
\* key expired for that event, every decision has had the outcomes its override
\* rows and its events tell, and every case the statuses its action rows and its
\* events tell.
THEOREM ServicesStaySafe ==
  Spec => [](/\ Ing!AnsweredAreStored
             /\ Ing!PublishedAreStored
             /\ Risk!ExclusiveUnlessDegraded
             /\ Risk!HeldKeysExist
             /\ Dec!OverrideTrailUnbroken
             /\ Dec!PublishedOutcomesAreReal
             /\ Dec!FailOpenStartsAsApprove
             /\ Case!CaseTrailUnbroken
             /\ Case!AnnouncedCasesAreReal)
<1>1. IInv => Ing!AnsweredAreStored /\ Ing!PublishedAreStored
  BY DEF IInv, IngP!IInv, IngP!AnsweredAreStored, Ing!AnsweredAreStored,
     IngP!PublishedAreStored, Ing!PublishedAreStored, IngP!Stored, Ing!Stored,
     IngP!SlotOf, Ing!SlotOf
<1>2. IInv => Risk!ExclusiveUnlessDegraded /\ Risk!HeldKeysExist
  BY DEF IInv, RiskP!IInv, RiskP!ExclusiveUnlessDegraded,
     Risk!ExclusiveUnlessDegraded, RiskP!HeldKeysExist, Risk!HeldKeysExist,
     RiskP!Holds, Risk!Holds
<1>3. IInv => /\ Dec!OverrideTrailUnbroken
              /\ Dec!PublishedOutcomesAreReal
              /\ Dec!FailOpenStartsAsApprove
  BY DEF IInv, DecP!IInv, DecP!OverrideTrailUnbroken,
     Dec!OverrideTrailUnbroken, DecP!PublishedOutcomesAreReal,
     Dec!PublishedOutcomesAreReal, DecP!FailOpenStartsAsApprove,
     Dec!FailOpenStartsAsApprove, DecP!History, Dec!History, DecP!Exists,
     Dec!Exists, DecP!Absent, Dec!Absent
<1>4. IInv => Case!CaseTrailUnbroken /\ Case!AnnouncedCasesAreReal
  BY DEF IInv, CaseP!IInv, CaseP!CaseTrailUnbroken, Case!CaseTrailUnbroken,
     CaseP!AnnouncedCasesAreReal, Case!AnnouncedCasesAreReal,
     CaseP!StatusesOf, Case!StatusesOf, CaseP!StatusAfter, Case!StatusAfter,
     CaseP!Exists, Case!Exists, CaseP!NoCase, Case!NoCase, CaseP!Last,
     Case!Last
<1> QED
  BY <1>1, <1>2, <1>3, <1>4, Inductive, PTL

\* In the pipeline, too, nothing recorded is rewritten: a stored payment keeps
\* its row whatever retries follow, a decision its first evaluation, and a case
\* what it was opened with.
THEOREM FirstsWin ==
  Spec => /\ Ing!FirstRequestWins
          /\ Dec!FirstEvaluationWins
          /\ Case!FirstOpeningWins
<1>1. Spec => IngP!FirstRequestWins
  <2>1. Init => IngP!Init
    BY SameIngestion DEF Init
  <2>2. IInv /\ [Next]_vars => [IngP!Next]_(IngP!vars)
    BY IngestionSteps
  <2>3. IngP!Spec => IngP!FirstRequestWins
    BY IngP!FirstWins, SchemaAssumption
  <2> QED
    BY <2>1, <2>2, <2>3, Inductive, PTL DEF Spec, IngP!Spec
<1>2. Spec => DecP!FirstEvaluationWins
  <2>1. Init => DecP!Init
    BY SameDecision DEF Init
  <2>2. IInv /\ [Next]_vars => [DecP!Next]_(DecP!vars)
    BY DecisionSteps
  <2>3. DecP!Spec => DecP!FirstEvaluationWins
    BY DecP!FirstWins, OutcomeAssumption, MaxOverridesAssumption
  <2> QED
    BY <2>1, <2>2, <2>3, Inductive, PTL DEF Spec, DecP!Spec
<1>3. IngP!FirstRequestWins => Ing!FirstRequestWins
  BY PTL DEF IngP!FirstRequestWins, Ing!FirstRequestWins, IngP!SlotOf,
             Ing!SlotOf, IngP!vars, Ing!vars
<1>4. DecP!FirstEvaluationWins => Dec!FirstEvaluationWins
  BY PTL DEF DecP!FirstEvaluationWins, Dec!FirstEvaluationWins, DecP!Exists,
             Dec!Exists, DecP!Absent, Dec!Absent, DecP!vars, Dec!vars
<1>5. Spec => CaseP!FirstOpeningWins
  <2>1. Init => CaseP!Init
    BY SameCase DEF Init
  <2>2. IInv /\ [Next]_vars => [CaseP!Next]_(CaseP!vars)
    BY CaseSteps
  <2>3. CaseP!Spec => CaseP!FirstOpeningWins
    BY CaseP!FirstOpening, MaxTimeAssumption, RequestedAssumption
  <2> QED
    BY <2>1, <2>2, <2>3, Inductive, PTL DEF Spec, CaseP!Spec
<1>6. CaseP!FirstOpeningWins => Case!FirstOpeningWins
  BY PTL DEF CaseP!FirstOpeningWins, Case!FirstOpeningWins, CaseP!Exists,
             Case!Exists, CaseP!NoCase, Case!NoCase, CaseP!Last, Case!Last,
             CaseP!vars, Case!vars
<1> QED
  BY <1>1, <1>2, <1>3, <1>4, <1>5, <1>6

\* In the pipeline, too, the decision service keeps the ledger that explanations
\* are made from.
THEOREM LedgerKept == Spec => Dec!ImplementsLedger
<1>1. Init => DecP!Init
  BY SameDecision DEF Init
<1>2. IInv /\ [Next]_vars => [DecP!Next]_(DecP!vars)
  BY DecisionSteps
<1>3. DecP!Spec => DecP!ImplementsLedger
  BY DecP!LedgerImplemented, OutcomeAssumption, MaxOverridesAssumption
<1>4. DecP!ImplementsLedger => Dec!ImplementsLedger
  BY PTL DEF DecP!ImplementsLedger, Dec!ImplementsLedger,
             DecP!Ledger!Spec, Dec!Ledger!Spec, DecP!Ledger!Init,
             Dec!Ledger!Init, DecP!Ledger!Next, Dec!Ledger!Next,
             DecP!Ledger!Record, Dec!Ledger!Record, DecP!Ledger!Override,
             Dec!Ledger!Override, DecP!Ledger!Announce, Dec!Ledger!Announce,
             DecP!Ledger!vars, Dec!Ledger!vars, DecP!History, Dec!History,
             DecP!Exists, Dec!Exists, DecP!Absent, Dec!Absent
<1> QED
  BY <1>1, <1>2, <1>3, <1>4, Inductive, PTL DEF Spec, DecP!Spec

=============================================================================
