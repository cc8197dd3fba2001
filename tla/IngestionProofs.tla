--------------------------- MODULE IngestionProofs ---------------------------
(***************************************************************************)
(* Proofs about Ingestion, for every set of tenants, idempotency keys,     *)
(* bodies and callers, and whether or not the table accepts the INSERT.    *)
(*                                                                         *)
(* What a client is told and what is published rest on one fact: whatever  *)
(* got past the INSERT, be it a mark in Redis, a call or an event, is      *)
(* about a payment that is stored, and rows are never removed.             *)
(***************************************************************************)
EXTENDS Ingestion, TLAPS

\* A mark in Redis is about a stored payment.
MarksAreStored == \A slot \in dedupe : Stored(slot)

\* A call that has seen a conflict works on a stored payment.
ConflictsAreStored ==
    \A c \in Callers :
        calls[c].at \in {"fetch", "mark", "publish"}
            => Stored(SlotOf(calls[c].req))

\* The unique constraint of the table.
OneRowPerSlot == \A r, s \in rows : SlotOf(r) = SlotOf(s) => r = s

IInv ==
    /\ TypeOK
    /\ MarksAreStored
    /\ ConflictsAreStored
    /\ OneRowPerSlot
    /\ AnsweredAreStored
    /\ PublishedAreStored

-----------------------------------------------------------------------------

\* The slot of a request is a slot.
LEMMA SlotType == ASSUME NEW r \in Request PROVE SlotOf(r) \in Slot
BY DEF Request, SlotOf, Slot

\* A call that is about to take a step of the handler carries a request.
LEMMA RunningCall ==
  ASSUME TypeOK, NEW c \in Callers,
         calls[c].at \in {"check", "insert", "fetch", "mark", "publish"}
  PROVE  calls[c] \in Running /\ calls[c].req \in Request
BY DEF TypeOK, Idle, Running, Replied

\* Moving on and replying keep the calls well typed and touch one call.
LEMMA CallMoves ==
  ASSUME TypeOK, NEW c \in Callers, calls[c].req \in Request
  PROVE  /\ \A step \in {"insert", "fetch", "mark", "publish"} : Goto(c, step) =>
              /\ calls' \in [Callers -> {Idle} \cup Running \cup Replied]
              /\ calls'[c] = [at |-> step, req |-> calls[c].req]
         /\ \A status \in Status, stored \in BOOLEAN : Reply(c, status, stored) =>
              /\ calls' \in [Callers -> {Idle} \cup Running \cup Replied]
              /\ calls'[c] = [at |-> "replied", req |-> calls[c].req,
                              status |-> status, stored |-> stored]
<1>1. ASSUME NEW step \in {"insert", "fetch", "mark", "publish"}, Goto(c, step)
      PROVE  /\ calls' \in [Callers -> {Idle} \cup Running \cup Replied]
             /\ calls'[c] = [at |-> step, req |-> calls[c].req]
  <2>1. [at |-> step, req |-> calls[c].req] \in Running
    BY DEF Running
  <2> QED
    BY <1>1, <2>1 DEF Goto, TypeOK
<1>2. ASSUME NEW status \in Status, NEW stored \in BOOLEAN,
             Reply(c, status, stored)
      PROVE  /\ calls' \in [Callers -> {Idle} \cup Running \cup Replied]
             /\ calls'[c] = [at |-> "replied", req |-> calls[c].req,
                             status |-> status, stored |-> stored]
  <2>1. [at |-> "replied", req |-> calls[c].req,
         status |-> status, stored |-> stored] \in Replied
    BY DEF Replied
  <2> QED
    BY <1>2, <2>1 DEF Reply, TypeOK
<1> QED
  BY <1>1, <1>2

\* Every step keeps the table, the marks, the topic and the calls well typed.
LEMMA TypeStep == ASSUME TypeOK, [Next]_vars PROVE TypeOK'
<1> USE DEF Status
<1>1. ASSUME NEW c \in Callers, NEW r \in Request, Call(c, r) PROVE TypeOK'
  <2>1. [at |-> "check", req |-> r] \in Running
    BY DEF Running
  <2> QED
    BY <1>1, <2>1 DEF Call, TypeOK
<1>2. ASSUME NEW c \in Callers, IsDuplicate(c) PROVE TypeOK'
  <2>1. calls[c].req \in Request
    BY <1>2, RunningCall DEF IsDuplicate
  <2> QED
    BY <1>2, <2>1, CallMoves DEF IsDuplicate, TypeOK
<1>3. ASSUME NEW c \in Callers, InsertPaymentEvent(c) PROVE TypeOK'
  <2>1. calls[c].req \in Request
    BY <1>3, RunningCall DEF InsertPaymentEvent
  <2>2. rows' \subseteq Request
    BY <1>3, <2>1 DEF InsertPaymentEvent, TypeOK
  <2>3. calls' \in [Callers -> {Idle} \cup Running \cup Replied]
    BY <1>3, <2>1, CallMoves DEF InsertPaymentEvent
  <2> QED
    BY <1>3, <2>2, <2>3 DEF InsertPaymentEvent, TypeOK
<1>4. ASSUME NEW c \in Callers, GetPaymentEventByIdempotencyKey(c)
      PROVE  TypeOK'
  <2>1. calls[c].req \in Request
    BY <1>4, RunningCall DEF GetPaymentEventByIdempotencyKey
  <2> QED
    BY <1>4, <2>1, CallMoves DEF GetPaymentEventByIdempotencyKey, TypeOK
<1>5. ASSUME NEW c \in Callers, MarkProcessed(c) PROVE TypeOK'
  <2>1. calls[c].req \in Request
    BY <1>5, RunningCall DEF MarkProcessed
  <2> QED
    BY <1>5, <2>1, SlotType, CallMoves DEF MarkProcessed, TypeOK
<1>6. ASSUME NEW c \in Callers, PublishPaymentReceived(c) PROVE TypeOK'
  <2>1. calls[c].req \in Request
    BY <1>6, RunningCall DEF PublishPaymentReceived
  <2>2. PaymentReceived(calls[c].req) \in PaymentEvent
    BY <2>1 DEF PaymentReceived, PaymentEvent, Request, Body
  <2>3. calls' \in [Callers -> {Idle} \cup Running \cup Replied]
    BY <1>6, <2>1, CallMoves DEF PublishPaymentReceived
  <2> QED
    BY <1>6, <2>2, <2>3 DEF PublishPaymentReceived, Enqueued, TypeOK
<1>7. ASSUME NEW c \in Callers, Crash(c) PROVE TypeOK'
  BY <1>7 DEF Crash, TypeOK
<1>8. ASSUME NEW slot \in Slot, Expire(slot) PROVE TypeOK'
  BY <1>8 DEF Expire, TypeOK
<1>9. ASSUME NEW m \in PaymentEvent, PaymentConsumed(m) PROVE TypeOK'
  BY <1>9 DEF PaymentConsumed, Delivered, TypeOK
<1>10. CASE UNCHANGED vars
  BY <1>10 DEF vars, TypeOK
<1> QED
  BY <1>1, <1>2, <1>3, <1>4, <1>5, <1>6, <1>7, <1>8, <1>9, <1>10
     DEF Next, CallStep

\* Rows are only added, and only to a slot that had none.
LEMMA RowsStep ==
  ASSUME [Next]_vars
  PROVE  \/ UNCHANGED rows
         \/ \E c \in Callers : /\ calls[c].at = "insert"
                               /\ ~Stored(SlotOf(calls[c].req))
                               /\ rows' = rows \cup {calls[c].req}
BY DEF Next, vars, CallStep, Call, IsDuplicate, InsertPaymentEvent,
       GetPaymentEventByIdempotencyKey, MarkProcessed, PublishPaymentReceived,
       Crash, Expire, PaymentConsumed

\* A row of the slot is there after the step.
StoredNext(slot) == \E row \in rows' : SlotOf(row) = slot

\* What is stored stays stored.
LEMMA StoredStays ==
  ASSUME [Next]_vars PROVE \A slot : Stored(slot) => StoredNext(slot)
BY RowsStep DEF Stored, StoredNext

\* The unique constraint holds, and a row keeps its slot to itself.
LEMMA UniqueStep ==
  ASSUME OneRowPerSlot, [Next]_vars
  PROVE  /\ OneRowPerSlot'
         /\ \A row \in rows :
              /\ row \in rows'
              /\ \A new \in rows' : SlotOf(new) = SlotOf(row) => new = row
BY RowsStep DEF OneRowPerSlot, Stored

\* A call changes only by a step of its own.
LEMMA CallSteps ==
  ASSUME TypeOK, [Next]_vars, NEW c \in Callers, calls'[c] # calls[c]
  PROVE  CallStep(c)
<1>1. ASSUME UNCHANGED calls PROVE FALSE
  BY <1>1
<1>2. ASSUME NEW d \in Callers, CallStep(d) PROVE d = c
  <2>1. \E x : calls' = [calls EXCEPT ![d] = x]
    BY <1>2 DEF CallStep, Call, IsDuplicate, InsertPaymentEvent,
       GetPaymentEventByIdempotencyKey, MarkProcessed, PublishPaymentReceived,
       Crash, Goto, Reply
  <2> QED
    BY <2>1 DEF TypeOK
<1> QED
  BY <1>1, <1>2 DEF Next, vars, Expire, PaymentConsumed

\* Calls that saw a conflict or answered the client are about stored payments.
LEMMA CallsStep ==
  ASSUME IInv, [Next]_vars
  PROVE  ConflictsAreStored' /\ AnsweredAreStored'
<1> USE DEF IInv
<1> DEFINE Claims(call) ==
      \/ call.at \in {"fetch", "mark", "publish"}
      \/ call.at = "replied" /\ call.status \in {"RECEIVED", "DUPLICATE"}
<1> SUFFICES ASSUME NEW c \in Callers, Claims(calls'[c])
             PROVE  StoredNext(SlotOf(calls'[c].req))
  BY DEF ConflictsAreStored, AnsweredAreStored, Stored, StoredNext
<1>1. CASE calls'[c] = calls[c]
  BY <1>1, StoredStays DEF ConflictsAreStored, AnsweredAreStored
<1>2. CASE calls'[c] # calls[c]
  <2>1. CallStep(c)
    BY <1>2, CallSteps
  <2>2. ASSUME StoredNext(SlotOf(calls[c].req)), calls'[c].req = calls[c].req
        PROVE  StoredNext(SlotOf(calls'[c].req))
    BY <2>2
  <2>3. ASSUME NEW r \in Request, Call(c, r) PROVE FALSE
    BY <2>3 DEF Call, TypeOK
  <2>4. CASE Crash(c)
    BY <2>4 DEF Crash, TypeOK, Idle
  <2>5. ASSUME calls[c].req \in Request, NEW status \in Status,
               NEW stored \in BOOLEAN, Reply(c, status, stored)
        PROVE  calls'[c].req = calls[c].req /\ calls'[c].status = status
                 /\ calls'[c].at = "replied"
    <3>1. calls'[c] = [at |-> "replied", req |-> calls[c].req,
                       status |-> status, stored |-> stored]
      BY <2>5, CallMoves
    <3> QED
      BY <3>1
  <2>6. ASSUME calls[c].req \in Request,
               NEW step \in {"insert", "fetch", "mark", "publish"}, Goto(c, step)
        PROVE  calls'[c].req = calls[c].req /\ calls'[c].at = step
    <3>1. calls'[c] = [at |-> step, req |-> calls[c].req]
      BY <2>6, CallMoves
    <3> QED
      BY <3>1
  <2>7. CASE IsDuplicate(c)
    <3>1. calls[c].req \in Request
      BY <2>7, RunningCall DEF IsDuplicate
    <3>2. CASE Goto(c, "insert")
      <4>1. calls'[c].at = "insert"
        BY <2>6, <3>1, <3>2
      <4> QED
        BY <4>1
    <3>3. CASE SlotOf(calls[c].req) \in dedupe /\ Reply(c, "DUPLICATE", FALSE)
      <4>1. calls'[c].req = calls[c].req
        BY <2>5, <3>1, <3>3 DEF Status
      <4>2. StoredNext(SlotOf(calls[c].req))
        BY <3>3, StoredStays DEF MarksAreStored
      <4> QED
        BY <2>2, <4>1, <4>2
    <3> QED
      BY <2>7, <3>2, <3>3 DEF IsDuplicate
  <2>8. CASE InsertPaymentEvent(c)
    <3>1. calls[c].req \in Request
      BY <2>8, RunningCall DEF InsertPaymentEvent
    <3>2. calls'[c].req = calls[c].req
      BY <2>5, <2>6, <2>8, <3>1 DEF InsertPaymentEvent, Status
    <3>3. CASE rows' = rows \cup {calls[c].req}
      BY <2>2, <3>2, <3>3 DEF StoredNext
    <3>4. CASE Stored(SlotOf(calls[c].req)) /\ Goto(c, "fetch")
      <4>1. StoredNext(SlotOf(calls[c].req))
        BY <3>4, StoredStays
      <4> QED
        BY <2>2, <3>2, <4>1
    <3>5. CASE Reply(c, "INTERNAL", FALSE)
      <4>1. calls'[c].at = "replied" /\ calls'[c].status = "INTERNAL"
        BY <2>5, <3>1, <3>5 DEF Status
      <4> QED
        BY <4>1
    <3> QED
      BY <2>8, <3>3, <3>4, <3>5 DEF InsertPaymentEvent
  <2>9. CASE \/ GetPaymentEventByIdempotencyKey(c)
             \/ MarkProcessed(c)
             \/ PublishPaymentReceived(c)
    <3>1. calls[c].req \in Request /\ StoredNext(SlotOf(calls[c].req))
      BY <2>9, RunningCall, StoredStays DEF ConflictsAreStored,
         GetPaymentEventByIdempotencyKey, MarkProcessed, PublishPaymentReceived
    <3>2. calls'[c].req = calls[c].req
      BY <2>5, <2>6, <2>9, <3>1 DEF Status,
         GetPaymentEventByIdempotencyKey, MarkProcessed, PublishPaymentReceived
    <3> QED
      BY <2>2, <3>1, <3>2
  <2> QED
    BY <2>1, <2>3, <2>4, <2>7, <2>8, <2>9 DEF CallStep
<1> QED
  BY <1>1, <1>2

\* Marks and events come from calls that saw a conflict.
LEMMA MarksStep ==
  ASSUME IInv, [Next]_vars PROVE MarksAreStored'
<1> USE DEF IInv
<1>1. ASSUME dedupe' \subseteq dedupe PROVE MarksAreStored'
  BY <1>1, StoredStays DEF MarksAreStored, Stored, StoredNext
<1>2. ASSUME NEW c \in Callers, MarkProcessed(c) PROVE MarksAreStored'
  <2>1. Stored(SlotOf(calls[c].req))
    BY <1>2 DEF MarkProcessed, ConflictsAreStored
  <2> QED
    BY <1>2, <2>1, StoredStays DEF MarkProcessed, MarksAreStored, Stored, StoredNext
<1> QED
  BY <1>1, <1>2 DEF Next, vars, CallStep, Call, IsDuplicate,
     InsertPaymentEvent, GetPaymentEventByIdempotencyKey,
     PublishPaymentReceived, Crash, Expire, PaymentConsumed

\* So does every event on the topic.
LEMMA PublishedStep ==
  ASSUME IInv, [Next]_vars PROVE PublishedAreStored'
<1> USE DEF IInv
<1>1. ASSUME paymentsTopic' \subseteq paymentsTopic PROVE PublishedAreStored'
  BY <1>1, StoredStays DEF PublishedAreStored, Stored, StoredNext
<1>2. ASSUME NEW c \in Callers, PublishPaymentReceived(c)
      PROVE  PublishedAreStored'
  <2>1. StoredNext(SlotOf(calls[c].req))
    BY <1>2, StoredStays DEF PublishPaymentReceived, ConflictsAreStored
  <2>2. \A m \in paymentsTopic' :
          m \in paymentsTopic \/ m = PaymentReceived(calls[c].req)
    BY <1>2 DEF PublishPaymentReceived, Enqueued
  <2>3. ASSUME NEW m, m = PaymentReceived(calls[c].req)
        PROVE  [tenant |-> m.tenant, key |-> m.body.key] = SlotOf(calls[c].req)
    BY <2>3 DEF PaymentReceived, SlotOf
  <2> QED
    BY <2>1, <2>2, <2>3, StoredStays DEF PublishedAreStored, Stored, StoredNext
<1> QED
  BY <1>1, <1>2 DEF Next, vars, CallStep, Call, IsDuplicate,
     InsertPaymentEvent, GetPaymentEventByIdempotencyKey, MarkProcessed,
     Crash, Expire, PaymentConsumed, Delivered

-----------------------------------------------------------------------------
(* The theorems *)

\* IInv holds initially.
LEMMA Initially == Init => IInv
BY DEF Init, IInv, TypeOK, MarksAreStored, ConflictsAreStored, OneRowPerSlot,
       AnsweredAreStored, PublishedAreStored, Idle

\* Every step preserves IInv.
LEMMA Preserved == IInv /\ [Next]_vars => IInv'
BY TypeStep, UniqueStep, CallsStep, MarksStep, PublishedStep DEF IInv

\* So IInv is an invariant.
LEMMA Inductive == Spec => []IInv
BY Initially, Preserved, PTL DEF Spec

\* The table, the marks, the topic and the calls are always well typed.
THEOREM TypeCorrect == Spec => []TypeOK
BY Inductive, PTL DEF IInv

\* A client told RECEIVED or DUPLICATE has its payment stored.
THEOREM AnsweredStored == Spec => []AnsweredAreStored
BY Inductive, PTL DEF IInv

\* Events are published only for stored payments.
THEOREM PublishedStored == Spec => []PublishedAreStored
BY Inductive, PTL DEF IInv

\* The first request under an idempotency key is the one that is kept.
THEOREM FirstWins == Spec => FirstRequestWins
<1>1. ASSUME OneRowPerSlot, [Next]_vars
      PROVE  [\A row \in rows :
                /\ row \in rows'
                /\ \A new \in rows' : SlotOf(new) = SlotOf(row) => new = row
             ]_vars
  BY <1>1, UniqueStep
<1>2. IInv => OneRowPerSlot
  BY DEF IInv
<1> QED
  BY <1>1, <1>2, Inductive, PTL DEF Spec, FirstRequestWins

=============================================================================
