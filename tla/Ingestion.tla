------------------------------ MODULE Ingestion ------------------------------
(***************************************************************************)
(* The ingestion service: IngestPayment stores a payment event once per    *)
(* (tenant_id, idempotency_key), marks the key in Redis and publishes      *)
(* payments.received.                                                      *)
(*                                                                         *)
(* A caller is one gRPC call at a time; calls, retries among them, run     *)
(* concurrently and interleave at every Redis, database or Kafka call. A   *)
(* request that fails the validation of required fields changes nothing    *)
(* and is not modelled.                                                    *)
(***************************************************************************)
EXTENDS Kafka

CONSTANTS Tenants,
          IdempotencyKeys,
          Amounts,        \* what a retry may change: the body of the request
          NoId,           \* the empty event id
          Callers,
          SchemaAccepts   \* does the table payment_events accept the INSERT?

ASSUME SchemaAssumption == SchemaAccepts \in BOOLEAN

VARIABLES rows,           \* the table payment_events
          dedupe,         \* the (tenant, idempotency key) marks in Redis
          paymentsTopic,  \* payments.received
          calls           \* what each caller's call is doing

vars == <<rows, dedupe, paymentsTopic, calls>>

-----------------------------------------------------------------------------
(* Requests, events and control states *)

Request == [tenant : Tenants, key : IdempotencyKeys, amount : Amounts]
Slot == [tenant : Tenants, key : IdempotencyKeys]
Body == [key : IdempotencyKeys, amount : Amounts]

\* The UNIQUE (tenant_id, idempotency_key) a request falls under.
SlotOf(r) == [tenant |-> r.tenant, key |-> r.key]

Stored(slot) == \E row \in rows : SlotOf(row) = slot

PaymentEvent == [id : {NoId}, tenant : Tenants, body : Body]

\* Fault: the idempotency key is sent as the event id.
PaymentReceived_KeyAsId(r) ==
    [id |-> r.key, tenant |-> r.tenant,
     body |-> [key |-> r.key, amount |-> r.amount]]

\* PublishPaymentReceived is given evt, built from the request, not the row the
\* database returned: the id is never filled in.
PaymentReceived(r) ==
    [id |-> NoId, tenant |-> r.tenant,
     body |-> [key |-> r.key, amount |-> r.amount]]

Idle    == [at |-> "idle"]
Running == [at : {"check", "insert", "fetch", "mark", "publish"}, req : Request]

\* The reply of a call; stored says whether this call created the row.
Status  == {"RECEIVED", "DUPLICATE", "INTERNAL"}
Replied == [at : {"replied"}, req : Request, status : Status, stored : BOOLEAN]

Goto(c, step) == calls' = [calls EXCEPT ![c] = [at |-> step, req |-> @.req]]

Reply(c, status, stored) ==
    calls' = [calls EXCEPT ![c] = [at |-> "replied", req |-> @.req,
                                   status |-> status, stored |-> stored]]

Init ==
    /\ rows = {}
    /\ dedupe = {}
    /\ paymentsTopic = {}
    /\ calls = [c \in Callers |-> Idle]

-----------------------------------------------------------------------------
(* IngestPayment *)

Call(c, r) ==
    /\ calls[c].at \in {"idle", "replied"}
    /\ calls' = [calls EXCEPT ![c] = [at |-> "check", req |-> r]]
    /\ UNCHANGED <<rows, dedupe, paymentsTopic>>

\* Fault: the check claims the key (SETNX) before the row exists.
IsDuplicate_ClaimsKey(c) ==
    /\ calls[c].at = "check"
    /\ \/ /\ SlotOf(calls[c].req) \in dedupe
          /\ Reply(c, "DUPLICATE", FALSE)
       \/ Goto(c, "insert")
    /\ dedupe' = dedupe \cup {SlotOf(calls[c].req)}
    /\ UNCHANGED <<rows, paymentsTopic>>

\* EXISTS in Redis; an error counts as "not a duplicate".
IsDuplicate(c) ==
    /\ calls[c].at = "check"
    /\ \/ /\ SlotOf(calls[c].req) \in dedupe
          /\ Reply(c, "DUPLICATE", FALSE)
       \/ Goto(c, "insert")
    /\ UNCHANGED <<rows, dedupe, paymentsTopic>>

\* Fault: a failed INSERT is treated like a conflict.
InsertPaymentEvent_ErrorIsConflict(c) ==
    /\ calls[c].at = "insert"
    /\ LET r == calls[c].req IN
        \/ /\ ~Stored(SlotOf(r))
           /\ rows' = rows \cup {r}
           /\ Reply(c, "DUPLICATE", TRUE)
        \/ /\ Goto(c, "mark")
           /\ UNCHANGED rows
    /\ UNCHANGED <<dedupe, paymentsTopic>>

\* Fault: ON CONFLICT DO UPDATE SET amount.
InsertPaymentEvent_Upsert(c) ==
    /\ calls[c].at = "insert"
    /\ LET r == calls[c].req
           others == {row \in rows : SlotOf(row) # SlotOf(r)} IN
        /\ rows' = others \cup {r}
        /\ IF Stored(SlotOf(r)) THEN Goto(c, "mark")
                                ELSE Reply(c, "DUPLICATE", TRUE)
    /\ UNCHANGED <<dedupe, paymentsTopic>>

\* INSERT ... ON CONFLICT DO NOTHING. The second result is TRUE when the row is
\* NEW, and the handler takes it to mean "duplicate": the call that stores the
\* payment replies DUPLICATE and does no more. A conflict leads to a SELECT. An
\* error (of a statement the table refuses, always) may still have stored it.
InsertPaymentEvent(c) ==
    /\ calls[c].at = "insert"
    /\ LET r == calls[c].req IN
        \/ /\ SchemaAccepts
           /\ ~Stored(SlotOf(r))
           /\ rows' = rows \cup {r}
           /\ Reply(c, "DUPLICATE", TRUE)
        \/ /\ SchemaAccepts
           /\ Stored(SlotOf(r))
           /\ Goto(c, "fetch")
           /\ UNCHANGED rows
        \/ /\ Reply(c, "INTERNAL", FALSE)
           /\ UNCHANGED rows
        \/ /\ SchemaAccepts
           /\ ~Stored(SlotOf(r))
           /\ rows' = rows \cup {r}
           /\ Reply(c, "INTERNAL", TRUE)
    /\ UNCHANGED <<dedupe, paymentsTopic>>

\* The SELECT of the existing row: it is there, or the query fails.
GetPaymentEventByIdempotencyKey(c) ==
    /\ calls[c].at = "fetch"
    /\ \/ Goto(c, "mark")
       \/ Reply(c, "INTERNAL", FALSE)
    /\ UNCHANGED <<rows, dedupe, paymentsTopic>>

\* SET with the dedupe TTL; an error, with or without effect, is only logged.
MarkProcessed(c) ==
    /\ calls[c].at = "mark"
    /\ dedupe' \in {dedupe, dedupe \cup {SlotOf(calls[c].req)}}
    /\ Goto(c, "publish")
    /\ UNCHANGED <<rows, paymentsTopic>>

\* Best effort; the reply follows.
PublishPaymentReceived(c) ==
    /\ calls[c].at = "publish"
    /\ paymentsTopic' \in Enqueued(paymentsTopic, PaymentReceived(calls[c].req))
    /\ Reply(c, "RECEIVED", FALSE)
    /\ UNCHANGED <<rows, dedupe>>

-----------------------------------------------------------------------------
(* Expiry, crashes and the consumer of the topic *)

Expire(slot) ==
    /\ slot \in dedupe
    /\ dedupe' = dedupe \ {slot}
    /\ UNCHANGED <<rows, paymentsTopic, calls>>

Crash(c) ==
    /\ calls[c] \in Running
    /\ calls' = [calls EXCEPT ![c] = Idle]
    /\ UNCHANGED <<rows, dedupe, paymentsTopic>>

\* The orchestrator, as this service sees it.
PaymentConsumed(m) ==
    /\ m \in paymentsTopic
    /\ paymentsTopic' \in Delivered(paymentsTopic, m)
    /\ UNCHANGED <<rows, dedupe, calls>>

CallStep(c) ==
    \/ \E r \in Request : Call(c, r)
    \/ IsDuplicate(c)
    \/ InsertPaymentEvent(c)
    \/ GetPaymentEventByIdempotencyKey(c)
    \/ MarkProcessed(c)
    \/ PublishPaymentReceived(c)
    \/ Crash(c)

Next ==
    \/ \E c \in Callers : CallStep(c)
    \/ \E slot \in Slot : Expire(slot)
    \/ \E m \in PaymentEvent : PaymentConsumed(m)

Spec == Init /\ [][Next]_vars

-----------------------------------------------------------------------------
(* Properties *)

TypeOK ==
    /\ rows \subseteq Request
    /\ dedupe \subseteq Slot
    /\ paymentsTopic \subseteq PaymentEvent
    /\ calls \in [Callers -> {Idle} \cup Running \cup Replied]

\* No client is ever told that its payment was received, or is a duplicate,
\* unless the payment is stored: neither a mark in Redis that outlives a crash
\* or a failed INSERT, nor a race with another call, makes IngestPayment turn
\* away a payment nobody has.
AnsweredAreStored ==
    \A c \in Callers :
        /\ calls[c].at = "replied"
        /\ calls[c].status \in {"RECEIVED", "DUPLICATE"}
        => Stored(SlotOf(calls[c].req))

\* No event enters the pipeline for a payment that is not stored, whatever
\* calls, retries and failures published it.
PublishedAreStored ==
    \A m \in paymentsTopic :
        Stored([tenant |-> m.tenant, key |-> m.body.key])

\* Retries and concurrent calls store one row per idempotency key, and a retry
\* with another body never changes what was stored first.
FirstRequestWins ==
    [][\A row \in rows :
          /\ row \in rows'
          /\ \A new \in rows' : SlotOf(new) = SlotOf(row) => new = row]_vars

\* "duplicate idempotency key" (ingestion-service.go): the call that stores a
\* payment is not the one told that it is a duplicate.
FirstSubmissionReceived ==
    \A c \in Callers :
        calls[c].at = "replied" /\ calls[c].stored
            => calls[c].status # "DUPLICATE"

=============================================================================
