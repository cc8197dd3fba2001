----------------------------- MODULE AuditTrail -----------------------------
(***************************************************************************)
(* The audit trail: AppendEvent links each audit event of a tenant to the  *)
(* hash of the tenant's latest event; VerifyChain walks the links.         *)
(*                                                                         *)
(* One goroutine per topic, and one per gRPC call, runs AppendEvent in a   *)
(* READ COMMITTED transaction: its SELECT sees the rows committed by then, *)
(* its INSERT draws seq from a sequence, and its row appears at COMMIT, so *)
(* rows may appear in another order than that of their seq. Kafka may lose *)
(* a message or deliver it twice; what is appended is therefore any event. *)
(***************************************************************************)
EXTENDS Naturals, FiniteSets, FiniteSetsExt

CONSTANTS Tenants,
          NoTenant,   \* the tenant of a message without tenant_id
          Readers,    \* topic readers, of all instances
          Handlers,   \* AppendAuditEvent calls
          MaxSeq      \* bound: values drawn from the sequence of seq

ASSUME MaxSeqAssumption == MaxSeq \in Nat

VARIABLES rows,       \* the committed rows of audit_events
          seq,        \* the last value drawn from the sequence
          tx,         \* the AppendEvent transaction of each writer
          overlapped  \* history: tenants of which two appends have overlapped

vars == <<rows, seq, tx, overlapped>>

Writers == Readers \cup Handlers

-----------------------------------------------------------------------------
(* Rows, chains and transactions *)

\* A row's hash is unique to it (SHA-256 of its link, content and time); its
\* seq stands for it. Genesis is the empty previous_hash.
Genesis == 0
Row == [seq : 1..MaxSeq, tenant : Tenants, prev : 0..MaxSeq]

Idle     == [at |-> "idle"]
Hashed   == [at : {"hashed"}, tenant : Tenants, prev : 0..MaxSeq]
Inserted == [at : {"inserted"}, row : Row]

TenantOf(t) == IF t.at = "inserted" THEN t.row.tenant ELSE t.tenant

RowsOf(tenant) == {r \in rows : r.tenant = tenant}

\* ORDER BY seq DESC LIMIT 1.
LatestHash(R) == IF R = {} THEN Genesis ELSE Max({r.seq : r \in R})

Before(r) == {s \in RowsOf(r.tenant) : s.seq < r.seq}

\* The hash a row must link to for the chain to be intact at it.
Linked(r) == r.prev = LatestHash(Before(r))

\* VerifyChain checks the links of the first `limit` rows of a tenant by seq.
VerifyChain(tenant, limit) ==
    \A r \in RowsOf(tenant) : Cardinality(Before(r)) < limit => Linked(r)

Init ==
    /\ rows = {}
    /\ seq = 0
    /\ tx = [w \in Writers |-> Idle]
    /\ overlapped = {}

-----------------------------------------------------------------------------
(* AppendEvent *)

\* Fault: the query forgets WHERE tenant_id.
SelectLatestHash_AnyTenant(w, tenant) ==
    /\ tx[w] = Idle
    /\ w \in Handlers => tenant # NoTenant
    /\ tx' = [tx EXCEPT ![w] = [at     |-> "hashed",
                                tenant |-> tenant,
                                prev   |-> LatestHash(rows)]]
    /\ overlapped' =
         IF \E v \in Writers : tx[v] # Idle /\ TenantOf(tx[v]) = tenant
         THEN overlapped \cup {tenant} ELSE overlapped
    /\ UNCHANGED <<rows, seq>>

\* Fault: the query sees rows that are not committed yet.
SelectLatestHash_Dirty(w, tenant) ==
    /\ tx[w] = Idle
    /\ w \in Handlers => tenant # NoTenant
    /\ LET dirty == {tx[v].row : v \in {u \in Writers : tx[u].at = "inserted"}}
           R == RowsOf(tenant) \cup {r \in dirty : r.tenant = tenant} IN
        tx' = [tx EXCEPT ![w] = [at     |-> "hashed",
                                 tenant |-> tenant,
                                 prev   |-> LatestHash(R)]]
    /\ overlapped' =
         IF \E v \in Writers : tx[v] # Idle /\ TenantOf(tx[v]) = tenant
         THEN overlapped \cup {tenant} ELSE overlapped
    /\ UNCHANGED <<rows, seq>>

\* A writer with an event of the tenant begins a transaction and reads the
\* latest hash, without a lock. Only the gRPC handler asks for a tenant.
SelectLatestHash(w, tenant) ==
    /\ tx[w] = Idle
    /\ w \in Handlers => tenant # NoTenant
    /\ tx' = [tx EXCEPT ![w] = [at     |-> "hashed",
                                tenant |-> tenant,
                                prev   |-> LatestHash(RowsOf(tenant))]]
    /\ overlapped' =
         IF \E v \in Writers : tx[v] # Idle /\ TenantOf(tx[v]) = tenant
         THEN overlapped \cup {tenant} ELSE overlapped
    /\ UNCHANGED <<rows, seq>>

InsertEvent(w) ==
    /\ tx[w].at = "hashed"
    /\ seq < MaxSeq
    /\ seq' = seq + 1
    /\ tx' = [tx EXCEPT ![w] =
                 [at  |-> "inserted",
                  row |-> [seq    |-> seq',
                           tenant |-> tx[w].tenant,
                           prev   |-> tx[w].prev]]]
    /\ UNCHANGED <<rows, overlapped>>

Commit(w) ==
    /\ tx[w].at = "inserted"
    /\ rows' = rows \cup {tx[w].row}
    /\ tx' = [tx EXCEPT ![w] = Idle]
    /\ UNCHANGED <<seq, overlapped>>

\* Fault: a rollback deletes the row by its seq although it was committed.
Rollback_Deletes(w) ==
    /\ tx[w] # Idle
    /\ tx' = [tx EXCEPT ![w] = Idle]
    /\ rows' = {r \in rows : r.seq # seq}
    /\ UNCHANGED <<seq, overlapped>>

\* Fault: a rollback gives the seq that was drawn back.
Rollback_GivesSeqBack(w) ==
    /\ tx[w] # Idle
    /\ tx' = [tx EXCEPT ![w] = Idle]
    /\ seq' = seq - 1
    /\ UNCHANGED <<rows, overlapped>>

\* An error or a crash; the seq that was drawn is not given back.
Rollback(w) ==
    /\ tx[w] # Idle
    /\ tx' = [tx EXCEPT ![w] = Idle]
    /\ UNCHANGED <<rows, seq, overlapped>>

Next ==
    \E w \in Writers :
        \/ \E tenant \in Tenants : SelectLatestHash(w, tenant)
        \/ InsertEvent(w)
        \/ Commit(w)
        \/ Rollback(w)

Spec == Init /\ [][Next]_vars

-----------------------------------------------------------------------------
(* Properties *)

TypeOK ==
    /\ rows \subseteq Row
    /\ seq \in 0..MaxSeq
    /\ tx \in [Writers -> {Idle} \cup Hashed \cup Inserted]
    /\ overlapped \subseteq Tenants

\* Concurrent appends may fork a tenant's chain but never leave a loose end:
\* every row links to the genesis or to an older row of its own tenant, even
\* when a transaction it ran with was rolled back.
LinksAreRows ==
    \A r \in rows :
        \/ r.prev = Genesis
        \/ \E s \in RowsOf(r.tenant) : s.seq = r.prev /\ s.seq < r.seq

\* As long as the appends of a tenant follow one another, through rollbacks and
\* whatever other tenants do, its chain is intact.
SequentialChainsValid ==
    \A tenant \in Tenants \ overlapped : VerifyChain(tenant, MaxSeq)

\* A break is permanent: once a walk over all rows of a tenant has found its
\* chain broken, no append that commits later, with a smaller seq even, mends
\* it.
BreaksArePermanent ==
    [][\A tenant \in Tenants :
         ~VerifyChain(tenant, MaxSeq) => ~VerifyChain(tenant, MaxSeq)']_vars

\* "it reads the latest hash, computes the new hash, and inserts the event
\* atomically" (AppendEvent, store.go): every chain is always intact.
ChainsValid == \A tenant \in Tenants : VerifyChain(tenant, MaxSeq)

=============================================================================
