-------------------------- MODULE AuditTrailProofs --------------------------
(***************************************************************************)
(* Proofs about AuditTrail, for every set of tenants, readers and handlers *)
(* and every bound on seq.                                                 *)
(*                                                                         *)
(* The inductive invariant says that seq numbers are given out once, that  *)
(* the hash an open transaction has read belongs to a committed row, and   *)
(* that a transaction which runs alone for its tenant has read the hash of *)
(* the tenant's last row.                                                  *)
(***************************************************************************)
EXTENDS AuditTrail, FiniteSetTheorems, WellFoundedInduction, TLAPS

\* Rows, committed or about to be, have seq numbers that were drawn, each once.
SeqsDrawnOnce ==
    /\ \A r \in rows : r.seq <= seq
    /\ \A r, s \in rows : r.seq = s.seq => r = s
    /\ \A w \in Writers : tx[w].at = "inserted" =>
         /\ tx[w].row.seq <= seq
         /\ \A r \in rows : r.seq # tx[w].row.seq
         /\ \A v \in Writers :
              tx[v].at = "inserted" /\ tx[v].row.seq = tx[w].row.seq => v = w

\* prev is the genesis or the hash of an older row of the tenant.
IsLink(prev, tenant) ==
    \/ prev = Genesis
    \/ \E s \in RowsOf(tenant) : s.seq = prev

\* The hash a transaction has read is the one of a row of its tenant, drawn
\* before the transaction's own.
TxLinksAreRows ==
    \A w \in Writers :
        /\ tx[w].at = "hashed" => IsLink(tx[w].prev, tx[w].tenant)
        /\ tx[w].at = "inserted" => /\ IsLink(tx[w].row.prev, tx[w].row.tenant)
                                    /\ tx[w].row.prev < tx[w].row.seq

\* A transaction of a tenant without overlapping appends is the only one of the
\* tenant, has read the tenant's last row and comes after all of its rows.
AloneIsLast ==
    \A w \in Writers :
        /\ tx[w] # Idle
        /\ TenantOf(tx[w]) \notin overlapped
        => LET T == TenantOf(tx[w]) IN
           /\ \A v \in Writers : tx[v] # Idle /\ TenantOf(tx[v]) = T => v = w
           /\ tx[w].at = "hashed" => tx[w].prev = LatestHash(RowsOf(T))
           /\ tx[w].at = "inserted" =>
                /\ tx[w].row.prev = LatestHash(RowsOf(T))
                /\ \A r \in RowsOf(T) : r.seq < tx[w].row.seq

\* Every row of a tenant without overlapping appends links to the one before.
AloneIsLinked ==
    \A tenant \in Tenants \ overlapped : \A r \in RowsOf(tenant) : Linked(r)

IInv ==
    /\ TypeOK
    /\ SeqsDrawnOnce
    /\ TxLinksAreRows
    /\ LinksAreRows
    /\ AloneIsLast
    /\ AloneIsLinked

-----------------------------------------------------------------------------
(* The latest hash *)

\* A nonempty set of numbers up to N has a largest element, and Max is it.
LEMMA MaxOfBounded ==
  ASSUME NEW N \in Nat, NEW S \in SUBSET (0..N), S # {}
  PROVE  Max(S) \in S /\ \A y \in S : y <= Max(S)
<1> DEFINE R == {ss \in Nat \X Nat : ss[1] < ss[2]}
           T == {N - x : x \in S}
<1>1. IsWellFoundedOn(R, Nat)
  BY NatLessThanWellFounded DEF OpToRel
<1>2. T \subseteq Nat
  OBVIOUS
<1>3. T # {}
  <2>1. PICK x \in S : TRUE
    OBVIOUS
  <2> QED
    BY <2>1
<1>4. PICK t \in T : \A y \in T : ~(<<y, t>> \in R)
  <2> HIDE DEF R, T
  <2> QED
    BY <1>1, <1>2, <1>3, WFMin
<1>5. PICK m \in S : t = N - m
  OBVIOUS
<1>6. \A y \in S : y <= m
  <2> TAKE y \in S
  <2>1. N - y \in T /\ ~(<<N - y, t>> \in R)
    BY <1>4
  <2> QED
    BY <2>1, <1>5, <1>2
<1> QED
  BY <1>6 DEF Max

\* The latest hash of a set of rows is the genesis or the seq of one of them,
\* and no row of the set has a larger one.
LEMMA LatestHashIsLast ==
  ASSUME NEW R \in SUBSET Row
  PROVE  /\ LatestHash(R) \in 0..MaxSeq
         /\ \/ R = {} /\ LatestHash(R) = Genesis
            \/ \E s \in R : s.seq = LatestHash(R)
         /\ \A s \in R : s.seq <= LatestHash(R)
<1>1. CASE R = {}
  BY <1>1, MaxSeqAssumption DEF LatestHash, Genesis
<1>2. CASE R # {}
  <2> DEFINE S == {r.seq : r \in R}
  <2>1. S \in SUBSET (0..MaxSeq) /\ S # {}
    <3>1. S \subseteq 0..MaxSeq
      BY MaxSeqAssumption DEF Row
    <3>2. PICK r \in R : TRUE
      BY <1>2
    <3> QED
      BY <3>1, <3>2
  <2>2. Max(S) \in S /\ \A y \in S : y <= Max(S)
    <3> HIDE DEF S
    <3> QED
      BY <2>1, MaxOfBounded, MaxSeqAssumption
  <2>3. LatestHash(R) = Max(S)
    BY <1>2 DEF LatestHash
  <2> QED
    BY <2>1, <2>2, <2>3
<1> QED
  BY <1>1, <1>2

-----------------------------------------------------------------------------
(* Preservation *)

\* What a step does to the rows: only a COMMIT adds one, and seq never falls.
LEMMA RowsGrow ==
  ASSUME TypeOK, [Next]_vars
  PROVE  /\ rows \subseteq rows'
         /\ seq' \in Nat /\ seq <= seq'
         /\ overlapped \subseteq overlapped'
<1> USE MaxSeqAssumption
<1>1. seq \in Nat
  BY DEF TypeOK
<1> QED
  BY <1>1 DEF Next, vars, SelectLatestHash, InsertEvent, Commit, Rollback

LEMMA TypeStep ==
  ASSUME TypeOK, [Next]_vars
  PROVE  TypeOK'
<1> USE MaxSeqAssumption
<1>1. ASSUME NEW w \in Writers, NEW tenant \in Tenants, SelectLatestHash(w, tenant)
      PROVE  TypeOK'
  <2>1. RowsOf(tenant) \in SUBSET Row
    BY DEF TypeOK, RowsOf
  <2>2. LatestHash(RowsOf(tenant)) \in 0..MaxSeq
    BY <2>1, LatestHashIsLast
  <2>3. [at |-> "hashed", tenant |-> tenant, prev |-> LatestHash(RowsOf(tenant))]
          \in Hashed
    BY <2>2 DEF Hashed
  <2> QED
    BY <1>1, <2>3 DEF TypeOK, SelectLatestHash
<1>2. ASSUME NEW w \in Writers, InsertEvent(w)
      PROVE  TypeOK'
  <2>1. tx[w] \in Hashed
    BY <1>2 DEF TypeOK, InsertEvent, Idle, Inserted
  <2>2. seq' \in 1..MaxSeq
    BY <1>2 DEF TypeOK, InsertEvent
  <2>3. [at  |-> "inserted",
         row |-> [seq |-> seq', tenant |-> tx[w].tenant, prev |-> tx[w].prev]]
          \in Inserted
    BY <2>1, <2>2 DEF Hashed, Inserted, Row
  <2> QED
    BY <1>2, <2>2, <2>3 DEF TypeOK, InsertEvent
<1>3. ASSUME NEW w \in Writers, Commit(w)
      PROVE  TypeOK'
  <2>1. tx[w].row \in Row
    BY <1>3 DEF TypeOK, Commit, Idle, Hashed, Inserted
  <2> QED
    BY <1>3, <2>1 DEF TypeOK, Commit
<1>4. ASSUME NEW w \in Writers, Rollback(w)
      PROVE  TypeOK'
  BY <1>4 DEF TypeOK, Rollback
<1>5. CASE UNCHANGED vars
  BY <1>5 DEF TypeOK, vars
<1> QED
  BY <1>1, <1>2, <1>3, <1>4, <1>5 DEF Next

\* A number is drawn above all that are in use.
LEMMA SeqsStep ==
  ASSUME TypeOK, SeqsDrawnOnce, [Next]_vars
  PROVE  SeqsDrawnOnce'
<1> USE MaxSeqAssumption
<1>1. ASSUME NEW w \in Writers, NEW tenant \in Tenants, SelectLatestHash(w, tenant)
      PROVE  SeqsDrawnOnce'
  BY <1>1 DEF TypeOK, SeqsDrawnOnce, SelectLatestHash
<1>2. ASSUME NEW w \in Writers, InsertEvent(w)
      PROVE  SeqsDrawnOnce'
  <2>1. /\ seq \in Nat /\ seq' = seq + 1 /\ rows' = rows
        /\ tx'[w].at = "inserted" /\ tx'[w].row.seq = seq + 1
        /\ \A v \in Writers : v # w => tx'[v] = tx[v]
    BY <1>2 DEF TypeOK, InsertEvent
  <2>2. \A r \in rows : r.seq \in Nat /\ r.seq <= seq
    BY DEF TypeOK, Row, SeqsDrawnOnce
  <2>3. \A v \in Writers : tx[v].at = "inserted" =>
                             tx[v].row.seq \in Nat /\ tx[v].row.seq <= seq
    BY DEF TypeOK, Inserted, Hashed, Idle, Row, SeqsDrawnOnce
  <2> QED
    BY <2>1, <2>2, <2>3 DEF SeqsDrawnOnce
<1>3. ASSUME NEW w \in Writers, Commit(w)
      PROVE  SeqsDrawnOnce'
  BY <1>3 DEF TypeOK, SeqsDrawnOnce, Commit, Idle
<1>4. ASSUME NEW w \in Writers, Rollback(w)
      PROVE  SeqsDrawnOnce'
  BY <1>4 DEF TypeOK, SeqsDrawnOnce, Rollback, Idle
<1>5. CASE UNCHANGED vars
  BY <1>5 DEF SeqsDrawnOnce, vars
<1> QED
  BY <1>1, <1>2, <1>3, <1>4, <1>5 DEF Next

\* Rows are never deleted, so what was a link stays one.
LEMMA LinksStay ==
  ASSUME rows \subseteq rows', NEW prev, NEW tenant, IsLink(prev, tenant)
  PROVE  IsLink(prev, tenant)'
BY DEF IsLink, RowsOf

LEMMA TxLinksStep ==
  ASSUME TypeOK, SeqsDrawnOnce, TxLinksAreRows, [Next]_vars
  PROVE  TxLinksAreRows'
<1> USE MaxSeqAssumption
<1>0. rows \subseteq rows'
  BY RowsGrow
<1> SUFFICES ASSUME NEW w \in Writers
             PROVE  /\ tx'[w].at = "hashed" => IsLink(tx[w].prev, tx[w].tenant)'
                    /\ tx'[w].at = "inserted" =>
                         /\ IsLink(tx[w].row.prev, tx[w].row.tenant)'
                         /\ tx'[w].row.prev < tx'[w].row.seq
  BY DEF TxLinksAreRows
<1>1. CASE tx'[w] = tx[w]
  BY <1>0, <1>1, LinksStay DEF TxLinksAreRows
<1>2. CASE tx'[w] = Idle
  BY <1>2 DEF Idle
<1>3. ASSUME NEW tenant \in Tenants, SelectLatestHash(w, tenant)
      PROVE  IsLink(tx[w].prev, tx[w].tenant)' /\ tx'[w].at = "hashed"
  <2>1. RowsOf(tenant) \in SUBSET Row
    BY DEF TypeOK, RowsOf
  <2>2. IsLink(LatestHash(RowsOf(tenant)), tenant)
    BY <2>1, LatestHashIsLast DEF IsLink
  <2>3. /\ tx'[w].at = "hashed"
        /\ tx'[w].prev = LatestHash(RowsOf(tenant))
        /\ tx'[w].tenant = tenant
    BY <1>3 DEF TypeOK, SelectLatestHash
  <2> QED
    BY <2>2, <2>3, <1>0, LinksStay DEF IsLink, RowsOf
<1>4. CASE InsertEvent(w)
  <2>1. /\ tx[w].at = "hashed" /\ tx'[w].at = "inserted"
        /\ tx'[w].row.prev = tx[w].prev /\ tx'[w].row.tenant = tx[w].tenant
        /\ tx'[w].row.seq = seq + 1
    BY <1>4 DEF TypeOK, InsertEvent
  <2>2. IsLink(tx[w].prev, tx[w].tenant)
    BY <2>1 DEF TxLinksAreRows
  <2>3. tx[w].prev <= seq
    BY <2>2 DEF TypeOK, IsLink, RowsOf, SeqsDrawnOnce, Genesis
  <2>4. tx[w].prev \in Nat /\ seq \in Nat
    BY <2>1 DEF TypeOK, Hashed, Inserted, Idle
  <2> QED
    BY <2>1, <2>2, <2>3, <2>4, <1>0 DEF IsLink, RowsOf
<1>5. tx'[w] = tx[w] \/ tx'[w] = Idle \/ InsertEvent(w)
        \/ \E tenant \in Tenants : SelectLatestHash(w, tenant)
  BY DEF Next, vars, TypeOK, SelectLatestHash, InsertEvent, Commit, Rollback
<1> QED
  BY <1>1, <1>2, <1>3, <1>4, <1>5

\* The row that a COMMIT adds had a row to link to.
LEMMA LinksStep ==
  ASSUME TypeOK, TxLinksAreRows, LinksAreRows, [Next]_vars
  PROVE  LinksAreRows'
<1>1. ASSUME NEW w \in Writers, Commit(w)
      PROVE  LinksAreRows'
  <2>1. /\ IsLink(tx[w].row.prev, tx[w].row.tenant)
        /\ tx[w].row.prev < tx[w].row.seq
        /\ rows' = rows \cup {tx[w].row}
    BY <1>1 DEF TxLinksAreRows, Commit
  <2>2. ASSUME NEW r \in rows
        PROVE  r.prev = Genesis
                 \/ \E s \in RowsOf(r.tenant)' : s.seq = r.prev /\ s.seq < r.seq
    BY <2>1 DEF LinksAreRows, RowsOf
  <2>3. tx[w].row.prev = Genesis
          \/ \E s \in RowsOf(tx[w].row.tenant) :
               s.seq = tx[w].row.prev /\ s.seq < tx[w].row.seq
    BY <2>1 DEF IsLink
  <2> QED
    BY <2>1, <2>2, <2>3 DEF LinksAreRows, RowsOf
<1>2. CASE rows' = rows
  BY <1>2 DEF LinksAreRows, RowsOf
<1> QED
  BY <1>1, <1>2 DEF Next, vars, SelectLatestHash, InsertEvent, Rollback

\* A transaction that began while another of its tenant was open is no longer
\* alone; one that began alone sees no commit but its own.
LEMMA AloneStep ==
  ASSUME TypeOK, SeqsDrawnOnce, AloneIsLast, [Next]_vars
  PROVE  AloneIsLast'
<1> USE MaxSeqAssumption
<1>1. ASSUME NEW u \in Writers, NEW tenant \in Tenants, SelectLatestHash(u, tenant)
      PROVE  AloneIsLast'
  <2>1. /\ tx'[u].at = "hashed" /\ tx'[u].tenant = tenant
        /\ tx'[u].prev = LatestHash(RowsOf(tenant))
        /\ \A v \in Writers : v # u => tx'[v] = tx[v]
        /\ tx[u] = Idle /\ rows' = rows /\ overlapped \subseteq overlapped'
    BY <1>1 DEF TypeOK, SelectLatestHash
  <2>2. TenantOf(tx[u])' = tenant
    BY <2>1 DEF TenantOf
  <2>3. tenant \notin overlapped' =>
          \A v \in Writers : tx[v] # Idle => TenantOf(tx[v]) # tenant
    BY <1>1 DEF SelectLatestHash, TypeOK
  <2> SUFFICES ASSUME NEW w \in Writers, tx'[w] # Idle,
                      TenantOf(tx[w])' \notin overlapped'
               PROVE  /\ \A v \in Writers :
                           tx'[v] # Idle /\ TenantOf(tx[v])' = TenantOf(tx[w])' => v = w
                      /\ tx'[w].at = "hashed" =>
                           tx'[w].prev = LatestHash(RowsOf(TenantOf(tx[w]))')
                      /\ tx'[w].at = "inserted" =>
                           /\ tx'[w].row.prev = LatestHash(RowsOf(TenantOf(tx[w]))')
                           /\ \A r \in RowsOf(TenantOf(tx[w]))' :
                                r.seq < tx'[w].row.seq
    BY DEF AloneIsLast, LatestHash
  <2>4. RowsOf(TenantOf(tx[w]))' = RowsOf(TenantOf(tx[w])')
    BY <2>1 DEF RowsOf
  <2>5. CASE w = u
    BY <2>1, <2>2, <2>3, <2>4, <2>5 DEF TenantOf
  <2>6. CASE w # u
    <3>1. tx'[w] = tx[w] /\ TenantOf(tx[w])' = TenantOf(tx[w])
      BY <2>1, <2>6 DEF TenantOf
    <3>2. TenantOf(tx[w]) # tenant
      BY <3>1, <2>3
    <3>3. tx[w] # Idle /\ TenantOf(tx[w]) \notin overlapped
      BY <3>1, <2>1
    <3>4. ASSUME NEW v \in Writers, tx'[v] # Idle,
                 TenantOf(tx[v])' = TenantOf(tx[w])'
          PROVE  v = w
      <4>1. v # u
        BY <3>1, <3>2, <3>4, <2>2
      <4>2. tx[v] # Idle /\ TenantOf(tx[v]) = TenantOf(tx[w])
        BY <4>1, <3>1, <3>4, <2>1 DEF TenantOf
      <4> QED
        BY <4>2, <3>3 DEF AloneIsLast
    <3> QED
      BY <3>1, <3>3, <3>4, <2>4 DEF AloneIsLast
  <2> QED
    BY <2>5, <2>6
<1>2. ASSUME NEW u \in Writers, InsertEvent(u)
      PROVE  AloneIsLast'
  <2>1. /\ tx[u].at = "hashed" /\ tx'[u].at = "inserted"
        /\ tx'[u].row.prev = tx[u].prev /\ tx'[u].row.tenant = tx[u].tenant
        /\ tx'[u].row.seq = seq + 1
        /\ \A v \in Writers : v # u => tx'[v] = tx[v]
        /\ rows' = rows /\ overlapped' = overlapped
    BY <1>2 DEF TypeOK, InsertEvent
  <2>2. tx[u] # Idle /\ TenantOf(tx[u])' = TenantOf(tx[u])
    BY <2>1 DEF TenantOf, Idle
  <2>3. \A r \in rows : r.seq < seq + 1
    BY DEF SeqsDrawnOnce, TypeOK, Row
  <2> QED
    BY <2>1, <2>2, <2>3 DEF AloneIsLast, RowsOf, TenantOf
<1>3. ASSUME NEW u \in Writers, Commit(u)
      PROVE  AloneIsLast'
  <2>1. /\ tx[u].at = "inserted" /\ tx'[u] = Idle
        /\ \A v \in Writers : v # u => tx'[v] = tx[v]
        /\ rows' = rows \cup {tx[u].row} /\ overlapped' = overlapped
    BY <1>3 DEF TypeOK, Commit
  <2>2. tx[u] # Idle /\ TenantOf(tx[u]) = tx[u].row.tenant
    BY <2>1 DEF TenantOf, Idle
  <2>3. ASSUME NEW w \in Writers, tx'[w] # Idle, TenantOf(tx[w])' \notin overlapped
        PROVE  /\ w # u /\ tx'[w] = tx[w]
               /\ RowsOf(TenantOf(tx[w]))' = RowsOf(TenantOf(tx[w]))
    BY <2>1, <2>2, <2>3 DEF AloneIsLast, RowsOf, TenantOf
  <2> QED
    BY <2>1, <2>3 DEF AloneIsLast, TenantOf
<1>4. ASSUME NEW u \in Writers, Rollback(u)
      PROVE  AloneIsLast'
  BY <1>4 DEF TypeOK, Rollback, AloneIsLast, RowsOf, TenantOf
<1>5. CASE UNCHANGED vars
  BY <1>5 DEF AloneIsLast, vars, RowsOf, TenantOf
<1> QED
  BY <1>1, <1>2, <1>3, <1>4, <1>5 DEF Next

\* The row of an append that ran alone goes to the end of its tenant's chain,
\* and links to what was the end.
LEMMA LinkedStep ==
  ASSUME TypeOK, AloneIsLast, AloneIsLinked, [Next]_vars
  PROVE  AloneIsLinked'
<1>1. ASSUME NEW u \in Writers, Commit(u)
      PROVE  AloneIsLinked'
  <2> DEFINE n == tx[u].row
  <2>1. /\ tx[u].at = "inserted" /\ tx[u] # Idle /\ TenantOf(tx[u]) = n.tenant
        /\ rows' = rows \cup {n} /\ overlapped' = overlapped
        /\ n \in Row
    BY <1>1 DEF TypeOK, Commit, TenantOf, Idle, Inserted, Hashed
  <2>2. \A r \in rows : r.seq \in Nat
    BY MaxSeqAssumption DEF TypeOK, Row
  <2> SUFFICES ASSUME NEW tenant \in Tenants \ overlapped, NEW r \in RowsOf(tenant)'
               PROVE  Linked(r)'
    BY <2>1 DEF AloneIsLinked
  <2>3. CASE n.tenant # tenant
    <3>1. r \in RowsOf(tenant) /\ Before(r)' = Before(r)
      BY <2>1, <2>3 DEF RowsOf, Before
    <3> QED
      BY <3>1 DEF AloneIsLinked, Linked
  <2>4. CASE n.tenant = tenant
    <3>1. /\ n.prev = LatestHash(RowsOf(tenant))
          /\ \A s \in RowsOf(tenant) : s.seq < n.seq
      BY <2>1, <2>4 DEF AloneIsLast
    <3>2. n.seq \in Nat
      BY <2>1, MaxSeqAssumption DEF Row
    <3>3. CASE r = n
      <4>1. Before(r)' = RowsOf(tenant)
        BY <2>1, <2>2, <2>4, <3>1, <3>2, <3>3 DEF RowsOf, Before
      <4> QED
        BY <3>1, <3>3, <4>1 DEF Linked
    <3>4. CASE r # n
      <4>1. r \in RowsOf(tenant)
        BY <2>1, <3>4 DEF RowsOf
      <4>2. Before(r)' = Before(r)
        BY <2>1, <2>2, <3>1, <3>2, <4>1 DEF RowsOf, Before
      <4> QED
        BY <4>1, <4>2 DEF AloneIsLinked, Linked
    <3> QED
      BY <3>3, <3>4
  <2> QED
    BY <2>3, <2>4
<1>2. CASE rows' = rows
  <2>1. overlapped \subseteq overlapped'
    BY RowsGrow
  <2> QED
    BY <1>2, <2>1 DEF AloneIsLinked, Linked, RowsOf, Before
<1> QED
  BY <1>1, <1>2 DEF Next, vars, SelectLatestHash, InsertEvent, Rollback

-----------------------------------------------------------------------------
(* Walking the chain *)

\* A set of rows with distinct seq numbers has fewer than MaxSeq rows below any
\* of its rows: a walk with that limit reaches all of them.
RowsBelow(R, r) == {s \in R : s.tenant = r.tenant /\ s.seq < r.seq}

LEMMA WalkReachesAll ==
  ASSUME NEW R \in SUBSET Row,
         \A r, s \in R : r.seq = s.seq => r = s,
         NEW r \in R
  PROVE  Cardinality(RowsBelow(R, r)) < MaxSeq
<1> USE MaxSeqAssumption
<1> DEFINE B == RowsBelow(R, r)
           f == [s \in B |-> s.seq]
<1>1. r.seq \in 1..MaxSeq
  BY DEF Row
<1>2. f \in Injection(B, 1..(r.seq - 1))
  <2>1. f \in [B -> 1..(r.seq - 1)]
    BY <1>1 DEF Row, RowsBelow
  <2>2. \A a, b \in B : f[a] = f[b] => a = b
    BY DEF RowsBelow
  <2> QED
    BY <2>1, <2>2 DEF Injection, IsInjective
<1>3. /\ IsFiniteSet(1..(r.seq - 1))
      /\ Cardinality(1..(r.seq - 1)) = r.seq - 1
  <2>1. 1 \in Int /\ r.seq - 1 \in Int /\ r.seq \in Int
    BY <1>1
  <2>2. /\ IsFiniteSet(1..(r.seq - 1))
        /\ Cardinality(1..(r.seq - 1)) =
             IF 1 > r.seq - 1 THEN 0 ELSE (r.seq - 1) - 1 + 1
    <3> DEFINE b == r.seq - 1
    <3>1. b \in Int
      BY <2>1
    <3> HIDE DEF b
    <3>2. IsFiniteSet(1..b) /\ Cardinality(1..b) = IF 1 > b THEN 0 ELSE b - 1 + 1
      BY <2>1, <3>1, FS_Interval
    <3> QED
      BY <3>2 DEF b
  <2> QED
    BY <1>1, <2>2
<1>4. Cardinality(B) <= Cardinality(1..(r.seq - 1)) /\ IsFiniteSet(B)
  <2> HIDE DEF B, f
  <2> QED
    BY <1>2, <1>3, FS_Injection
<1>5. Cardinality(B) \in Nat
  <2> HIDE DEF B
  <2> QED
    BY <1>4, FS_CardinalityType
<1> QED
  <2> HIDE DEF B
  <2>1. Cardinality(B) < MaxSeq
    BY <1>1, <1>3, <1>4, <1>5
  <2> QED
    BY <2>1 DEF B

LEMMA VerifyChainIsLinked ==
  ASSUME TypeOK, SeqsDrawnOnce, NEW tenant
  PROVE  VerifyChain(tenant, MaxSeq) <=> \A r \in RowsOf(tenant) : Linked(r)
<1> SUFFICES ASSUME NEW r \in RowsOf(tenant)
             PROVE  Cardinality(Before(r)) < MaxSeq
  BY DEF VerifyChain
<1>1. r \in rows /\ rows \in SUBSET Row
  BY DEF RowsOf, TypeOK
<1>2. \A a, b \in rows : a.seq = b.seq => a = b
  BY DEF SeqsDrawnOnce
<1>3. Cardinality(RowsBelow(rows, r)) < MaxSeq
  BY <1>1, <1>2, WalkReachesAll
<1>4. Before(r) = RowsBelow(rows, r)
  BY DEF Before, RowsOf, RowsBelow
<1> QED
  BY <1>3, <1>4

\* A row that does not link to the row before it never will: what it links to
\* was committed before it, and a row that appears in between is neither.
LEMMA BrokenStays ==
  ASSUME IInv, TypeOK', [Next]_vars, NEW r \in rows, ~Linked(r)
  PROVE  ~Linked(r)'
<1> USE MaxSeqAssumption
<1>1. CASE Before(r)' = Before(r)
  BY <1>1 DEF Linked
<1>2. CASE Before(r)' # Before(r)
  <2> SUFFICES ASSUME r.prev = LatestHash(Before(r))'
               PROVE  r.prev = LatestHash(Before(r))
    BY DEF Linked
  <2>1. PICK u \in Writers : Commit(u)
    BY <1>2 DEF Next, vars, SelectLatestHash, InsertEvent, Rollback, Before, RowsOf
  <2> DEFINE n == tx[u].row
  <2>2. Before(r)' = Before(r) \cup {n}
    BY <1>2, <2>1 DEF Commit, Before, RowsOf
  <2>3. /\ n \in Row /\ r \in Row
        /\ Before(r) \in SUBSET Row /\ Before(r)' \in SUBSET Row
    BY <2>1, <2>2 DEF Commit, IInv, TypeOK, Inserted, Hashed, Idle, Before, RowsOf
  <2>4. \A s \in rows : s.seq # n.seq
    BY <2>1 DEF IInv, SeqsDrawnOnce, Commit
  <2> HIDE DEF n
  <2>5. \A s \in Before(r)' : s.seq <= r.prev
    BY <2>3, LatestHashIsLast DEF LatestHash
  <2>6. n.seq <= r.prev /\ n.seq # 0
    BY <2>2, <2>3, <2>5 DEF Row
  <2>7. PICK s \in RowsOf(r.tenant) : s.seq = r.prev /\ s.seq < r.seq
    BY <2>3, <2>6 DEF IInv, LinksAreRows, Genesis, Row
  <2>8. s \in Before(r)
    BY <2>7 DEF Before
  <2>9. /\ s.seq <= LatestHash(Before(r))
        /\ \E t \in Before(r) : t.seq = LatestHash(Before(r))
        /\ LatestHash(Before(r)) \in 0..MaxSeq
    BY <2>3, <2>8, LatestHashIsLast
  <2>10. LatestHash(Before(r)) <= r.prev
    BY <2>2, <2>5, <2>9
  <2> QED
    BY <2>3, <2>7, <2>9, <2>10 DEF Row
<1> QED
  BY <1>1, <1>2

-----------------------------------------------------------------------------
(* The theorems *)

LEMMA InitInv == Init => IInv
BY MaxSeqAssumption
   DEF Init, IInv, TypeOK, SeqsDrawnOnce, TxLinksAreRows, LinksAreRows, AloneIsLast,
       AloneIsLinked, Idle, RowsOf

LEMMA StepInv == IInv /\ [Next]_vars => IInv'
BY TypeStep, SeqsStep, TxLinksStep, LinksStep, AloneStep, LinkedStep DEF IInv

\* Every append that ever runs keeps rows, sequence and transactions well typed.
THEOREM TypeCorrect == Spec => []TypeOK
<1>1. IInv => TypeOK
  BY DEF IInv
<1> QED
  BY <1>1, InitInv, StepInv, PTL DEF Spec

\* No row of audit_events links to a row that is not there, or not older, or of
\* another tenant, however appends and rollbacks interleave.
THEOREM LinkedRows == Spec => []LinksAreRows
<1>1. IInv => LinksAreRows
  BY DEF IInv
<1> QED
  BY <1>1, InitInv, StepInv, PTL DEF Spec

\* VerifyChain finds the chain of a tenant intact if no two appends of the
\* tenant have overlapped.
THEOREM SequentialChains == Spec => []SequentialChainsValid
<1>1. IInv => SequentialChainsValid
  BY VerifyChainIsLinked DEF IInv, AloneIsLinked, SequentialChainsValid
<1> QED
  BY <1>1, InitInv, StepInv, PTL DEF Spec

\* Once VerifyChain reports a chain broken, it always will.
THEOREM BreaksStay == Spec => BreaksArePermanent
<1>1. IInv /\ IInv' /\ [Next]_vars =>
        [\A tenant \in Tenants :
           ~VerifyChain(tenant, MaxSeq) => ~VerifyChain(tenant, MaxSeq)']_vars
  <2> SUFFICES ASSUME IInv, IInv', [Next]_vars, NEW tenant \in Tenants,
                      ~VerifyChain(tenant, MaxSeq)
               PROVE  ~VerifyChain(tenant, MaxSeq)'
    OBVIOUS
  <2>1. PICK r \in RowsOf(tenant) : ~Linked(r)
    BY VerifyChainIsLinked DEF IInv
  <2>2. r \in RowsOf(tenant)' /\ ~Linked(r)'
    BY <2>1, RowsGrow, BrokenStays DEF IInv, RowsOf
  <2>3. Cardinality(Before(r)') < MaxSeq
    <3>1. r \in rows' /\ rows' \in SUBSET Row
      BY <2>2 DEF RowsOf, IInv, TypeOK
    <3>2. \A a, b \in rows' : a.seq = b.seq => a = b
      BY DEF IInv, SeqsDrawnOnce
    <3>3. Cardinality(RowsBelow(rows', r)) < MaxSeq
      BY <3>1, <3>2, WalkReachesAll
    <3>4. Before(r)' = RowsBelow(rows', r)
      BY DEF Before, RowsOf, RowsBelow
    <3> QED
      BY <3>3, <3>4
  <2> QED
    BY <2>2, <2>3 DEF VerifyChain
<1> QED
  BY <1>1, InitInv, StepInv, PTL DEF Spec, BreaksArePermanent

=============================================================================
