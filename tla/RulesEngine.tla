----------------------------- MODULE RulesEngine ----------------------------
(***************************************************************************)
(* The rules engine's store and cache: CreateRule, UpdateRule and          *)
(* DeleteRule with their archive of versions, and the list of enabled      *)
(* rules that EvaluateRules takes from Redis or from the store.            *)
(*                                                                         *)
(* An UpdateRule is a READ COMMITTED transaction of three statements, and  *)
(* its first one, a plain SELECT, takes no lock. Redis is a cache of five  *)
(* minutes that the handlers of edits delete and those of evaluations set. *)
(***************************************************************************)
EXTENDS Naturals, Sequences, SequencesExt

CONSTANTS Tenants,
          Rules,       \* ids, drawn by the store and never used again
          Contents,    \* an expression, an action and a priority
          Editors,     \* CreateRule, UpdateRule and DeleteRule calls
          Evaluations, \* EvaluateRules calls
          MaxVersion   \* bound: versions of a rule

VARIABLES rules,     \* the committed row of each rule
          archive,   \* its rows of rule_versions, in the order inserted
          cache,     \* the list Redis holds for each tenant
          edit,      \* where each edit stands
          eval,      \* where each evaluation stands
          past,      \* history: the contents each rule has had, by version
          crossed,   \* history: rules of which two updates have overlapped
          stale      \* history: tenants whose list an edit may have missed

vars == <<rules, archive, cache, edit, eval, past, crossed, stale>>

-----------------------------------------------------------------------------
(* Rows, lists and calls *)

Absent  == [at |-> "absent"]
Deleted == [at |-> "deleted"]
Row == [at : {"row"}, tenant : Tenants, version : 1..MaxVersion,
        content : Contents, enabled : BOOLEAN]

Live(r) == rules[r].at = "row"

Version == [version : 1..MaxVersion, content : Contents]
Entry   == [rule : Rules, version : 1..MaxVersion, content : Contents]

\* ListRules without the disabled ones. Priorities order the list and decide
\* nothing: the action of an evaluation is the severest of those that match.
EnabledIn(store, tenant) ==
    {[rule |-> r, version |-> store[r].version, content |-> store[r].content] :
        r \in {r \in Rules : /\ store[r].at = "row"
                             /\ store[r].tenant = tenant
                             /\ store[r].enabled}}

\* SetRules of no rules stores null, which GetRules reads as a miss.
Miss == {}

Idle == [at |-> "idle"]
Selected == [at : {"selected", "archived"}, rule : Rules, tenant : Tenants,
             seen : Version, content : Contents, enabled : BOOLEAN]
Written  == [at : {"written"}, rule : Rules, tenant : Tenants,
             seen : Version, row : Row]
Edited   == [at : {"edited"}, tenant : Tenants]
Listing  == [at : {"missed"}, tenant : Tenants]
Listed   == [at : {"listed"}, tenant : Tenants, list : SUBSET Entry,
             raced : BOOLEAN]

Updating(e, r) == edit[e].at \in {"selected", "archived", "written"} /\ edit[e].rule = r

Init ==
    /\ rules = [r \in Rules |-> Absent]
    /\ archive = [r \in Rules |-> <<>>]
    /\ cache = [t \in Tenants |-> Miss]
    /\ edit = [e \in Editors |-> Idle]
    /\ eval = [v \in Evaluations |-> Idle]
    /\ past = [r \in Rules |-> <<>>]
    /\ crossed = {}
    /\ stale = {}

\* A commit of an edit: the lists that evaluations of the tenant hold are older.
Committed(tenant, store) ==
    /\ rules' = store
    /\ eval' = [v \in Evaluations |->
                  IF eval[v].at = "listed" /\ eval[v].tenant = tenant
                  THEN [eval[v] EXCEPT !.raced = TRUE] ELSE eval[v]]

-----------------------------------------------------------------------------
(* CreateRule: one transaction inserts the rule and archives version 1. A   *)
(* taken name is refused and changes nothing.                               *)

CreateRule(e, r, tenant, content) ==
    /\ edit[e] = Idle
    /\ rules[r] = Absent
    /\ Committed(tenant, [rules EXCEPT ![r] =
           [at |-> "row", tenant |-> tenant, version |-> 1,
            content |-> content, enabled |-> TRUE]])
    /\ archive' = [archive EXCEPT ![r] = <<[version |-> 1, content |-> content]>>]
    /\ past' = [past EXCEPT ![r] = <<content>>]
    /\ edit' = [edit EXCEPT ![e] = [at |-> "edited", tenant |-> tenant]]
    /\ UNCHANGED <<cache, crossed, stale>>

-----------------------------------------------------------------------------
(* UpdateRule *)

\* SELECT version, expression, action. No lock is taken.
SelectCurrent(e, r, content, enabled) ==
    /\ edit[e] = Idle
    /\ Live(r)
    /\ edit' = [edit EXCEPT ![e] =
           [at |-> "selected", rule |-> r, tenant |-> rules[r].tenant,
            seen |-> [version |-> rules[r].version, content |-> rules[r].content],
            content |-> content, enabled |-> enabled]]
    /\ crossed' = IF \E o \in Editors : Updating(o, r)
                  THEN crossed \cup {r} ELSE crossed
    /\ UNCHANGED <<rules, archive, cache, eval, past, stale>>

\* INSERT INTO rule_versions. The foreign key locks the rule FOR KEY SHARE: the
\* insert fails when the rule is gone, and updates do not wait for the lock.
ArchiveVersion(e) ==
    /\ edit[e].at = "selected"
    /\ edit' = [edit EXCEPT ![e] = IF Live(edit[e].rule)
                                   THEN [@ EXCEPT !.at = "archived"] ELSE Idle]
    /\ UNCHANGED <<rules, archive, cache, eval, past, crossed, stale>>

\* Fault: the version is computed from the SELECT, not by the UPDATE.
WriteRow_FromSelect(e) ==
    LET r == edit[e].rule IN
    /\ edit[e].at = "archived"
    /\ \A o \in Editors : ~(edit[o].at = "written" /\ edit[o].rule = r)
    /\ rules[r].version < MaxVersion
    /\ edit' = [edit EXCEPT ![e] =
           [at |-> "written", rule |-> r, tenant |-> @.tenant, seen |-> @.seen,
            row |-> [rules[r] EXCEPT !.version = edit[e].seen.version + 1,
                                     !.content = edit[e].content,
                                     !.enabled = edit[e].enabled]]]
    /\ UNCHANGED <<rules, archive, cache, eval, past, crossed, stale>>

\* UPDATE rules SET version = version + 1. It waits for the row lock of another
\* update, and then works on the row as that update committed it.
WriteRow(e) ==
    LET r == edit[e].rule IN
    /\ edit[e].at = "archived"
    /\ \A o \in Editors : ~(edit[o].at = "written" /\ edit[o].rule = r)
    /\ rules[r].version < MaxVersion
    /\ edit' = [edit EXCEPT ![e] =
           [at |-> "written", rule |-> r, tenant |-> @.tenant, seen |-> @.seen,
            row |-> [rules[r] EXCEPT !.version = @ + 1,
                                     !.content = edit[e].content,
                                     !.enabled = edit[e].enabled]]]
    /\ UNCHANGED <<rules, archive, cache, eval, past, crossed, stale>>

\* Fault: what is archived is the new content, under the version it replaces.
CommitUpdate_ArchivesNew(e) ==
    LET r == edit[e].rule IN
    /\ edit[e].at = "written"
    /\ Committed(edit[e].tenant, [rules EXCEPT ![r] = edit[e].row])
    /\ archive' = [archive EXCEPT ![r] =
           Append(@, [edit[e].seen EXCEPT !.content = edit[e].row.content])]
    /\ past' = [past EXCEPT ![r] = Append(@, edit[e].row.content)]
    /\ edit' = [edit EXCEPT ![e] = [at |-> "edited", tenant |-> @.tenant]]
    /\ UNCHANGED <<cache, crossed, stale>>

CommitUpdate(e) ==
    LET r == edit[e].rule IN
    /\ edit[e].at = "written"
    /\ Committed(edit[e].tenant, [rules EXCEPT ![r] = edit[e].row])
    /\ archive' = [archive EXCEPT ![r] = Append(@, edit[e].seen)]
    /\ past' = [past EXCEPT ![r] = Append(@, edit[e].row.content)]
    /\ edit' = [edit EXCEPT ![e] = [at |-> "edited", tenant |-> @.tenant]]
    /\ UNCHANGED <<cache, crossed, stale>>

\* A statement fails, the store picks the transaction as the victim of a
\* deadlock, the caller goes away or the process stops: the store rolls back.
Rollback(e) ==
    /\ edit[e].at \in {"selected", "archived", "written"}
    /\ edit' = [edit EXCEPT ![e] = Idle]
    /\ UNCHANGED <<rules, archive, cache, eval, past, crossed, stale>>

-----------------------------------------------------------------------------
(* DeleteRule: one statement, which waits for the transactions that hold a  *)
(* lock on the rule, the key share of an archived version included.         *)

DeleteRule(e, r) ==
    /\ edit[e] = Idle
    /\ Live(r)
    /\ \A o \in Editors : Updating(o, r) => edit[o].at = "selected"
    /\ Committed(rules[r].tenant, [rules EXCEPT ![r] = Deleted])
    /\ archive' = [archive EXCEPT ![r] = <<>>]   \* ON DELETE CASCADE
    /\ edit' = [edit EXCEPT ![e] = [at |-> "edited", tenant |-> rules[r].tenant]]
    /\ UNCHANGED <<cache, past, crossed, stale>>

-----------------------------------------------------------------------------
(* The cache *)

\* Fault: the handler returns without the invalidation.
Invalidate_Skipped(e) ==
    /\ edit[e].at = "edited"
    /\ edit' = [edit EXCEPT ![e] = Idle]
    /\ UNCHANGED <<rules, archive, cache, eval, past, crossed, stale>>

Invalidate(e) ==
    /\ edit[e].at = "edited"
    /\ cache' = [cache EXCEPT ![edit[e].tenant] = Miss]
    /\ stale' = stale \ {edit[e].tenant}
    /\ edit' = [edit EXCEPT ![e] = Idle]
    /\ UNCHANGED <<rules, archive, eval, past, crossed>>

\* Redis fails, which is logged, or the process stops after the commit.
InvalidateFails(e) ==
    /\ edit[e].at = "edited"
    /\ edit' = [edit EXCEPT ![e] = Idle]
    /\ stale' = stale \cup {edit[e].tenant}
    /\ UNCHANGED <<rules, archive, cache, eval, past, crossed>>

Expire(tenant) ==
    /\ cache[tenant] # Miss
    /\ cache' = [cache EXCEPT ![tenant] = Miss]
    /\ stale' = stale \ {tenant}
    /\ UNCHANGED <<rules, archive, edit, eval, past, crossed>>

-----------------------------------------------------------------------------
(* EvaluateRules: loadRules. A list found in Redis is used as it is and     *)
(* changes nothing; an error of Redis is a miss.                            *)

GetRulesMisses(v, tenant) ==
    /\ eval[v] = Idle
    /\ eval' = [eval EXCEPT ![v] = [at |-> "missed", tenant |-> tenant]]
    /\ UNCHANGED <<rules, archive, cache, edit, past, crossed, stale>>

ListRules(v) ==
    /\ eval[v].at = "missed"
    /\ eval' = [eval EXCEPT ![v] = [at |-> "listed", tenant |-> @.tenant,
                                    list |-> EnabledIn(rules, @.tenant),
                                    raced |-> FALSE]]
    /\ UNCHANGED <<rules, archive, cache, edit, past, crossed, stale>>

SetRules(v) ==
    LET t == eval[v].tenant IN
    /\ eval[v].at = "listed"
    /\ cache' = [cache EXCEPT ![t] = eval[v].list]
    /\ stale' = IF eval[v].raced THEN stale \cup {t} ELSE stale \ {t}
    /\ eval' = [eval EXCEPT ![v] = Idle]
    /\ UNCHANGED <<rules, archive, edit, past, crossed>>

\* The list cannot be read, or not be stored, or the process stops.
EvaluationEnds(v) ==
    /\ eval[v] # Idle
    /\ eval' = [eval EXCEPT ![v] = Idle]
    /\ UNCHANGED <<rules, archive, cache, edit, past, crossed, stale>>

-----------------------------------------------------------------------------
(* The specification *)

EditStep(e) ==
    \/ \E r \in Rules, t \in Tenants, c \in Contents : CreateRule(e, r, t, c)
    \/ \E r \in Rules, c \in Contents, on \in BOOLEAN : SelectCurrent(e, r, c, on)
    \/ ArchiveVersion(e)
    \/ WriteRow(e)
    \/ CommitUpdate(e)
    \/ Rollback(e)
    \/ \E r \in Rules : DeleteRule(e, r)
    \/ Invalidate(e)
    \/ InvalidateFails(e)

EvaluationStep(v) ==
    \/ \E t \in Tenants : GetRulesMisses(v, t)
    \/ ListRules(v)
    \/ SetRules(v)
    \/ EvaluationEnds(v)

Next ==
    \/ \E e \in Editors : EditStep(e)
    \/ \E v \in Evaluations : EvaluationStep(v)
    \/ \E t \in Tenants : Expire(t)

\* Redis drops a key five minutes after it was set, and a call that has begun
\* ends: the handlers run to their end, the store waits for no one for ever.
Fairness ==
    /\ \A t \in Tenants : WF_vars(Expire(t))
    /\ \A v \in Evaluations : WF_vars(ListRules(v) \/ SetRules(v) \/ EvaluationEnds(v))

Spec == Init /\ [][Next]_vars /\ Fairness

-----------------------------------------------------------------------------
(* Properties *)

TypeOK ==
    /\ rules \in [Rules -> {Absent, Deleted} \cup Row]
    /\ archive \in [Rules -> Seq(Version)]
    /\ cache \in [Tenants -> SUBSET Entry]
    /\ edit \in [Editors -> {Idle} \cup Selected \cup Written \cup Edited]
    /\ eval \in [Evaluations -> {Idle} \cup Listing \cup Listed]
    /\ past \in [Rules -> Seq(Contents)]
    /\ crossed \subseteq Rules
    /\ stale \subseteq Tenants

\* However updates overlap, a live rule has one archived row for each of its
\* versions' commits, and every archived row holds the content the rule really
\* had at that version.
ArchiveIsTrue ==
    \A r \in Rules : Live(r) =>
        /\ Len(archive[r]) = rules[r].version
        /\ \A i \in 1..Len(archive[r]) :
              past[r][archive[r][i].version] = archive[r][i].content

\* "Archive current version before overwriting" holds of a rule no two updates
\* of which have overlapped: every version it has had before can be read back.
SupersededArchived ==
    \A r \in Rules \ crossed : Live(r) =>
        \A v \in 1..(rules[r].version - 1) :
            \E i \in 1..Len(archive[r]) :
                archive[r][i] = [version |-> v, content |-> past[r][v]]

\* A list in Redis is the tenant's current one, unless an edit has yet to delete
\* it, the deletion failed, or an edit came between an evaluation's read of the
\* store and its write to Redis.
StaleOnlyWhenRaced ==
    \A t \in Tenants \ stale :
        (\A e \in Editors : edit[e].at = "edited" => edit[e].tenant # t) =>
            cache[t] \in {Miss, EnabledIn(rules, t)}

\* When a tenant's rules are no longer edited, evaluations come to use the
\* current ones: the stale list of a race is not put back for ever.
RulesSettle ==
    \A t \in Tenants : <>[](cache[t] \in {Miss, EnabledIn(rules, t)})
=============================================================================
