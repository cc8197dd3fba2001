------------------------------ MODULE Workflow ------------------------------
(***************************************************************************)
(* The workflow service: templates whose states and transitions are        *)
(* replaced together, and the copy of a template that Redis holds.         *)
(*                                                                         *)
(* An update bumps the version of the template's row, replaces its         *)
(* transition rows in the same transaction, deletes the cached copy and    *)
(* sets the new one. A reader that misses reads the row and then the       *)
(* transitions in two statements, and sets what it read. A template's      *)
(* tenant is part of its cache key and of every query, and is left out.    *)
(***************************************************************************)
EXTENDS Naturals, Sequences

CONSTANTS Templates,
          Updaters,    \* CreateWorkflowTemplate and UpdateWorkflowTemplate calls
          Readers,     \* GetWorkflowTemplate and EvaluateTransition calls
          Transitions, \* a from state, a to state, and the roles it asks for
          MaxVersion   \* bound: versions of a template

VARIABLES version,     \* the version of each template's row, 0 before it exists
          transitions, \* its transition rows
          cache,       \* what Redis holds for it
          update,      \* where each update stands
          read,        \* where each read stands
          committed    \* history: the transitions of each version

vars == <<version, transitions, cache, update, read, committed>>

-----------------------------------------------------------------------------
(* Templates and calls *)

Versions == 1..MaxVersion

\* A template as a call holds it. A row's states are those of its version.
Template == [version : Versions, transitions : SUBSET Transitions]
Miss == [version |-> 0]

Idle     == [at |-> "idle"]
Updating == [at : {"locked", "invalidate", "set"}, template : Templates, copy : Template]
Fetching == [at : {"missed"}, template : Templates]
Halfway  == [at : {"row"}, template : Templates, version : Versions]
Fetched  == [at : {"fetched"}, template : Templates, copy : Template]

Init ==
    /\ version = [p \in Templates |-> 0]
    /\ transitions = [p \in Templates |-> {}]
    /\ cache = [p \in Templates |-> Miss]
    /\ update = [u \in Updaters |-> Idle]
    /\ read = [r \in Readers |-> Idle]
    /\ committed = [p \in Templates |-> <<>>]

-----------------------------------------------------------------------------
(* CreateWorkflowTemplate, UpdateWorkflowTemplate *)

\* The transaction of a create, whose rows only its COMMIT shows. A taken name
\* is refused and changes nothing.
CreateTemplate(u, p, T) ==
    /\ update[u] = Idle
    /\ version[p] = 0
    /\ version' = [version EXCEPT ![p] = 1]
    /\ transitions' = [transitions EXCEPT ![p] = T]
    /\ committed' = [committed EXCEPT ![p] = <<T>>]
    /\ update' = [update EXCEPT ![u] =
           [at |-> "set", template |-> p, copy |-> [version |-> 1, transitions |-> T]]]
    /\ UNCHANGED <<cache, read>>

\* UPDATE workflow_templates SET version = version + 1 ... RETURNING. It waits
\* for the transaction that holds the row's lock.
LockTemplate(u, p, T) ==
    /\ update[u] = Idle
    /\ version[p] \in 1..(MaxVersion - 1)
    /\ \A o \in Updaters : ~(update[o].at = "locked" /\ update[o].template = p)
    /\ update' = [update EXCEPT ![u] =
           [at |-> "locked", template |-> p,
            copy |-> [version |-> version[p] + 1, transitions |-> T]]]
    /\ UNCHANGED <<version, transitions, cache, read, committed>>

\* DELETE FROM workflow_transitions, the INSERTs, COMMIT.
CommitTemplate(u) ==
    LET p == update[u].template
        c == update[u].copy
    IN  /\ update[u].at = "locked"
        /\ version' = [version EXCEPT ![p] = c.version]
        /\ transitions' = [transitions EXCEPT ![p] = c.transitions]
        /\ committed' = [committed EXCEPT ![p] = Append(@, c.transitions)]
        /\ update' = [update EXCEPT ![u].at = "invalidate"]
        /\ UNCHANGED <<cache, read>>

\* A statement fails, or the process stops before the COMMIT.
Rollback(u) ==
    /\ update[u].at = "locked"
    /\ update' = [update EXCEPT ![u] = Idle]
    /\ UNCHANGED <<version, transitions, cache, read, committed>>

\* Invalidate, which may fail.
Invalidate(u) ==
    LET p == update[u].template IN
    /\ update[u].at = "invalidate"
    /\ cache' \in {cache, [cache EXCEPT ![p] = Miss]}
    /\ update' = [update EXCEPT ![u].at = "set"]
    /\ UNCHANGED <<version, transitions, read, committed>>

\* Set of the template as the store returned it.
SetUpdated(u) ==
    /\ update[u].at = "set"
    /\ cache' = [cache EXCEPT ![update[u].template] = update[u].copy]
    /\ update' = [update EXCEPT ![u] = Idle]
    /\ UNCHANGED <<version, transitions, read, committed>>

\* Set fails, or the process stops after the COMMIT.
UpdateEnds(u) ==
    /\ update[u].at \in {"invalidate", "set"}
    /\ update' = [update EXCEPT ![u] = Idle]
    /\ UNCHANGED <<version, transitions, cache, read, committed>>

-----------------------------------------------------------------------------
(* GetWorkflowTemplate, EvaluateTransition. A template found in Redis is     *)
(* used as it is and changes nothing; an error of Redis is a miss.           *)

GetMisses(r, p) ==
    /\ read[r] = Idle
    /\ read' = [read EXCEPT ![r] = [at |-> "missed", template |-> p]]
    /\ UNCHANGED <<version, transitions, cache, update, committed>>

\* Fault: no row is taken for a row of zero values.
SelectTemplate_ZeroRow(r) ==
    LET p == read[r].template IN
    /\ read[r].at = "missed"
    /\ read' = [read EXCEPT ![r] =
           [at |-> "row", template |-> p, version |-> version[p]]]
    /\ UNCHANGED <<version, transitions, cache, update, committed>>

SelectTemplate(r) ==
    LET p == read[r].template IN
    /\ read[r].at = "missed"
    /\ read' = [read EXCEPT ![r] =
           IF version[p] = 0 THEN Idle
           ELSE [at |-> "row", template |-> p, version |-> version[p]]]
    /\ UNCHANGED <<version, transitions, cache, update, committed>>

\* Fault: the transitions are read first and the row second.
ListTransitions_RowLast(r) ==
    LET p == read[r].template IN
    /\ read[r].at = "row"
    /\ read' = [read EXCEPT ![r] =
           [at |-> "fetched", template |-> p,
            copy |-> [version |-> version[p],
                      transitions |-> committed[p][read[r].version]]]]
    /\ UNCHANGED <<version, transitions, cache, update, committed>>

ListTransitions(r) ==
    LET p == read[r].template IN
    /\ read[r].at = "row"
    /\ read' = [read EXCEPT ![r] =
           [at |-> "fetched", template |-> p,
            copy |-> [version |-> read[r].version, transitions |-> transitions[p]]]]
    /\ UNCHANGED <<version, transitions, cache, update, committed>>

SetRead(r) ==
    /\ read[r].at = "fetched"
    /\ cache' = [cache EXCEPT ![read[r].template] = read[r].copy]
    /\ read' = [read EXCEPT ![r] = Idle]
    /\ UNCHANGED <<version, transitions, update, committed>>

\* The store or Redis fails, or the process stops.
ReadEnds(r) ==
    /\ read[r] # Idle
    /\ read' = [read EXCEPT ![r] = Idle]
    /\ UNCHANGED <<version, transitions, cache, update, committed>>

\* Fault: the key is set without an expiry.
Expire_Never(p) ==
    /\ FALSE
    /\ UNCHANGED vars

Expire(p) ==
    /\ cache[p] # Miss
    /\ cache' = [cache EXCEPT ![p] = Miss]
    /\ UNCHANGED <<version, transitions, update, read, committed>>

-----------------------------------------------------------------------------
(* The specification *)

UpdateStep(u) ==
    \/ \E p \in Templates, T \in SUBSET Transitions : CreateTemplate(u, p, T)
    \/ \E p \in Templates, T \in SUBSET Transitions : LockTemplate(u, p, T)
    \/ CommitTemplate(u)
    \/ Rollback(u)
    \/ Invalidate(u)
    \/ SetUpdated(u)
    \/ UpdateEnds(u)

ReadStep(r) ==
    \/ \E p \in Templates : GetMisses(r, p)
    \/ SelectTemplate(r)
    \/ ListTransitions(r)
    \/ SetRead(r)
    \/ ReadEnds(r)

Next ==
    \/ \E u \in Updaters : UpdateStep(u)
    \/ \E r \in Readers : ReadStep(r)
    \/ \E p \in Templates : Expire(p)

\* Redis drops a key when its time is over, and a call that has begun ends.
Fairness ==
    /\ \A p \in Templates : WF_vars(Expire(p))
    /\ \A u \in Updaters : WF_vars(\/ CommitTemplate(u) \/ Rollback(u)
                                   \/ Invalidate(u) \/ SetUpdated(u) \/ UpdateEnds(u))
    /\ \A r \in Readers : WF_vars(\/ SelectTemplate(r) \/ ListTransitions(r)
                                  \/ SetRead(r) \/ ReadEnds(r))

Spec == Init /\ [][Next]_vars /\ Fairness

-----------------------------------------------------------------------------
(* Properties *)

TypeOK ==
    /\ version \in [Templates -> 0..MaxVersion]
    /\ transitions \in [Templates -> SUBSET Transitions]
    /\ cache \in [Templates -> {Miss} \cup Template]
    /\ update \in [Updaters -> {Idle} \cup Updating]
    /\ read \in [Readers -> {Idle} \cup Fetching \cup Halfway \cup Fetched]
    /\ committed \in [Templates -> Seq(SUBSET Transitions)]

\* The transitions of a version of a template, or of a later committed one.
SinceVersion(p, v) == {committed[p][w] : w \in v..version[p]}

\* The copies of a template that a reader can be given.
CopiesOf(p) ==
    ({cache[p]} \ {Miss})
    \cup {read[r].copy : r \in {r \in Readers : read[r].at = "fetched"
                                              /\ read[r].template = p}}

\* A reader's two statements may straddle an update, and Redis then holds a row
\* with the transitions of another version. It is always a later version: no
\* answer rests on transitions that the version it reports had already replaced,
\* nor on a mixture of two versions' transitions.
TearsLookForward ==
    \A p \in Templates : \A c \in CopiesOf(p) :
        c.version <= version[p] /\ c.transitions \in SinceVersion(p, c.version)

\* The copy in Redis is the template as the store has it.
Whole(p) == cache[p] = [version |-> version[p], transitions |-> transitions[p]]

\* When a template is no longer updated, the torn and the outdated copies that
\* racing calls left in Redis are gone for good.
TemplatesSettle == \A p \in Templates : <>[](cache[p] = Miss \/ Whole(p))
=============================================================================
