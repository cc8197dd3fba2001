---------------------------- MODULE Explanation ----------------------------
(***************************************************************************)
(* The explanation service. GetExplanation serves the row it has for a     *)
(* payment and a tenant, for ever; without one it asks the decision        *)
(* service for the decision, the rules engine for the names of the rules,  *)
(* and stores what it made of them. GetNarrativeExplanation is the same    *)
(* call with a part of the answer.                                         *)
(*                                                                         *)
(* Calls interleave at each of these steps. What the decision service      *)
(* answers is taken from the ledger it implements (DecisionLedger): the    *)
(* outcome in force, overridden when it is not the first.                  *)
(***************************************************************************)
EXTENDS Naturals, Sequences, SequencesExt

CONSTANTS Keys,    \* [payment, tenant]: what an explanation is asked for
          Outcome, \* the outcomes a decision can have
          Callers  \* GetExplanation calls that may run at once

VARIABLES ledger,       \* the decision service: the outcomes each decision has had
          explanations, \* the table explanations: a row or Absent for each key
          call,         \* what each call is doing
          raced         \* history: keys overridden while a call generated their row

vars == <<explanations, call, raced>>

-----------------------------------------------------------------------------
(* Rows and control states *)

\* The columns an explanation is made of: those of the first INSERT, which keep
\* their value, and those each Upsert replaces.
Kept == [outcome : Outcome]
Replaced == [outcome : Outcome, overridden : BOOLEAN, named : BOOLEAN]

Row == [kept : Kept, replaced : Replaced]
Absent == [kept |-> [outcome |-> "none"]]

Idle == [at |-> "idle"]
CallStates ==
    {Idle}
    \cup [at : {"miss"}, key : Keys]
    \cup [at : {"decision"}, key : Keys, outcome : Outcome, overridden : BOOLEAN]
    \cup [at : {"generated"}, key : Keys, row : Row]

Generating(k) == \E c \in Callers : call[c] # Idle /\ call[c].key = k

Init ==
    /\ explanations = [k \in Keys |-> Absent]
    /\ call = [c \in Callers |-> Idle]
    /\ raced = {}

-----------------------------------------------------------------------------
(* GetExplanation *)

\* Fault: a row that is there is generated anew as well.
GetExplanation_Refreshes(c, k) ==
    /\ call[c] = Idle
    /\ call' = [call EXCEPT ![c] = [at |-> "miss", key |-> k]]
    /\ UNCHANGED <<explanations, raced>>

\* GetByPaymentEvent: a row is served as it is, ErrNotFound starts generate.
GetExplanation(c, k) ==
    /\ call[c] = Idle
    /\ \/ /\ explanations[k] # Absent
          /\ UNCHANGED call
       \/ /\ explanations[k] = Absent
          /\ call' = [call EXCEPT ![c] = [at |-> "miss", key |-> k]]
    /\ UNCHANGED <<explanations, raced>>

\* Fault: the error of GetDecision is dropped, and nothing explained.
FetchDecision_ErrorDropped(c) ==
    /\ call[c].at = "miss"
    /\ LET k == call[c].key IN
        call' = [call EXCEPT ![c] =
            [at         |-> "decision",
             key        |-> k,
             outcome    |-> IF ledger[k] = <<>> THEN "none" ELSE Last(ledger[k]),
             overridden |-> Len(ledger[k]) > 1]]
    /\ UNCHANGED <<explanations, raced>>

\* The decision service's GetDecision; NotFound ends the call.
FetchDecision(c) ==
    /\ call[c].at = "miss"
    /\ LET k == call[c].key IN
        call' = [call EXCEPT ![c] =
            IF ledger[k] = <<>> THEN Idle
            ELSE [at         |-> "decision",
                  key        |-> k,
                  outcome    |-> Last(ledger[k]),
                  overridden |-> Len(ledger[k]) > 1]]
    /\ UNCHANGED <<explanations, raced>>

\* ListRules, without which the rules go by their codes, then the explanation.
GenerateRow(c) ==
    /\ call[c].at = "decision"
    /\ \E named \in BOOLEAN :
        call' = [call EXCEPT ![c] =
            [at  |-> "generated",
             key |-> call[c].key,
             row |-> [kept     |-> [outcome |-> call[c].outcome],
                      replaced |-> [outcome    |-> call[c].outcome,
                                    overridden |-> call[c].overridden,
                                    named      |-> named]]]]
    /\ UNCHANGED <<explanations, raced>>

\* UNIQUE (payment_event_id): a payment is explained for one tenant only.
PaymentTaken(k) ==
    \E other \in Keys \ {k} : other.payment = k.payment /\ explanations[other] # Absent

\* INSERT ... ON CONFLICT (decision_id) DO UPDATE.
Upsert(c) ==
    /\ call[c].at = "generated"
    /\ LET k == call[c].key
           row == call[c].row IN
        /\ ~PaymentTaken(k)
        /\ explanations' = [explanations EXCEPT ![k] =
                IF @ = Absent THEN row ELSE [@ EXCEPT !.replaced = row.replaced]]
    /\ call' = [call EXCEPT ![c] = Idle]
    /\ UNCHANGED raced

\* An error on the way, or a crash; that of Upsert is only logged, and the caller
\* has its answer.
CallEnds(c) ==
    /\ call[c] # Idle
    /\ call' = [call EXCEPT ![c] = Idle]
    /\ UNCHANGED <<explanations, raced>>

-----------------------------------------------------------------------------
(* The decision service overrides decision k *)

Overridden(k) ==
    /\ raced' = IF Generating(k) THEN raced \cup {k} ELSE raced
    /\ UNCHANGED <<explanations, call>>

Next ==
    \E c \in Callers :
        \/ \E k \in Keys : GetExplanation(c, k)
        \/ FetchDecision(c)
        \/ GenerateRow(c)
        \/ Upsert(c)
        \/ CallEnds(c)

-----------------------------------------------------------------------------
(* Properties *)

TypeOK ==
    /\ explanations \in [Keys -> Row \cup {Absent}]
    /\ call \in [Callers -> CallStates]
    /\ raced \subseteq Keys

\* Every part of a stored explanation reports an outcome its decision has had,
\* and says it was overridden exactly when that one was not the first; and the
\* outcome column and the narrative tell of the same one, unless the decision was
\* overridden while the row was being generated. (Upsert replaces the narrative
\* of a row and keeps its outcome.)
TornOnlyWhenRaced ==
    \A k \in {key \in Keys : explanations[key] # Absent} :
        LET row == explanations[k] IN
        \E kept, told \in DOMAIN ledger[k] :
            /\ row.kept.outcome = ledger[k][kept]
            /\ row.replaced.outcome = ledger[k][told]
            /\ row.replaced.overridden <=> told > 1
            /\ kept = told \/ k \in raced
=============================================================================
