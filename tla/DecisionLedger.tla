--------------------------- MODULE DecisionLedger ---------------------------
(***************************************************************************)
(* What the decision service promises about the outcome of a payment: the  *)
(* outcomes a decision has had form a ledger that only grows at its end.   *)
(* The first entry is the verdict of the risk evaluation, each later one   *)
(* an analyst's override, the last one the outcome in force.  Whatever is  *)
(* announced about a decision is an entry of its ledger, and an entry is   *)
(* announced as overridden exactly when it is not the first.               *)
(***************************************************************************)
EXTENDS Naturals, Sequences

CONSTANTS Keys,     \* the (payment_event_id, tenant_id) pairs
          Outcome   \* the outcomes a decision can have

VARIABLES ledger,     \* ledger[k]: the outcomes decision k has had, oldest first
          announced   \* the decision.made events that reached the topic

vars == <<ledger, announced>>

Announcement == [key : Keys, outcome : Outcome, overridden : BOOLEAN]

TypeOK ==
    /\ ledger \in [Keys -> Seq(Outcome)]
    /\ announced \subseteq Announcement

Init ==
    /\ ledger = [k \in Keys |-> <<>>]
    /\ announced = {}

\* The first risk evaluation of a payment decides it.
Record(k, o) ==
    /\ ledger[k] = <<>>
    /\ ledger' = [ledger EXCEPT ![k] = <<o>>]
    /\ UNCHANGED announced

\* An analyst replaces the outcome of a decision that exists.
Override(k, o) ==
    /\ ledger[k] # <<>>
    /\ ledger' = [ledger EXCEPT ![k] = Append(@, o)]
    /\ UNCHANGED announced

\* An event about the i-th outcome of k reaches the topic.
Announce(k, i) ==
    /\ i \in 1..Len(ledger[k])
    /\ announced' = announced \cup
           {[key |-> k, outcome |-> ledger[k][i], overridden |-> i > 1]}
    /\ UNCHANGED ledger

Next ==
    \E k \in Keys :
        \/ \E o \in Outcome : Record(k, o) \/ Override(k, o)
        \/ \E i \in 1..Len(ledger[k]) : Announce(k, i)

Spec == Init /\ [][Next]_vars

=============================================================================
