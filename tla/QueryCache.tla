----------------------------- MODULE QueryCache -----------------------------
(***************************************************************************)
(* The GraphQL gateway's cache of query results. The resolvers of          *)
(* decision, rules and tenantConfig look a result up in Redis, ask the     *)
(* service when it is not there, and set what the service answered; no     *)
(* mutation removes a key, so a result lives for its thirty seconds.       *)
(*                                                                         *)
(* What the service would answer now is a parameter: an expression over    *)
(* the variables of the service's module.                                  *)
(***************************************************************************)
CONSTANTS Keys,    \* a tenant, a query and its arguments
          Queries  \* resolvers at work

VARIABLES answers, \* the service's: what it may answer to each key at this moment
          view,    \* what Redis holds for each key: no result, or one
          query    \* where each resolver stands

Idle == [at |-> "idle"]
NoResult == {}

Init ==
    /\ view = [k \in Keys |-> NoResult]
    /\ query = [q \in Queries |-> Idle]

\* A result found in Redis is returned and changes nothing; an error of Redis
\* is a miss, and one of the service ends the query.
AskService(q, k) ==
    /\ query[q] = Idle
    /\ \E a \in answers[k] : query' = [query EXCEPT ![q] = [at |-> "asked", key |-> k, answer |-> a]]
    /\ UNCHANGED view

\* Set, whose error is dropped.
SetResult(q) ==
    /\ query[q] # Idle
    /\ view' \in {view, [view EXCEPT ![query[q].key] = {query[q].answer}]}
    /\ query' = [query EXCEPT ![q] = Idle]

\* Fault: the result is kept without a time to live.
ExpireResult_Never(k) ==
    /\ FALSE
    /\ UNCHANGED <<view, query>>

ExpireResult(k) ==
    /\ view[k] # NoResult
    /\ view' = [view EXCEPT ![k] = NoResult]
    /\ UNCHANGED query

Next ==
    \/ \E q \in Queries, k \in Keys : AskService(q, k)
    \/ \E q \in Queries : SetResult(q)
    \/ \E k \in Keys : ExpireResult(k)

Fairness ==
    /\ \A q \in Queries : WF_<<view, query>>(SetResult(q))
    /\ \A k \in Keys : WF_<<view, query>>(ExpireResult(k))
=============================================================================
