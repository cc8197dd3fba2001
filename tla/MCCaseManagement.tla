-------------------------- MODULE MCCaseManagement --------------------------
(***************************************************************************)
(* Model checking of CaseManagement: the case of one decision, which a     *)
(* consumer and two gRPC calls create, repeat and update at the same time. *)
(***************************************************************************)
EXTENDS CaseManagement, FiniteSets, TLC

\* Bounds: one decision.made in transit; nobody here reads the events about
\* cases, so nothing is explored after one reached its topic.
Bounded ==
    /\ Cardinality(decisionTopic) <= 1
    /\ caseTopic = {}

MCSymmetry == Permutations(Agents)

=============================================================================
