----------------------------- MODULE MCDecision -----------------------------
(***************************************************************************)
(* Model checking of Decision: one payment that two consumers and two      *)
(* analysts contend for.                                                   *)
(***************************************************************************)
EXTENDS Decision, TLC

MCSymmetry == Permutations(Keys) \cup Permutations(Consumers)
                \cup Permutations(Analysts)

=============================================================================
