----------------------------- MODULE MCIngestion -----------------------------
(***************************************************************************)
(* Model checking of Ingestion: two concurrent calls, retries with the     *)
(* same or another body, for the payments of one tenant.                   *)
(***************************************************************************)
EXTENDS Ingestion, TLC

\* Callers, keys and bodies are interchangeable.
MCSymmetry == Permutations(Callers) \cup Permutations(IdempotencyKeys)
                \cup Permutations(Amounts)

=============================================================================
