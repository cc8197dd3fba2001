---------------------------- MODULE MCAuditTrail ----------------------------
(***************************************************************************)
(* Model checking of AuditTrail: topic readers and a gRPC call append      *)
(* events of a tenant, and events without one, at the same time.           *)
(***************************************************************************)
EXTENDS AuditTrail, TLC

MCSymmetry == Permutations(Readers)

=============================================================================
