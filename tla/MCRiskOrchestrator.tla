------------------------- MODULE MCRiskOrchestrator -------------------------
(***************************************************************************)
(* Model checking of RiskOrchestrator: three workers, consumers or gRPC    *)
(* calls as they like, contend for the in-flight key of one payment event. *)
(* Symmetry is not used: the run checks a liveness property.               *)
(***************************************************************************)
EXTENDS RiskOrchestrator

=============================================================================
