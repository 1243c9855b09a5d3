------------------------------ MODULE MCMetrics -------------------------------
(***************************************************************************)
(* Model checking of Metrics.                                              *)
(***************************************************************************)
EXTENDS Metrics

=============================================================================
