--------------------------- MODULE MCGrypeDatabase ----------------------------
(***************************************************************************)
(* Model checking of GrypeDatabase: the rescan job and another one, a run  *)
(* triggered by hand beside the scheduled ones, two database versions, a   *)
(* crash and a re-initialisation.                                          *)
(***************************************************************************)
EXTENDS GrypeDatabase

MCJobs == {"rescan-database"}

=============================================================================
