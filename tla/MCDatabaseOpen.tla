--------------------------- MODULE MCDatabaseOpen ---------------------------
(***************************************************************************)
(* A database made by any release there has been.                         *)
(***************************************************************************)
EXTENDS DatabaseOpen

MCReleases == 1 .. Latest
=============================================================================
