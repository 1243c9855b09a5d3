------------------------------ MODULE SafeUpdate ------------------------------
(***************************************************************************)
(* What "automatic health checks with rollback on failure"                 *)
(* (docs/AUTO_UPDATE.md:40) promises of the agent's binary: only a version *)
(* that passed its health check is replaced by a new one, and one that did *)
(* not is only ever replaced by one that did.                              *)
(***************************************************************************)
CONSTANTS Versions,     \* the releases of the agent
          First         \* the one installed by hand

VARIABLES installed,    \* the version on disk
          trusted       \* the versions that passed a health check

vars == <<installed, trusted>>

Init == installed = First /\ trusted = {First}

Install == /\ installed \in trusted
           /\ installed' \in Versions
           /\ UNCHANGED trusted

Trust == /\ trusted' = trusted \union {installed}
         /\ UNCHANGED installed

Rollback == /\ installed \notin trusted
            /\ installed' \in trusted
            /\ UNCHANGED trusted

Next == Install \/ Trust \/ Rollback

Spec == Init /\ [][Next]_vars
===============================================================================
