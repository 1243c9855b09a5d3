--------------------------- MODULE MCClusterUpdate ---------------------------
EXTENDS ClusterUpdate

(* 1.0, 1.0.1, 1.1 and 2.0: a patch, a minor and a major step. *)
MCMajor == <<1, 1, 1, 2>>
MCMinor == <<0, 0, 1, 0>>

Defaults == [minor |-> TRUE, major |-> FALSE, pinned |-> Unpinned, min |-> 1, max |-> 4]

MCPolicies ==
    {Defaults,
     [Defaults EXCEPT !.major = TRUE, !.min = 3],
     [Defaults EXCEPT !.major = TRUE, !.minor = FALSE],
     [Defaults EXCEPT !.max = 2],
     [Defaults EXCEPT !.pinned = 2]}
==============================================================================
