---------------------------- MODULE MCAgentUpdate ----------------------------
EXTENDS AgentUpdate

(* 1.0, 1.1 and 2.0: one minor and one major step. *)
MCMajor == <<1, 1, 2>>
MCMinor == <<0, 1, 0>>

Defaults == [minor |-> TRUE, major |-> FALSE, pinned |-> Unpinned, min |-> 1, max |-> 3]

MCPolicies ==
    {Defaults,
     [Defaults EXCEPT !.major = TRUE],
     [Defaults EXCEPT !.major = TRUE, !.minor = FALSE],
     [Defaults EXCEPT !.major = TRUE, !.min = 3],
     [Defaults EXCEPT !.pinned = 2]}

AllFaults == {"crash", "disk", "feed", "slow"}
==============================================================================
