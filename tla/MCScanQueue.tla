---------------------------- MODULE MCScanQueue ----------------------------
(* The configurations of ScanQueue that TLC checks.                        *)
EXTENDS ScanQueue

\* Every kind of queue the code can create, at the smallest depth that fills:
\* the production one (unbounded, drop) and the three bounded ones.
MCConfigs ==
    {[maxDepth |-> 0, fullBehavior |-> "drop"]} \cup
    [maxDepth : {1}, fullBehavior : {"drop", "dropOldest", "block"}]

ProductionConfig == {[maxDepth |-> 0, fullBehavior |-> "drop"]}
BlockConfig == {[maxDepth |-> 1, fullBehavior |-> "block"]}
=============================================================================
