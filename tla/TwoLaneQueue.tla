---------------------------- MODULE TwoLaneQueue ----------------------------
(***************************************************************************)
(* What callers of the scan queue may rely on, without locks, waiting or   *)
(* cancellation: two FIFO lanes, one consumer that prefers the image lane, *)
(* at most one queued host job per node, eviction only of the oldest job   *)
(* and only to make room for a new one, and nothing accepted after the     *)
(* consumer has gone.  ScanQueue implements it (property TwoLanes of       *)
(* MCScanQueue).                                                           *)
(***************************************************************************)
EXTENDS Naturals, Sequences

CONSTANTS Images, Nodes

VARIABLES maxDepth,  \* fixed when the queue is created; 0 = unbounded
          evicts,    \* so is whether a full lane makes room by evicting
          imageLane, hostLane,
          running,   \* <<>>, or the job taken, as <<kind, name>>
          open       \* the consumer is still there

laneVars == <<maxDepth, evicts, imageLane, hostLane, running, open>>

Range(s) == {s[k] : k \in DOMAIN s}
Full(n) == maxDepth > 0 /\ n >= maxDepth
Total == Len(imageLane) + Len(hostLane)

Init ==
    /\ maxDepth \in Nat /\ evicts \in BOOLEAN
    /\ imageLane = <<>> /\ hostLane = <<>> /\ running = <<>> /\ open = TRUE

Accept ==
    /\ open
    /\ \/ /\ ~Full(Len(imageLane))
          /\ \E i \in Images : imageLane' = Append(imageLane, i)
          /\ UNCHANGED hostLane
       \/ /\ ~Full(Total)
          /\ \E n \in Nodes \ Range(hostLane) : hostLane' = Append(hostLane, n)
          /\ UNCHANGED imageLane
    /\ UNCHANGED <<running, open>>

\* A host job evicts an image job only when no host job is queued.
AcceptEvicting ==
    /\ open /\ evicts
    /\ \/ /\ Full(Len(imageLane))
          /\ \E i \in Images : imageLane' = Append(Tail(imageLane), i)
          /\ UNCHANGED hostLane
       \/ /\ Full(Total)
          /\ \E n \in Nodes \ Range(hostLane) :
               IF hostLane # <<>>
                 THEN hostLane' = Append(Tail(hostLane), n) /\ UNCHANGED imageLane
                 ELSE hostLane' = <<n>> /\ imageLane' = Tail(imageLane)
    /\ UNCHANGED <<running, open>>

Start ==
    /\ open /\ running = <<>>
    /\ \/ /\ imageLane # <<>>
          /\ running' = <<"image", Head(imageLane)>> /\ imageLane' = Tail(imageLane)
          /\ UNCHANGED hostLane
       \/ /\ imageLane = <<>> /\ hostLane # <<>>
          /\ running' = <<"host", Head(hostLane)>> /\ hostLane' = Tail(hostLane)
          /\ UNCHANGED imageLane
    /\ UNCHANGED open

Finish == running # <<>> /\ running' = <<>> /\ UNCHANGED <<imageLane, hostLane, open>>

\* The consumer goes only between two jobs.
Close == open /\ running = <<>> /\ open' = FALSE /\ UNCHANGED <<imageLane, hostLane, running>>

Next ==
    /\ Accept \/ AcceptEvicting \/ Start \/ Finish \/ Close
    /\ UNCHANGED <<maxDepth, evicts>>

Spec == Init /\ [][Next]_laneVars
=============================================================================
