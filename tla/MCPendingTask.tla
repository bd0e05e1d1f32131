---------------------------- MODULE MCPendingTask ----------------------------
(* Instances of PendingTask for TLC. *)
EXTENDS PendingTask, TLC

CONSTANTS r1, r2, r3, r4,   \* runs, r1 created the task
          a, b,             \* legs
          u1                \* an update

AlikeRuns == Permutations(Runs \ {First})
AlikeLegs == Permutations(Legs)
Alike == AlikeRuns \cup AlikeLegs
=============================================================================
