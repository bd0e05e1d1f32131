------------------------------ MODULE MCTuiWindow ------------------------------
(* Instances of TuiWindow for TLC: a run of the window and one the daemon resumed. *)
EXTENDS TuiWindow

CONSTANTS r1, b1,  \* runs
          p1, p2   \* prompts

MCOf == p1 :> r1 @@ p2 :> b1
MCOfResumed == p2 :> b1
MCQuestions == p1 :> 1 @@ p2 :> 2
MCTwice == p2 :> 2
================================================================================
