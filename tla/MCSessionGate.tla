----------------------------- MODULE MCSessionGate -----------------------------
(* Instances of SessionGate for TLC. *)
EXTENDS SessionGate, TLC

CONSTANTS r1, r2, r3,    \* r1 and r2 name the session s1, r3 looks for one
          s1, s2,        \* temp sessions; s2 has no directory yet
          m1, m2         \* messages

MCSessionOf == [r \in Runs \ Subagents |-> s1]
MCSentTo == [t \in Texts |-> s1]
AlikeRuns == Permutations({r1, r2})
=============================================================================
