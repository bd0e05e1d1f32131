---------------------------- MODULE MCTurnLoop ----------------------------
(* Instances of TurnLoop: three models of three providers and one tagged pass. *)
EXTENDS TurnLoop

CONSTANTS m1, m2, m3, m4

MCModels == {m1, m2, m3, m4}
MCOrder == <<m1, m2, m3, m4>>
MCProvider == (m1 :> "p") @@ (m2 :> "q") @@ (m3 :> "r") @@ (m4 :> "p")

MCPlans == {<<Todo, Read>>, <<Edit, Read>>}
MCTalking == {<<Todo, Read>>}
===========================================================================
