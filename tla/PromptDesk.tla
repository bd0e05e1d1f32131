------------------------------ MODULE PromptDesk ------------------------------
(***************************************************************************)
(* What the pending registry and its chat listener promise together: a     *)
(* request queues, is put on the screen of its window when no other prompt *)
(* is open there, and ends once, with one result.  ChatListener is shown to *)
(* implement this specification.                                            *)
(***************************************************************************)
CONSTANTS Reqs, Windows, WindowOf, NoWindow

VARIABLE status

Phases == {"absent", "queued", "open", "closing", "answered", "failed", "withdrawn"}

TypeOK == status \in [Reqs -> Phases]

Init == status = [r \in Reqs |-> "absent"]

Move(r, from, to) ==
    /\ status[r] \in from
    /\ status' = [status EXCEPT ![r] = to]

Queue(r) == Move(r, {"absent"}, "queued")

\* The screen must be free of every prompt that still waits for its user.
Open(r) ==
    /\ \A s \in Reqs : WindowOf[s] = WindowOf[r] /\ status[s] = "open"
                       => WindowOf[r] = NoWindow
    /\ Move(r, {"queued"}, "open")

\* The user has answered, the listener has failed, or the asker is giving up.
Close(r) == Move(r, {"queued", "open"}, "closing")

Answer(r) == Move(r, {"closing"}, "answered")
Fail(r) == Move(r, {"open", "closing"}, "failed")
Withdraw(r) == Move(r, {"queued", "open", "closing"}, "withdrawn")

\* A resume withdraws the requests of a task, a reload orphans open prompts.
Drop(S) ==
    /\ \A r \in S : status[r] \in {"queued", "open", "closing"}
    /\ \E end \in [S -> {"closing", "withdrawn"}] :
          status' = [r \in Reqs |-> IF r \in S THEN end[r] ELSE status[r]]

Next ==
    /\ status' # status
    /\ \/ \E r \in Reqs : Queue(r) \/ Open(r) \/ Close(r) \/ Answer(r) \/ Fail(r) \/ Withdraw(r)
       \/ \E S \in SUBSET Reqs : Drop(S)

Spec == Init /\ [][Next]_status
=============================================================================
