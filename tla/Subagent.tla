------------------------------ MODULE Subagent -------------------------------
(***************************************************************************)
(* Subagent legs: a tool call runs a task in a session of its own, or in a *)
(* named one, collects the text that run emits, and hands it back as the   *)
(* leg's report.  A run that has to ask the user ends with its questions   *)
(* on file; the leg then listens to the session until the run that the     *)
(* answers start is over.  Events reach listeners through the session's    *)
(* list of subscribers, each with a buffer of its own.                     *)
(*                                                                         *)
(* A text is the run's task and a number.  Left out: the events that carry *)
(* no text of the report, the relay to the parent's window, token usage,   *)
(* the choice of model, reasoning and excluded tools, a leg refused before *)
(* it starts, and two answers to the same questions (see PendingTask).     *)
(***************************************************************************)
EXTENDS Integers, FiniteSets, SequencesExt

CONSTANTS
    Legs,       \* subagent legs
    Sessions,   \* sessions they run in
    SessionOf,  \* per leg: its session
    ParentOf,   \* per leg: << >>, or the leg whose run called for it
    Background, \* the legs that run in the background: no slot, no questions
    Viewers,    \* web pages that show a session's events
    NameOf,     \* per leg: the name asked for its report
    Slots,      \* MAX_CONCURRENT_SUBAGENTS
    Buffer,     \* events a leg's subscription holds
    MaxTexts    \* bound: per leg, texts of its task

VARIABLES
    leg,     \* per leg: where Exec is, and the texts it has collected
    run,     \* per leg: its task's run: none, on, resumed
    onFile,  \* per leg: its task's pending file: none, open, asks
    subs,    \* per session: its subscribers, in the order they came
    inbox,   \* per leg: the events its subscription holds
    saved,   \* per report path: the leg whose report it holds
    written, \* ghost: the texts its task's runs have emitted
    blurred  \* ghost: legs that missed an event of their own task, heard it
             \* twice or one of another, or wrote something before they asked

legsVars == << leg, run, onFile, subs, inbox, saved, written, blurred >>

Idle == [pc |-> "off", got |-> << >>, path |-> << >>]
Foreground == Legs \ Background
(* Names, and names with something unique added. *)
Paths == {<< NameOf[l] >> : l \in Legs} \cup {<< NameOf[l], l >> : l \in Legs}

LegsInit ==
    /\ leg = [l \in Legs |-> Idle]
    /\ run = [l \in Legs |-> "none"]
    /\ onFile = [l \in Legs |-> "none"]
    /\ subs = [s \in Sessions |-> << >>]
    /\ inbox = [l \in Legs |-> << >>]
    /\ saved = [p \in Paths |-> << >>]
    /\ written = [l \in Legs |-> << >>]
    /\ blurred = {}

Goto(l, pc) == leg' = [leg EXCEPT ![l].pc = pc]

-----------------------------------------------------------------------------
(* The session's events. *)

Event(l, kind) == [of |-> l, kind |-> kind, n |-> Len(written[l]) + 1]

(* An event sent n times to a subscriber: what its buffer has no room for is *)
(* dropped.                                                                *)
Fits(box, n) == IF Len(box) + n <= Buffer THEN n ELSE Buffer - Len(box)
Send(box, e, n) == box \o [j \in 1 .. Fits(box, n) |-> e]

(* The legs that wait for their own task's answer, and should hear it. *)
Awaits(l) == leg[l].pc \in {"collected", "subscribe", "wait"}

(* One event goes to the given subscribers of the session, one by one.     *)
(* The leg should hear its own run's once, and no other's: its buffer may  *)
(* be full, it may not be in the list yet, or be passed over.              *)
Deliver(list, e) ==
    LET times(l) == Cardinality({i \in DOMAIN list : list[i] = l})
        got == [l \in Legs |-> Send(inbox[l], e, times(l))]
    IN /\ inbox' = got
       /\ blurred' = blurred \cup
            {l \in Legs : Awaits(l) /\ Len(got[l]) # Len(inbox[l]) + IF l = e.of THEN 1 ELSE 0}

Sub(x, s) == subs' = [subs EXCEPT ![s] = Append(@, x)]

Place(list, x) == CHOOSE j \in 1 .. Len(list) : list[j] = x

(* A subscriber that closes is taken off the list. *)
Unsub(list, x) ==
    IF x \notin Range(list) THEN list
    ELSE [j \in 1 .. Len(list) - 1 |-> IF j < Place(list, x) THEN list[j] ELSE list[j + 1]]

(* The places after x move up in the very list a Pub is reading: what it   *)
(* has yet to read past place i it reads as moved, the last one as it was. *)
Shifted(list, x, i) ==
    [j \in 1 .. Len(list) |->
        IF j > i /\ j >= Place(list, x) /\ j < Len(list) THEN list[j + 1] ELSE list[j]]

Pub(e) ==
    \/ /\ Deliver(subs[SessionOf[e.of]], e)
       /\ UNCHANGED subs
    \/ \* ... while a viewer of the session closes its page
       LET s == SessionOf[e.of] IN
       \E x \in Viewers \cap Range(subs[s]), i \in 0 .. Len(subs[s]) :
          /\ Deliver(Shifted(subs[s], x, i), e)
          /\ subs' = [subs EXCEPT ![s] = Unsub(@, x)]

(* A web page shows a session's events, and is closed. *)
View(v, s) ==
    /\ \A r \in Sessions : v \notin Range(subs[r])
    /\ Sub(v, s)
    /\ UNCHANGED << leg, run, onFile, inbox, saved, written, blurred >>

CloseView(v, s) ==
    /\ v \in Range(subs[s])
    /\ subs' = [subs EXCEPT ![s] = Unsub(@, v)]
    /\ UNCHANGED << leg, run, onFile, inbox, saved, written, blurred >>

-----------------------------------------------------------------------------
(* The leg. *)

Holding == {l \in Foreground : leg[l].pc \notin {"off", "slot", "report", "failed"}}

InvokeSubagent(l) ==
    /\ leg[l].pc = "off"
    /\ ParentOf[l] # << >> => run[ParentOf[l][1]] = "on"
    /\ Goto(l, "slot")
    /\ UNCHANGED << run, onFile, subs, inbox, saved, written, blurred >>

(* A slot is free, or none is needed; the run starts with a file of its    *)
(* own.                                                                    *)
Exec(l) ==
    /\ leg[l].pc = "slot"
    /\ l \in Background \/ Cardinality(Holding) < Slots
    /\ Goto(l, "run")
    /\ run' = [run EXCEPT ![l] = "on"]
    /\ onFile' = [onFile EXCEPT ![l] = "open"]
    /\ UNCHANGED << subs, inbox, saved, written, blurred >>

(* The task's run emits a line: the leg collects it and publishes it to    *)
(* its session.                                                            *)
CollectText(l) ==
    /\ run[l] = "on"
    /\ Len(written[l]) < MaxTexts[l]
    /\ Pub(Event(l, "text"))
    /\ written' = [written EXCEPT ![l] = Append(@, << l, Len(@) + 1 >>)]
    /\ leg' = [leg EXCEPT ![l].got = Append(@, << l, Len(written[l]) + 1 >>)]
    /\ UNCHANGED << run, onFile, saved >>

(* A leg that called for others waits for those in the foreground. *)
Children(l) == {c \in Foreground : ParentOf[c] = << l >>}
Free(l) == \A c \in Children(l) : leg[c].pc \in {"off", "report", "failed"}

(* The run is over and done, which it is not without a text... *)
RunDone(l) ==
    /\ run[l] = "on"
    /\ Free(l)
    /\ written[l] # << >>
    /\ Pub(Event(l, "done"))
    /\ run' = [run EXCEPT ![l] = "none"]
    /\ Goto(l, "collected")
    /\ UNCHANGED << onFile, saved, written >>

(* ... or it has asked the user, and its questions are on file... *)
RunAsks(l) ==
    /\ run[l] = "on"
    /\ l \notin Background
    /\ run' = [run EXCEPT ![l] = "none"]
    /\ onFile' = [onFile EXCEPT ![l] = "asks"]
    /\ Goto(l, "collected")
    /\ Free(l)
    /\ blurred' = IF leg[l].got = << >> THEN blurred ELSE blurred \cup {l}
    /\ UNCHANGED << subs, inbox, saved, written >>

(* ... or it failed, or its time is up: what it wrote is discarded, and    *)
(* the file is left for the task to be resumed from.  Its own legs end     *)
(* with it.                                                                *)
RunFails(l) ==
    /\ run[l] = "on"
    /\ run' = [run EXCEPT ![l] = "none"]
    /\ Goto(l, "failed")
    /\ UNCHANGED << onFile, subs, inbox, saved, written, blurred >>

(* A leg whose call is over before it got a slot. *)
SlotsFull(l) ==
    /\ leg[l].pc = "slot"
    /\ l \in Foreground
    /\ ParentOf[l] # << >> /\ run[ParentOf[l][1]] # "on"
    /\ Goto(l, "failed")
    /\ UNCHANGED << run, onFile, subs, inbox, saved, written, blurred >>

(* With a text the leg has its report, questions or not; with none, and    *)
(* questions on file, it is going to listen for what they lead to.         *)
Collected(l) ==
    /\ leg[l].pc = "collected"
    /\ IF leg[l].got # << >> THEN Goto(l, "result")
       ELSE IF onFile[l] = "asks" THEN Goto(l, "subscribe")
       ELSE Goto(l, "failed")
    /\ UNCHANGED << run, onFile, subs, inbox, saved, written, blurred >>

WaitResume(l) ==
    /\ leg[l].pc = "subscribe"
    /\ Goto(l, "wait")
    /\ Sub(l, SessionOf[l])
    /\ UNCHANGED << run, onFile, inbox, saved, written, blurred >>

StopWaiting(l) ==
    /\ subs' = [subs EXCEPT ![SessionOf[l]] = Unsub(@, l)]
    /\ inbox' = [inbox EXCEPT ![l] = << >>]

(* It takes the events one by one: texts are collected, the first run that *)
(* is done, canceled or failed is taken for the task's own.                *)
Hear(l) ==
    /\ leg[l].pc = "wait"
    /\ inbox[l] # << >>
    /\ LET e == inbox[l][1] IN
       IF e.kind = "text"
       THEN /\ leg' = [leg EXCEPT ![l].got = Append(@, << e.of, e.n >>)]
            /\ inbox' = [inbox EXCEPT ![l] = Tail(@)]
            /\ UNCHANGED subs
       ELSE /\ Goto(l, IF leg[l].got = << >> THEN "failed" ELSE "result")
            /\ StopWaiting(l)
    /\ UNCHANGED << run, onFile, saved, written, blurred >>

(* Its time is up: what it has heard is no report. *)
WaitExpires(l) ==
    /\ leg[l].pc = "wait"
    /\ Goto(l, "failed")
    /\ StopWaiting(l)
    /\ UNCHANGED << run, onFile, saved, written, blurred >>

-----------------------------------------------------------------------------
(* The answers start a run of the task, which publishes its own events and *)
(* may ask again.                                                          *)
ResumeSessionPending(l) ==
    /\ onFile[l] = "asks"
    /\ run[l] = "none"
    /\ run' = [run EXCEPT ![l] = "resumed"]
    /\ onFile' = [onFile EXCEPT ![l] = "open"]
    /\ UNCHANGED << leg, subs, inbox, saved, written, blurred >>

StreamText(l) ==
    /\ run[l] = "resumed"
    /\ Len(written[l]) < MaxTexts[l]
    /\ Pub(Event(l, "text"))
    /\ written' = [written EXCEPT ![l] = Append(@, << l, Len(@) + 1 >>)]
    /\ UNCHANGED << leg, run, onFile, saved >>

(* Done removes the file, an error leaves it; both say so to the session. *)
StreamEnds(l) ==
    /\ run[l] = "resumed"
    /\ \E kind \in {"done", "error"} :
          /\ kind = "done" => written[l] # << >>
          /\ Pub(Event(l, kind))
          /\ onFile' = [onFile EXCEPT ![l] = IF kind = "done" THEN "none" ELSE @]
    /\ run' = [run EXCEPT ![l] = "none"]
    /\ UNCHANGED << leg, saved, written >>

StreamAsks(l) ==
    /\ run[l] = "resumed"
    /\ run' = [run EXCEPT ![l] = "none"]
    /\ onFile' = [onFile EXCEPT ![l] = "asks"]
    /\ UNCHANGED << leg, subs, inbox, saved, written, blurred >>

-----------------------------------------------------------------------------
\* Variant for mutation checks: nobody looks whether the file is there.
ReportUnchecked(l) ==
    /\ leg[l].pc = "result"
    /\ onFile' = [onFile EXCEPT ![l] = "none"]
    /\ leg' = [leg EXCEPT ![l].pc = "save", ![l].path = << NameOf[l] >>]
    /\ UNCHANGED << run, subs, inbox, saved, written, blurred >>

(* The report: the pending file goes, questions and all; the report gets   *)
(* the name asked for when no file has it...                               *)
Report(l) ==
    /\ leg[l].pc = "result"
    /\ onFile' = [onFile EXCEPT ![l] = "none"]
    /\ leg' = [leg EXCEPT ![l].pc = "save",
                          ![l].path = IF saved[<< NameOf[l] >>] = << >>
                                      THEN << NameOf[l] >> ELSE << NameOf[l], l >>]
    /\ UNCHANGED << run, subs, inbox, saved, written, blurred >>

(* ... and is written, though others may be about to use the name as well. *)
SaveReport(l) ==
    /\ leg[l].pc = "save"
    /\ saved' = [saved EXCEPT ![leg[l].path] = << l >>]
    /\ blurred' = IF \E k \in Legs \ {l} : leg[k].pc = "save" /\ leg[k].path = leg[l].path
                  THEN blurred \cup {l} ELSE blurred
    /\ Goto(l, "report")
    /\ UNCHANGED << run, onFile, subs, inbox, written >>

LegsNext ==
    \/ \E l \in Legs :
          \/ InvokeSubagent(l) \/ Exec(l) \/ SlotsFull(l)
          \/ CollectText(l) \/ RunDone(l) \/ RunAsks(l) \/ RunFails(l)
          \/ Collected(l) \/ WaitResume(l) \/ Hear(l) \/ WaitExpires(l)
          \/ ResumeSessionPending(l) \/ StreamText(l) \/ StreamEnds(l) \/ StreamAsks(l)
          \/ Report(l) \/ SaveReport(l)
    \/ \E v \in Viewers, s \in Sessions : View(v, s) \/ CloseView(v, s)

LegsSpec == LegsInit /\ [][LegsNext]_legsVars

-----------------------------------------------------------------------------
(* A report is what the leg's own task wrote, all of it and in order, and  *)
(* the file the leg names holds it (Exec, waitResume and saveReport) -     *)
(* unless the leg missed an event or heard one too many, had written       *)
(* something before it asked the user, or another leg took the same name   *)
(* in the same moment.                                                     *)
ReportIsWhole ==
    \A l \in Legs : leg[l].pc = "report" /\ l \notin blurred =>
        leg[l].got = written[l] /\ saved[leg[l].path] = << l >>
=============================================================================
