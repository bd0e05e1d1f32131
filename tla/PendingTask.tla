------------------------------ MODULE PendingTask ------------------------------
(***************************************************************************)
(* One task of a session: its pending file, the mark that says a run has   *)
(* it, the runs that resume it, the background legs it starts, and the     *)
(* goroutine that resumes it when a leg has something to report.           *)
(*                                                                         *)
(* Every rewrite of the file under pendingMu is one step.  What the code   *)
(* reads outside pendingMu and uses later is kept in between: the record   *)
(* LoadResumeMessage read, the state CleanupPending looked at.  The task   *)
(* is the last of its session, so Run does not rename it.                  *)
(***************************************************************************)
EXTENDS Integers, FiniteSets

CONSTANTS
    Runs,         \* runs of the task, one after the other or at once
    First,        \* the run that created the task
    Legs,         \* background subagents and commands
    Updates,      \* the reports a leg may send while it works
    MaxLegs,      \* MAX_BACKGROUND_TASKS
    MaxEvents,    \* bound: what users do, updates and what goes wrong, of Events
    None

\* The user resumes the task, writes to it, answers or cancels its question, pauses or
\* cancels it; a run asks; a leg sends an update; a run fails or its history is not
\* written; the mark lapses under a run; the daemon restarts.
Events == {"resume", "follow", "answer", "withdraw", "stop", "ask", "update", "fault", "lapse",
           "restart"}

ASSUME PendingAssumption ==
    /\ First \in Runs /\ None \notin Runs
    /\ IsFiniteSet(Legs) /\ MaxLegs \in Nat
    /\ MaxEvents \in Nat

VARIABLES
    file,      \* the pending file, None when there is none
    marked,    \* the key action:<session>:<task> is in the online store
    pc,        \* of each run
    answering, \* the runs started by an answer, which claim nothing
    seen,      \* the record each run's LoadResumeMessage read
    text,      \* data.HistoryContent of each run
    keep,      \* the runs whose keepPending is set
    staged,    \* stagedReports[task], None when there is none
    cancelFn,  \* the run in cancelFnMap
    dying,     \* what canceled the context of each run, if anything
    cleaning,  \* CleanupPending, as called by a run or by the prompt's callback
    prompt,    \* the ask_user request of the task is in the registry
    lpc,       \* each leg's goroutine
    starter,   \* the run that called StartBackground for a leg
    sent,      \* the updates each leg has sent
    cancels,   \* backgroundCancels: the legs with a cancel function
    stopped,   \* the legs whose context was canceled
    flag,      \* backgroundCanceled
    sched,     \* backgroundResumes[task]: absent, running or dirty
    bpc, brun, \* the goroutine of ScheduleBackgroundResume, the run it waits for
    upc,       \* the user's pause or cancel in progress
    used, left, \* the events that have happened, how many more may
    told,      \* how often each leg's result was committed to the history
    loose      \* a run has gone on without the mark, or without the file

runVars == <<answering, seen, text, keep, staged>>
stopVars == <<cancelFn, dying, upc>>
legVars == <<lpc, starter, sent, cancels, stopped, flag>>
bgVars == <<sched, bpc, brun>>
spent == <<used, left>>
logVars == <<spent, told, loose>>
vars == <<file, marked, pc, runVars, stopVars, cleaning, prompt, legVars, bgVars, logVars>>

Spend(event) == left > 0 /\ left' = left - 1 /\ used' = used \cup {event}
Used(event) == event \in used

Prompt == None          \* the caller of CleanupPending that is no run
Cleaners == Runs \cup {Prompt}

LegStates == {"absent", "running", "done", "reported"}
Tasks == [asks : BOOLEAN, legs : [Legs -> LegStates], updates : [Legs -> SUBSET Updates]]
NoLegs == [l \in Legs |-> "absent"]
NoUpdates == [l \in Legs |-> {}]
NewTask == [asks |-> FALSE, legs |-> NoLegs, updates |-> NoUpdates]
Texts == [asks : BOOLEAN, done : SUBSET Legs, updates : [Legs -> SUBSET Updates], left : Nat]
NoText == [asks |-> FALSE, done |-> {}, updates |-> NoUpdates, left |-> 0]
Reports == [text : Texts, done : SUBSET Legs, updates : [Legs -> SUBSET Updates]]

ASSUME NoneAssumption == None \notin Tasks \cup Reports \cup Legs

RunPCs == {"idle", "follow", "read", "stage", "start", "loop", "stop", "released",
           "cleaning", "over"}
LegPCs == {"idle", "filed", "work", "sent", "ending", "taken", "done", "over"}

\* The runs between the claim of the task and the release of its mark; None is
\* the resuming goroutine that has yet to choose its run.
Live == {r \in Runs : pc[r] \in {"read", "stage", "start", "loop", "stop"}}
        \cup (IF bpc = "recheck" THEN {None} ELSE {})
InLoop == {r \in Runs : pc[r] = "loop"}

FileTypeOK ==
    /\ file \in Tasks \cup {None}
    /\ seen \in [Runs -> Tasks \cup {None}]
    /\ text \in [Runs -> Texts]
    /\ staged \in Reports \cup {None}
    /\ sent \in [Legs -> SUBSET Updates]
    /\ told \in [Legs -> Nat]

RunTypeOK ==
    /\ marked \in BOOLEAN
    /\ pc \in [Runs -> RunPCs]
    /\ answering \subseteq Runs /\ keep \subseteq Runs
    /\ cancelFn \in Runs \cup {None}
    /\ dying \in [Runs -> {"no", "pause", "cancel"}]
    /\ cleaning \in [Cleaners -> {"idle", "look", "clear", "row", "remove"}]
    /\ prompt \in BOOLEAN
    /\ upc \in {"idle", "pause", "cancel", "delete", "paused", "canceled"}
    /\ used \subseteq Events /\ left \in 0..MaxEvents
    /\ loose \in BOOLEAN

LegTypeOK ==
    /\ lpc \in [Legs -> LegPCs]
    /\ starter \in [Legs -> Runs \cup {None}]
    /\ cancels \subseteq Legs /\ stopped \subseteq Legs
    /\ flag \in BOOLEAN
    /\ sched \in {"absent", "running", "dirty"}
    /\ bpc \in {"idle", "check", "poll", "claim", "recheck", "run", "next"}
    /\ brun \in Runs \cup {None}

TypeOK == FileTypeOK /\ RunTypeOK /\ LegTypeOK

\* CreateExecPending and KeepOnline of the first run have been called.
Init ==
    /\ file = NewTask /\ marked = TRUE
    /\ pc = [r \in Runs |-> IF r = First THEN "loop" ELSE "idle"]
    /\ answering = {} /\ keep = Runs
    /\ seen = [r \in Runs |-> None]
    /\ text = [r \in Runs |-> NoText]
    /\ staged = None
    /\ cancelFn = First /\ dying = [r \in Runs |-> "no"]
    /\ cleaning = [c \in Cleaners |-> "idle"]
    /\ prompt = FALSE
    /\ lpc = [l \in Legs |-> "idle"]
    /\ starter = [l \in Legs |-> None]
    /\ sent = NoUpdates
    /\ cancels = {} /\ stopped = {} /\ flag = FALSE
    /\ sched = "absent" /\ bpc = "idle" /\ brun = None
    /\ upc = "idle"
    /\ used = {} /\ left = MaxEvents
    /\ told = [l \in Legs |-> 0]
    /\ loose = FALSE

-----------------------------------------------------------------------------
(* What a record says of the legs.                                          *)

Running(f) == {l \in Legs : f.legs[l] = "running"}
Finished(f) == {l \in Legs : f.legs[l] = "done"}
Updated(f) == {l \in Running(f) : f.updates[l] # {}}
Reportable(f) == Finished(f) \cup Updated(f)
HasLegs(f) == \E l \in Legs : f.legs[l] # "absent"

\* BackgroundState answers 0, 0 for a task that has no file.
Busy == file # None /\ Running(file) \cup Finished(file) # {}
ToReport == file # None /\ Reportable(file) # {}

\* The record without its legs.
Cleared(f) == [f EXCEPT !.legs = NoLegs, !.updates = NoUpdates]

ReportOf(f) == [l \in Legs |-> IF l \in Reportable(f) THEN f.updates[l] ELSE {}]

\* The history text of a resume: the answers of a question, else the reports.
TextOf(f) ==
    IF f.asks THEN [NoText EXCEPT !.asks = TRUE]
    ELSE IF Reportable(f) = {} THEN NoText
    ELSE [asks |-> FALSE, done |-> Finished(f), updates |-> ReportOf(f),
          left |-> Cardinality(Running(f))]

\* Variant for mutation checks: a request that finds the goroutine busy is dropped.
ScheduleOnce ==
    /\ sched' = "running"
    /\ bpc' = IF sched = "absent" THEN "check" ELSE bpc
    /\ UNCHANGED brun

\* ScheduleBackgroundResume.
Schedule ==
    /\ sched' = IF sched = "absent" THEN "running" ELSE "dirty"
    /\ bpc' = IF sched = "absent" THEN "check" ELSE bpc
    /\ UNCHANGED brun

\* resumeUnreported, on the record its caller read.
ResumeUnreported(f) ==
    IF Running(f) = {} /\ Finished(f) # {} THEN Schedule ELSE UNCHANGED bgVars

-----------------------------------------------------------------------------
(* Claiming and resuming the task.                                          *)

Go(r, from, to) == pc[r] = from /\ pc' = [pc EXCEPT ![r] = to]

\* Variant for mutation checks: the mark is set and not looked at.
ClaimBlindly == marked' = TRUE

\* ClaimOnline, when it answers true.
Claim == ~marked /\ marked' = TRUE

\* The user resumes a listed task (ResumeSessionPending without answers, FramePending).
Resume(r) ==
    /\ Go(r, "idle", "read")
    /\ file # None
    /\ Claim
    /\ Spend("resume")
    /\ UNCHANGED <<file, runVars, stopVars, cleaning, prompt, legVars, bgVars, told, loose>>

\* ClaimFollowUp of a message sent to a task with legs: HasBackground ...
Follow(r) ==
    /\ Go(r, "idle", "follow")
    /\ file # None /\ HasLegs(file)
    /\ Spend("follow")
    /\ UNCHANGED <<file, marked, runVars, stopVars, cleaning, prompt, legVars, bgVars, told, loose>>

\* ... then the claim; a message to a task that is online becomes steer.
FollowClaim(r) ==
    /\ \/ Go(r, "follow", "start") /\ Claim
       \/ Go(r, "follow", "idle") /\ marked /\ UNCHANGED marked
    /\ UNCHANGED <<file, runVars, stopVars, cleaning, prompt, legVars, bgVars, logVars>>

\* An answer resumes the task: the prompt's callback (TriggerResume), or answers
\* sent with ResumeSessionPending, which leave the prompt where it is.
Answer(r) ==
    /\ Go(r, "idle", "read")
    /\ \/ prompt /\ prompt' = FALSE
       \/ file # None /\ file.asks /\ UNCHANGED prompt
    /\ answering' = answering \cup {r}
    /\ Spend("answer") /\ loose' = TRUE
    /\ UNCHANGED <<file, marked, seen, text, keep, staged, stopVars, cleaning, legVars, bgVars,
                   told>>

\* LoadResumeMessage reads the record; without one a claimed task is released.
ReadTask(r) ==
    /\ Go(r, "read", IF file = None THEN "over" ELSE "stage")
    /\ seen' = [seen EXCEPT ![r] = file]
    /\ marked' = (marked /\ (file # None \/ r \in answering))
    /\ UNCHANGED <<file, answering, text, keep, staged, stopVars, cleaning, prompt, legVars, bgVars,
                   logVars>>

\* The questions it read are closed in the latest record, the prompt is dropped,
\* and the reports it read are staged.
StageTask(r) ==
    LET f == seen[r] IN
    /\ Go(r, "stage", "start")
    /\ IF f.asks
       THEN /\ file' = [(IF file = None THEN f ELSE file) EXCEPT !.asks = FALSE]
            /\ marked' = TRUE
       ELSE UNCHANGED <<file, marked>>
    /\ prompt' = FALSE
    /\ seen' = [seen EXCEPT ![r] = None]
    /\ text' = [text EXCEPT ![r] = TextOf(f)]
    /\ staged' = IF Reportable(f) = {} THEN None
                 ELSE [text |-> TextOf(f), done |-> Finished(f), updates |-> ReportOf(f)]
    /\ UNCHANGED <<answering, keep, stopVars, cleaning, legVars, bgVars, logVars>>

\* Run and Execute up to KeepOnline; the wait for a slot may be long.
StartRun(r) ==
    /\ Go(r, "start", "loop")
    /\ marked' = TRUE
    /\ cancelFn' = r
    /\ UNCHANGED <<file, runVars, dying, upc, cleaning, prompt, legVars, bgVars, logVars>>

\* Run fails before Execute owns the mark, and releases it.
FailStart(r) ==
    /\ Go(r, "start", "over")
    /\ Spend("fault")
    /\ marked' = FALSE
    /\ UNCHANGED <<file, runVars, stopVars, cleaning, prompt, legVars, bgVars, told, loose>>

\* The mark lapses after onlineTTL unless the ticker of KeepOnline renews it.
Lapse ==
    /\ marked /\ InLoop = {}
    /\ marked' = FALSE
    /\ \/ Live = {} /\ UNCHANGED <<spent, loose>>
       \/ Live # {} /\ Spend("lapse") /\ loose' = TRUE
    /\ UNCHANGED <<file, pc, runVars, stopVars, cleaning, prompt, legVars, bgVars, told>>

-----------------------------------------------------------------------------
(* The loop of a run and what it defers.                                    *)

\* A run inside StartBackground goes on only when the leg is registered.
Free(r) == pc[r] = "loop" /\ \A l \in Legs : lpc[l] = "filed" => starter[l] # r

\* unregisterCancel and the stop of KeepOnline, whose last tick may come after it.
StopRun(r) ==
    /\ Go(r, "stop", "released")
    /\ cancelFn' = None
    /\ marked' \in BOOLEAN /\ (marked' => marked)
    /\ text' = [text EXCEPT ![r] = NoText]
    /\ UNCHANGED <<file, answering, seen, keep, staged, dying, upc, cleaning, prompt, legVars, bgVars, logVars>>

\* SaveAndEnqueueAskUser: the questions are filed and the run ends.
AskUser(r) ==
    /\ Free(r) /\ ~prompt
    /\ Spend("ask")
    /\ pc' = [pc EXCEPT ![r] = "stop"]
    /\ file' = [(IF file = None THEN NewTask ELSE file) EXCEPT !.asks = TRUE]
    /\ prompt' = TRUE
    /\ UNCHANGED <<marked, runVars, stopVars, cleaning, legVars, bgVars, told, loose>>

\* Variant for mutation checks: only the updates are marked.
CommittedUpdates(f) == [f EXCEPT !.updates = [l \in Legs |-> f.updates[l] \ staged.updates[l]]]

\* markBackgroundReported.
Committed(f) ==
    [f EXCEPT !.legs = [l \in Legs |-> IF l \in staged.done /\ f.legs[l] # "absent"
                                       THEN "reported" ELSE f.legs[l]],
              !.updates = [l \in Legs |-> f.updates[l] \ staged.updates[l]]]

\* CommitBackgroundReport, for the report whose text the run was given.
Commit(r) ==
    IF r # First /\ staged # None /\ staged.text = text[r]
    THEN /\ staged' = None
         /\ file' = IF file = None THEN None ELSE Committed(file)
         /\ told' = [l \in Legs |-> IF l \in staged.done THEN told[l] + 1 ELSE told[l]]
    ELSE UNCHANGED <<staged, file, told>>

\* The final text: the history is saved and the report committed; steer goes on.
Reply(r) ==
    /\ Free(r) /\ dying[r] = "no"
    /\ Commit(r)
    /\ \/ pc' = [pc EXCEPT ![r] = "stop"] /\ keep' = keep \ {r}
       \/ UNCHANGED <<pc, keep>>
    /\ UNCHANGED <<marked, answering, seen, text, stopVars, cleaning, prompt, legVars, bgVars, spent,
                   loose>>

\* The final text when writing the history fails.
ReplyUnsaved(r) ==
    /\ Free(r) /\ dying[r] = "no"
    /\ Spend("fault")
    /\ pc' = [pc EXCEPT ![r] = "stop"] /\ keep' = keep \ {r}
    /\ UNCHANGED <<file, marked, answering, seen, text, staged, stopVars, cleaning, prompt, legVars,
                   bgVars, told, loose>>

\* An upstream error, no tool-free answer: the file is kept.
FailRun(r) ==
    /\ Free(r)
    /\ Spend("fault")
    /\ pc' = [pc EXCEPT ![r] = "stop"]
    /\ UNCHANGED <<file, marked, runVars, stopVars, cleaning, prompt, legVars, bgVars, told, loose>>

\* What a run does when it has let go of its mark: the file of a run that failed
\* is kept, a task with legs stays pending, any other is cleaned up.
AfterRun(r) ==
    /\ IF r \in keep \/ Busy
       THEN Go(r, "released", "over") /\ UNCHANGED cleaning
       ELSE /\ Go(r, "released", "cleaning")
            /\ cleaning' = [cleaning EXCEPT ![r] = "look"]
    /\ UNCHANGED <<file, marked, runVars, stopVars, prompt, legVars, bgVars, logVars>>

\* DeletePending: a task with legs is kept, and resumed if its legs have finished.
Delete ==
    IF Busy THEN ResumeUnreported(file) /\ UNCHANGED file
    ELSE file' = None /\ UNCHANGED bgVars

\* The loop sees that its context is canceled; a user cancel deletes the file.
EndCanceled(r) ==
    /\ Free(r) /\ dying[r] # "no"
    /\ pc' = [pc EXCEPT ![r] = "stop"]
    /\ IF dying[r] = "cancel" THEN Delete ELSE UNCHANGED <<file, bgVars>>
    /\ UNCHANGED <<marked, runVars, stopVars, cleaning, prompt, legVars, logVars>>

-----------------------------------------------------------------------------
(* CleanupPending, which takes pendingMu for the rewrites only.              *)

Clean(c, from, to) ==
    /\ cleaning[c] = from
    /\ cleaning' = [cleaning EXCEPT ![c] = to]
    /\ pc' = IF c \in Runs /\ to = "idle" THEN [pc EXCEPT ![c] = "over"] ELSE pc

CleanRest == <<marked, runVars, stopVars, prompt, legVars>>

\* The user cancels the prompt: its callback cleans the task up.
CancelPrompt ==
    /\ prompt /\ prompt' = FALSE
    /\ Clean(Prompt, "idle", "look")
    /\ Spend("withdraw")
    /\ UNCHANGED <<file, marked, runVars, stopVars, legVars, bgVars, told, loose>>

CleanLook(c) ==
    /\ Clean(c, "look", IF Busy THEN "clear" ELSE "row")
    /\ UNCHANGED <<file, bgVars, logVars, CleanRest>>

\* A task with legs only loses its questions.
CleanClear(c) ==
    /\ Clean(c, "clear", "idle")
    /\ IF file = None THEN UNCHANGED <<file, bgVars>>
       ELSE file' = [file EXCEPT !.asks = FALSE] /\ ResumeUnreported(file)
    /\ UNCHANGED <<logVars, CleanRest>>

\* The record is read and written to the history of actions ...
CleanRow(c) ==
    /\ \/ file # None /\ Clean(c, "row", "remove") /\ UNCHANGED spent
       \/ file = None /\ Clean(c, "row", "idle") /\ UNCHANGED spent
       \/ file # None /\ Clean(c, "row", "idle") /\ Spend("fault")
    /\ UNCHANGED <<file, bgVars, told, loose, CleanRest>>

\* ... and the file is removed, whatever has been written to it since.
CleanRemove(c) ==
    /\ Clean(c, "remove", "idle")
    /\ file' = None
    /\ loose' = (loose \/ Busy \/ Live # {})
    /\ UNCHANGED <<bgVars, spent, told, CleanRest>>

-----------------------------------------------------------------------------
(* The legs.                                                                *)

GoLeg(l, from, to) == lpc[l] = from /\ lpc' = [lpc EXCEPT ![l] = to]
LegRest == <<marked, pc, runVars, stopVars, cleaning, prompt, logVars>>

\* AcquireBackgroundSlot.
SlotFree == Cardinality({l \in Legs : lpc[l] \notin {"idle", "over"}}) < MaxLegs

\* StartBackground: the leg is filed ...
FileLeg(r, l) ==
    /\ Free(r) /\ file # None /\ SlotFree
    /\ GoLeg(l, "idle", "filed")
    /\ file' = [file EXCEPT !.legs[l] = "running"]
    /\ starter' = [starter EXCEPT ![l] = r]
    /\ UNCHANGED <<sent, cancels, stopped, flag, bgVars, LegRest>>

\* ... and its cancel function is registered.
RegisterLeg(l) ==
    /\ GoLeg(l, "filed", "work")
    /\ cancels' = cancels \cup {l}
    /\ UNCHANGED <<file, starter, sent, stopped, flag, bgVars, LegRest>>

\* DeliverBackgroundUpdate: the report is filed, and the task is to resume.
UpdateLeg(l) ==
    /\ l \notin stopped
    /\ GoLeg(l, "work", "sent")
    /\ file # None /\ file.legs[l] = "running"
    /\ Spend("update")
    /\ \E u \in Updates \ sent[l] :
          /\ sent' = [sent EXCEPT ![l] = @ \cup {u}]
          /\ file' = [file EXCEPT !.updates[l] = @ \cup {u}]
    /\ UNCHANGED <<starter, cancels, stopped, flag, bgVars, marked, pc, runVars, stopVars, cleaning,
                   prompt, told, loose>>

UpdateSchedule(l) ==
    /\ GoLeg(l, "sent", "work")
    /\ Schedule
    /\ UNCHANGED <<file, starter, sent, cancels, stopped, flag, LegRest>>

\* DeliverBackground, FinishBackground: unregisterBackgroundCancel ...
EndLeg(l) ==
    /\ GoLeg(l, "work", "ending")
    /\ cancels' = cancels \ {l}
    /\ UNCHANGED <<file, starter, sent, stopped, flag, bgVars, LegRest>>

\* ... takeBackgroundCanceled, whose flag is the task's and not the leg's ...
TakeCanceled(l) ==
    /\ GoLeg(l, "ending", IF flag THEN "over" ELSE "taken")
    /\ flag' = (flag /\ cancels # {})
    /\ UNCHANGED <<file, starter, sent, cancels, stopped, bgVars, LegRest>>

\* ... finishBackground ...
FinishLeg(l) ==
    LET found == file # None /\ file.legs[l] # "absent" IN
    /\ GoLeg(l, "taken", IF found THEN "done" ELSE "over")
    /\ file' = IF found THEN [file EXCEPT !.legs[l] = "done"] ELSE file
    /\ UNCHANGED <<starter, sent, cancels, stopped, flag, bgVars, LegRest>>

\* ... and ScheduleBackgroundResume.
ScheduleLeg(l) ==
    /\ GoLeg(l, "done", "over")
    /\ Schedule
    /\ UNCHANGED <<file, starter, sent, cancels, stopped, flag, LegRest>>

-----------------------------------------------------------------------------
(* The goroutine that resumes the task.                                     *)

GoResumer(from, to) == bpc = from /\ bpc' = to
ResumerRest == <<file, runVars, stopVars, cleaning, prompt, legVars, logVars>>

\* resumeBackground: is there something to report ...
ResumeCheck ==
    /\ GoResumer("check", IF ToReport THEN "poll" ELSE "next")
    /\ UNCHANGED <<marked, pc, sched, brun, ResumerRest>>

\* ... and no open question (LoadPendingQuestions) ...
ResumePoll ==
    /\ GoResumer("poll", IF file # None /\ file.asks THEN "next" ELSE "claim")
    /\ UNCHANGED <<marked, pc, sched, brun, ResumerRest>>

\* ... claim the task, or try again in half a second ...
ResumeClaim ==
    /\ \/ GoResumer("claim", "recheck") /\ Claim
       \/ GoResumer("claim", "poll") /\ marked /\ UNCHANGED marked
    /\ UNCHANGED <<pc, sched, brun, ResumerRest>>

\* ... look again, and run.
ResumeRun ==
    /\ \/ /\ ToReport
          /\ \E r \in Runs :
                /\ Go(r, "idle", "read")
                /\ GoResumer("recheck", "run")
                /\ brun' = r
          /\ UNCHANGED marked
       \/ /\ ~ToReport
          /\ GoResumer("recheck", "next")
          /\ marked' = FALSE
          /\ UNCHANGED <<pc, brun>>
    /\ UNCHANGED <<sched, ResumerRest>>

ResumeWait ==
    /\ GoResumer("run", "next")
    /\ pc[brun] = "over"
    /\ brun' = None
    /\ UNCHANGED <<marked, pc, sched, ResumerRest>>

\* The goroutine of ScheduleBackgroundResume goes round again if it was asked to.
ResumeNext ==
    /\ \/ sched = "dirty" /\ sched' = "running" /\ GoResumer("next", "check")
       \/ sched = "running" /\ sched' = "absent" /\ GoResumer("next", "idle")
    /\ UNCHANGED <<marked, pc, brun, ResumerRest>>

-----------------------------------------------------------------------------
(* FrameCancel: PauseTask or CancelTask, then exec.Cancel.                  *)

StopRest == <<marked, pc, runVars, cleaning, prompt, told, loose>>

\* StopBackground cancels the legs that are registered ...
StopLegs ==
    /\ upc = "idle" /\ upc' \in {"pause", "cancel"}
    /\ Spend("stop")
    /\ flag' = (flag \/ cancels # {})
    /\ stopped' = stopped \cup cancels
    /\ UNCHANGED <<file, cancelFn, dying, lpc, starter, sent, cancels, bgVars, StopRest>>

\* ... and takes the legs out of the file.
DropLegs ==
    /\ \/ upc = "pause" /\ upc' = "paused"
       \/ upc = "cancel" /\ upc' = "delete"
    /\ file' = IF file = None THEN None ELSE Cleared(file)
    /\ UNCHANGED <<cancelFn, dying, legVars, bgVars, spent, StopRest>>

CancelDelete ==
    /\ upc = "delete" /\ upc' = "canceled"
    /\ Delete
    /\ UNCHANGED <<cancelFn, dying, legVars, spent, StopRest>>

\* exec.Cancel of the run the map holds, when it is this window's.
CancelRun ==
    /\ upc \in {"paused", "canceled"} /\ upc' = "idle"
    /\ \/ /\ cancelFn # None
          /\ dying' = [dying EXCEPT ![cancelFn] = IF @ # "no" THEN @
                                        ELSE IF upc = "paused" THEN "pause" ELSE "cancel"]
       \/ UNCHANGED dying
    /\ UNCHANGED <<file, cancelFn, legVars, bgVars, spent, StopRest>>

\* Variant for mutation checks: the legs stay in the file.
RestartKeep ==
    /\ Spend("restart")
    /\ marked' = FALSE /\ prompt' = FALSE /\ staged' = None /\ flag' = FALSE
    /\ pc' = [r \in Runs |-> IF pc[r] = "idle" THEN "idle" ELSE "over"]
    /\ cancelFn' = None /\ upc' = "idle"
    /\ cleaning' = [c \in Cleaners |-> "idle"]
    /\ lpc' = [l \in Legs |-> IF lpc[l] = "idle" THEN "idle" ELSE "over"]
    /\ stopped' = stopped \cup {l \in Legs : lpc[l] \notin {"idle", "over"}}
    /\ cancels' = {}
    /\ sched' = "absent" /\ bpc' = "idle" /\ brun' = None
    /\ UNCHANGED <<file, answering, seen, text, keep, dying, starter, sent, told, loose>>

\* The daemon starts anew: ClearOnline, ClearAllBackground, and nothing in memory.
Restart ==
    /\ Spend("restart")
    /\ file' = IF file = None THEN None ELSE Cleared(file)
    /\ marked' = FALSE /\ prompt' = FALSE /\ staged' = None /\ flag' = FALSE
    /\ pc' = [r \in Runs |-> IF pc[r] = "idle" THEN "idle" ELSE "over"]
    /\ cancelFn' = None /\ upc' = "idle"
    /\ cleaning' = [c \in Cleaners |-> "idle"]
    /\ lpc' = [l \in Legs |-> IF lpc[l] = "idle" THEN "idle" ELSE "over"]
    /\ stopped' = stopped \cup {l \in Legs : lpc[l] \notin {"idle", "over"}}
    /\ cancels' = {}
    /\ sched' = "absent" /\ bpc' = "idle" /\ brun' = None
    /\ UNCHANGED <<answering, seen, text, keep, dying, starter, sent, told, loose>>

-----------------------------------------------------------------------------
RunStep(r) ==
    \/ Resume(r) \/ Follow(r) \/ FollowClaim(r) \/ Answer(r) \/ ReadTask(r) \/ StageTask(r)
    \/ StartRun(r) \/ FailStart(r) \/ AskUser(r) \/ Reply(r) \/ ReplyUnsaved(r) \/ FailRun(r)
    \/ EndCanceled(r) \/ StopRun(r) \/ AfterRun(r)
    \/ \E l \in Legs : FileLeg(r, l)

CleanStep(c) == CleanLook(c) \/ CleanClear(c) \/ CleanRow(c) \/ CleanRemove(c)

LegStep(l) ==
    \/ RegisterLeg(l) \/ UpdateLeg(l) \/ UpdateSchedule(l)
    \/ EndLeg(l) \/ TakeCanceled(l) \/ FinishLeg(l) \/ ScheduleLeg(l)

ResumerStep ==
    ResumeCheck \/ ResumePoll \/ ResumeClaim \/ ResumeRun \/ ResumeWait \/ ResumeNext

StopStep == StopLegs \/ DropLegs \/ CancelDelete \/ CancelRun

Next ==
    \/ \E r \in Runs : RunStep(r)
    \/ \E c \in Cleaners : CleanStep(c)
    \/ \E l \in Legs : LegStep(l)
    \/ ResumerStep \/ StopStep \/ CancelPrompt \/ Lapse \/ Restart

Spec == Init /\ [][Next]_vars

\* Goroutines that can go on do, marks lapse; what users do is never owed, and a
\* run replies in the end.
FairSpec ==
    /\ Spec
    /\ \A r \in Runs :
          /\ WF_vars(FollowClaim(r)) /\ WF_vars(ReadTask(r)) /\ WF_vars(StageTask(r))
          /\ WF_vars(StartRun(r)) /\ WF_vars(Reply(r)) /\ WF_vars(EndCanceled(r))
          /\ WF_vars(StopRun(r)) /\ WF_vars(AfterRun(r))
    /\ \A c \in Cleaners : WF_vars(CleanStep(c))
    /\ \A l \in Legs : WF_vars(LegStep(l))
    /\ SF_vars(ResumeClaim) /\ WF_vars(ResumerStep)
    /\ WF_vars(StopStep /\ upc # "idle") /\ WF_vars(Lapse /\ Live = {})

-----------------------------------------------------------------------------
(* Properties.                                                              *)

\* Runs that claim the task exclude each other: two are at it at once only after
\* an answer was resumed, a mark lapsed or a cleanup took the file from a run.
OneRunPerClaim == loose \/ Cardinality(Live) <= 1

\* Nobody paused or canceled the task, and the daemon did not restart.
Undisturbed == ~Used("stop") /\ ~Used("restart")

Kept(l) == told[l] > 0 \/ (file # None /\ file.legs[l] = "done")

\* The result of a leg is in the file until a run has committed it to the history.
ResultsKept ==
    ~loose /\ Undisturbed =>
        \A l \in Legs : lpc[l] \in {"done", "over"} => Kept(l)

\* A leg the file calls running has a goroutine that will say when it is done: the
\* task does not wait for it for ever.
Accounted(l) == lpc[l] \notin {"idle", "over"}

UnstoppedLegsAccounted ==
    ~loose /\ ~Used("stop") /\ file # None => \A l \in Running(file) : Accounted(l)

\* A result is committed to the history once.
ToldOnce == loose \/ \A l \in Legs : told[l] <= 1

\* No result is lost and none is told twice, whatever resumes the task: a user, a
\* message, an answer or a leg that reports (CommitBackgroundReport).
EachResultCounts == ResultsKept /\ ToldOnce

\* What has been said of a finished leg is committed in the end, if no question is
\* open, nothing fails and the bound on runs is not reached.
Hindered ==
    \/ loose \/ ~Undisturbed \/ Used("fault")
    \/ file # None /\ file.asks
    \/ \A r \in Runs : pc[r] # "idle"
ResultsReported == \A l \in Legs : lpc[l] = "done" ~> told[l] > 0 \/ Hindered
=============================================================================
