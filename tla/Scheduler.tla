------------------------------ MODULE Scheduler ------------------------------
(***************************************************************************)
(* The scheduler: the files tasks.json and crons.json, which tools, HTTP    *)
(* handlers and the TUI rewrite without a lock; the watcher that reloads    *)
(* them; the timers a reload keeps, one for each task; and the callback of  *)
(* a timer, which runs the task's skill and takes the task out of the file. *)
(***************************************************************************)
EXTENDS Integers, Sequences

CONSTANTS
    Skills,
    Sessions,
    Exprs,        \* cron expressions
    MaxTime,      \* the last instant of the clock
    Editors,      \* whoever calls a tool, a handler or a TUI command
    TimerIds,     \* names for the timers of a task; used again once done
    MaxEdits,     \* bound on the calls of all editors
    MaxRestarts,  \* bound on the restarts of the daemon
    None

ASSUME SchedulerAssumption ==
    /\ MaxTime \in Nat /\ MaxEdits \in Nat /\ MaxRestarts \in Nat
    /\ None \notin TimerIds

Kinds == {"task", "cron"}
Other(k) == IF k = "task" THEN "cron" ELSE "task"
When(k) == IF k = "task" THEN 1..MaxTime ELSE Exprs

\* TaskEntry and CronEntry; TaskKey and CronKey are the whole entry.
Entries(k) == [when : When(k), session : Sessions, skill : Skills]
Tasks == Entries("task")
Timers == Tasks \X TimerIds

VARIABLES
    now,
    files,     \* the content of tasks.json and of crons.json
    skills,    \* the scheduler skills that have a directory
    events,    \* file events that wait in the watcher's channel
    watching,  \* SchedulerWatcher has added the directory
    recent,    \* less than 200 ms since lastReload
    missed,    \* history: a write without a reload since the last LoadTasks
    wpc,       \* where the daemon's goroutine is in reload
    read,      \* what reload has loaded
    timers,    \* state.timers: the timer of a task, or None
    cronIDs,   \* state.cronIDs: the entries added to the cron
    tpc,       \* each timer: free, armed, or where its callback is
    tout,      \* what the callback's RemoveTaskByTimeSkill will save
    epc,       \* where each editor is in its call
    req,       \* its arguments
    todo,      \* the edits of files left to do in the call
    eout,      \* what the edit in progress will save
    removed,   \* whether its edits removed an entry
    edits, restarts

fileVars == <<files, events, missed>>
watchVars == <<watching, recent, wpc, read>>
timerVars == <<timers, cronIDs, tpc, tout>>
editVars == <<epc, req, todo, eout, removed, edits>>
vars == <<now, fileVars, skills, watchVars, timerVars, editVars, restarts>>

Contents == [task : SUBSET Tasks, cron : SUBSET Entries("cron")]

\* The calls: schedules write and patch, remove (tool and TUI), and over HTTP put
\* (POST or PATCH) and delete, of one kind or of both.
Binds(a, k, times) ==
    [api : {a}, kind : {k}, skill : Skills, session : Sessions, whens : times]
Changes(a, k, times) == [api : a, kind : {k}, skill : Skills, whens : times]
RequestsOf(k) ==
    Binds("write", k, {{w} : w \in When(k)})
    \cup Binds("put", k, SUBSET When(k) \ {{}})
    \cup Changes({"patch"}, k, {{w} : w \in When(k)})
    \cup Changes({"remove", "delete"}, k, {{}})
Requests ==
    RequestsOf("task") \cup RequestsOf("cron") \cup Changes({"deleteAll"}, "task", {{}})

EditSteps == [op : {"append", "remove", "patch", "set"}, kind : Kinds]
Edit(o, k) == [op |-> o, kind |-> k]

TypeOK ==
    /\ now \in 0..MaxTime
    /\ files \in Contents /\ read \in Contents
    /\ skills \subseteq Skills
    /\ events \in Nat
    /\ watching \in BOOLEAN /\ recent \in BOOLEAN /\ missed \in BOOLEAN
    /\ wpc \in {"tasks", "crons", "apply", "idle"}
    /\ timers \in [Tasks -> TimerIds \cup {None}]
    /\ cronIDs \subseteq Entries("cron")
    /\ tpc \in [Timers -> {"free", "armed", "run", "load", "save", "more", "trash"}]
    /\ tout \in [Timers -> SUBSET Tasks]
    /\ epc \in [Editors -> {"idle", "skill", "load", "save", "crons", "tasks", "trash"}]
    /\ removed \in [Editors -> BOOLEAN]
    /\ edits \in 0..MaxEdits /\ restarts \in 0..MaxRestarts
    /\ req \in [Editors -> Requests \cup {None}]
    /\ todo \in [Editors -> Seq(EditSteps)]
    /\ eout \in [Editors -> SUBSET (Tasks \cup Entries("cron"))]

NoFiles == [task |-> {}, cron |-> {}]

\* The daemon starts on files that an earlier one left.
Init ==
    /\ now = 0
    /\ files = NoFiles \/ \E t \in Tasks : files = [NoFiles EXCEPT !["task"] = {t}]
    /\ skills = Skills
    /\ events = 0
    /\ watching = FALSE /\ recent = FALSE /\ missed = FALSE
    /\ wpc = "tasks"
    /\ read = NoFiles
    /\ timers = [t \in Tasks |-> None]
    /\ cronIDs = {}
    /\ tpc = [x \in Timers |-> "free"]
    /\ tout = [x \in Timers |-> {}]
    /\ epc = [x \in Editors |-> "idle"]
    /\ req = [x \in Editors |-> None]
    /\ todo = [x \in Editors |-> <<>>]
    /\ eout = [x \in Editors |-> {}]
    /\ removed = [x \in Editors |-> FALSE]
    /\ edits = 0 /\ restarts = 0

Bound(k, s) == \E e \in files[k] : e.skill = s

\* SaveTasks, SaveCrons: the file is replaced, and the watcher, if any, told.
WriteFile(k, content) ==
    /\ files' = [files EXCEPT ![k] = content]
    /\ events' = IF watching THEN events + 1 ELSE events
    /\ missed' = (missed \/ ~watching)

-----------------------------------------------------------------------------
(* The callers that edit the files.                                         *)

\* The reads and writes of files that a call makes, in order.
EditsOf(q) ==
    CASE q.api = "write" -> <<Edit("append", q.kind)>>
      [] q.api = "patch" -> <<Edit("patch", q.kind)>>
      [] q.api \in {"remove", "delete"} -> <<Edit("remove", q.kind)>>
      [] q.api = "put" -> <<Edit("remove", Other(q.kind)), Edit("set", q.kind)>>
      [] OTHER -> <<Edit("remove", "cron"), Edit("remove", "task")>>

Wanted(q) == [when : q.whens, session : {q.session}, skill : {q.skill}]
OfSkill(content, s) == {e \in content : e.skill = s}

\* PatchTask, PatchCron.
Moved(content, q) ==
    (content \ OfSkill(content, q.skill)) \cup
    {[e EXCEPT !.when = w] : e \in OfSkill(content, q.skill), w \in q.whens}

\* What an edit makes of the content it has read.
Edited(op, content, q) ==
    CASE op = "append" -> content \cup Wanted(q)
      [] op = "remove" -> content \ OfSkill(content, q.skill)
      [] op = "patch" -> Moved(content, q)
      [] OTHER -> (content \ OfSkill(content, q.skill)) \cup Wanted(q)

\* A call begins: its arguments are checked against the clock and, for a bind
\* by the tool, against the skill's file. A put is refused or not by its
\* method, POST or PATCH: one of the two accepts it.
Begin(x, q) ==
    /\ epc[x] = "idle" /\ edits < MaxEdits
    /\ q.api = "write" => q.skill \in skills
    /\ q.kind = "task" => \A w \in q.whens : w > now
    /\ edits' = edits + 1
    /\ req' = [req EXCEPT ![x] = q]
    /\ todo' = [todo EXCEPT ![x] = EditsOf(q)]
    /\ removed' = [removed EXCEPT ![x] = FALSE]
    /\ epc' = [epc EXCEPT ![x] = IF q.api = "put" THEN "skill" ELSE "load"]
    /\ UNCHANGED <<now, fileVars, skills, watchVars, timerVars, eout, restarts>>

\* WriteSchedule, before the handler's commit.
PutSkill(x) ==
    /\ epc[x] = "skill"
    /\ skills' = skills \cup {req[x].skill}
    /\ epc' = [epc EXCEPT ![x] = "load"]
    /\ UNCHANGED <<now, fileVars, watchVars, timerVars, req, todo, eout, removed,
                   edits, restarts>>

\* Where the call goes on after an edit: to the next one, or to what follows.
AfterEdit(x, hit) ==
    IF Len(todo[x]) > 1 THEN "load"
    ELSE CASE req[x].api = "remove" /\ hit -> "trash"
           [] req[x].api \in {"delete", "deleteAll"} /\ hit -> "crons"
           [] OTHER -> "idle"

\* Forget the call: its locals are gone.
Reset(x) == /\ req' = [req EXCEPT ![x] = None]
            /\ todo' = [todo EXCEPT ![x] = <<>>]
            /\ eout' = [eout EXCEPT ![x] = {}]
            /\ removed' = [removed EXCEPT ![x] = FALSE]
            /\ epc' = [epc EXCEPT ![x] = "idle"]

\* The current edit is over; hit tells whether the call has removed anything.
Advance(x, hit) ==
    LET to == AfterEdit(x, hit) IN
    IF to = "idle" THEN Reset(x)
    ELSE /\ epc' = [epc EXCEPT ![x] = to]
         /\ todo' = [todo EXCEPT ![x] = Tail(@)]
         /\ eout' = [eout EXCEPT ![x] = {}]
         /\ removed' = [removed EXCEPT ![x] = hit]
         /\ UNCHANGED req

\* LoadTasks or LoadCrons, and the edit of what was read. A duplicate ends an
\* append; a remove or a patch that finds nothing saves nothing.
EditLoad(x) ==
    LET q == req[x]
        op == todo[x][1].op
        old == files[todo[x][1].kind]
    IN  /\ epc[x] = "load"
        /\ \/ /\ op = "append" /\ Wanted(q) \cap old # {}
              /\ Reset(x)
           \/ /\ op \in {"remove", "patch"} /\ OfSkill(old, q.skill) = {}
              /\ Advance(x, removed[x])
           \/ /\ op = "append" => Wanted(q) \cap old = {}
              /\ op \in {"remove", "patch"} => OfSkill(old, q.skill) # {}
              /\ eout' = [eout EXCEPT ![x] = Edited(op, old, q)]
              /\ epc' = [epc EXCEPT ![x] = "save"]
              /\ UNCHANGED <<req, todo, removed>>
        /\ UNCHANGED <<now, fileVars, skills, watchVars, timerVars, edits, restarts>>

\* SaveTasks or SaveCrons of what the edit made, whatever the file holds now.
EditSave(x) ==
    /\ epc[x] = "save"
    /\ WriteFile(todo[x][1].kind, eout[x])
    /\ Advance(x, removed[x] \/ todo[x][1].op = "remove")
    /\ UNCHANGED <<now, skills, watchVars, timerVars, edits, restarts>>

\* DeleteSchedule: scheduleBound reads crons.json, then tasks.json, and the
\* skill goes to the trash when neither binds it.
CheckBound(x) ==
    /\ \/ epc[x] = "crons" /\ Bound("cron", req[x].skill) /\ Reset(x)
       \/ epc[x] = "tasks" /\ Bound("task", req[x].skill) /\ Reset(x)
       \/ /\ \/ epc[x] = "crons" /\ ~Bound("cron", req[x].skill)
                /\ epc' = [epc EXCEPT ![x] = "tasks"]
             \/ epc[x] = "tasks" /\ ~Bound("task", req[x].skill)
                /\ epc' = [epc EXCEPT ![x] = "trash"]
          /\ UNCHANGED <<req, todo, eout, removed>>
    /\ UNCHANGED <<now, fileVars, skills, watchVars, timerVars, edits, restarts>>

\* TrashSchedule at the end of a remove or a delete.
TrashSkill(x) ==
    /\ epc[x] = "trash"
    /\ skills' = skills \ {req[x].skill}
    /\ Reset(x)
    /\ UNCHANGED <<now, fileVars, watchVars, timerVars, edits, restarts>>

\* A read or a write fails, or the caller's process ends: the call stops there.
Abort(x) ==
    /\ epc[x] # "idle"
    /\ Reset(x)
    /\ UNCHANGED <<now, fileVars, skills, watchVars, timerVars, edits, restarts>>

-----------------------------------------------------------------------------
(* The watcher and reload, in one goroutine of the daemon.                  *)

StartWatch ==
    /\ wpc = "idle" /\ ~watching
    /\ watching' = TRUE
    /\ UNCHANGED <<now, fileVars, skills, recent, wpc, read, timerVars, editVars, restarts>>

\* An event within 200 ms of lastReload is dropped.
SkipEvent ==
    /\ wpc = "idle" /\ events > 0 /\ recent
    /\ events' = events - 1
    /\ missed' = TRUE
    /\ UNCHANGED <<now, files, skills, watchVars, timerVars, editVars, restarts>>

TakeEvent ==
    /\ wpc = "idle" /\ events > 0 /\ ~recent
    /\ events' = events - 1
    /\ recent' = TRUE
    /\ wpc' = "tasks"
    /\ UNCHANGED <<now, files, missed, skills, watching, read, timerVars, editVars, restarts>>

LoadTasks ==
    /\ wpc = "tasks"
    /\ read' = [read EXCEPT !["task"] = files["task"]]
    /\ missed' = FALSE
    /\ wpc' = "crons"
    /\ UNCHANGED <<now, files, events, skills, watching, recent, timerVars, editVars, restarts>>

LoadCrons ==
    /\ wpc = "crons"
    /\ read' = [read EXCEPT !["cron"] = files["cron"]]
    /\ wpc' = "apply"
    /\ UNCHANGED <<now, fileVars, skills, watching, recent, timerVars, editVars, restarts>>

\* Variant for mutation checks: the first loop of reload is left out.
ListedAlways(t) == TRUE

Listed(t) == t \in read["task"]

\* Stop() does nothing to a timer that has fired.
Stopped(x) == ~Listed(x[1]) /\ timers[x[1]] = x[2] /\ tpc[x] = "armed"

Spare(t) == CHOOSE i \in TimerIds : tpc[<<t, i>>] = "free"

\* Variant for mutation checks: a task whose time has passed gets no timer.
StartedInTime(t) == t \in read["task"] /\ timers[t] = None /\ t.when > now

Started(t) == t \in read["task"] /\ timers[t] = None

\* The rest of reload, under state.mu: timers of tasks that are not in the file
\* are stopped and dropped, tasks without a timer get one, the crons become the
\* file's.
Apply ==
    /\ wpc = "apply"
    /\ \A t \in Tasks : Started(t) => \E i \in TimerIds : tpc[<<t, i>>] = "free"
    /\ timers' = [t \in Tasks |-> IF Started(t) THEN Spare(t)
                                 ELSE IF Listed(t) THEN timers[t] ELSE None]
    /\ tpc' = [x \in Timers |-> IF Stopped(x) THEN "free"
                               ELSE IF Started(x[1]) /\ x[2] = Spare(x[1]) THEN "armed"
                               ELSE tpc[x]]
    /\ cronIDs' = read["cron"]
    /\ read' = NoFiles
    /\ wpc' = "idle"
    /\ UNCHANGED <<now, fileVars, skills, watching, recent, tout, editVars, restarts>>

-----------------------------------------------------------------------------
(* A timer and its callback.                                                *)

Go(x, from, to) == tpc[x] = from /\ tpc' = [tpc EXCEPT ![x] = to]

\* The timer fires, and the callback runs the task's skill (fire), for long.
Fire(x) ==
    /\ Go(x, "armed", "run")
    /\ x[1].when <= now
    /\ UNCHANGED <<now, fileVars, skills, watchVars, timers, cronIDs, tout, editVars, restarts>>

\* The run ends, well or not; the task's timer, whichever it is, is dropped.
Forget(x) ==
    /\ Go(x, "run", "load")
    /\ timers' = [timers EXCEPT ![x[1]] = None]
    /\ UNCHANGED <<now, fileVars, skills, watchVars, cronIDs, tout, editVars, restarts>>

\* RemoveTaskByTimeSkill: the tasks of that time and skill, of every session.
SameTimeSkill(t) == {e \in files["task"] : e.when = t.when /\ e.skill = t.skill}

RemoveLoad(x) ==
    /\ IF SameTimeSkill(x[1]) = {}
       THEN Go(x, "load", "more") /\ UNCHANGED tout
       ELSE /\ Go(x, "load", "save")
            /\ tout' = [tout EXCEPT ![x] = files["task"] \ SameTimeSkill(x[1])]
    /\ UNCHANGED <<now, fileVars, skills, watchVars, timers, cronIDs, editVars, restarts>>

RemoveSave(x) ==
    /\ Go(x, "save", "more")
    /\ WriteFile("task", tout[x])
    /\ tout' = [tout EXCEPT ![x] = {}]
    /\ UNCHANGED <<now, skills, watchVars, timers, cronIDs, editVars, restarts>>

\* HasTaskForSkill.
CheckMore(x) ==
    /\ Go(x, "more", IF Bound("task", x[1].skill) THEN "free" ELSE "trash")
    /\ UNCHANGED <<now, fileVars, skills, watchVars, timers, cronIDs, tout, editVars, restarts>>

TrashFired(x) ==
    /\ Go(x, "trash", "free")
    /\ skills' = skills \ {x[1].skill}
    /\ UNCHANGED <<now, fileVars, watchVars, timers, cronIDs, tout, editVars, restarts>>

-----------------------------------------------------------------------------
(* Time, and a restart of the daemon.                                       *)

Tick ==
    /\ now < MaxTime
    /\ now' = now + 1
    /\ UNCHANGED <<fileVars, skills, watchVars, timerVars, editVars, restarts>>

\* 200 ms have passed since lastReload.
Settle ==
    /\ recent
    /\ recent' = FALSE
    /\ UNCHANGED <<now, fileVars, skills, watching, wpc, read, timerVars, editVars, restarts>>

\* The daemon ends, at any point of its callbacks and its reload, and a new one
\* reloads the files before it watches them. Callers in other processes go on.
Restart ==
    /\ restarts < MaxRestarts
    /\ restarts' = restarts + 1
    /\ events' = 0
    /\ watching' = FALSE /\ recent' = FALSE
    /\ wpc' = "tasks"
    /\ timers' = [t \in Tasks |-> None]
    /\ cronIDs' = {}
    /\ tpc' = [x \in Timers |-> "free"]
    /\ tout' = [x \in Timers |-> {}]
    /\ read' = NoFiles
    /\ UNCHANGED <<now, files, missed, skills, editVars>>

Reload == TakeEvent \/ LoadTasks \/ LoadCrons \/ Apply
Watcher == StartWatch \/ SkipEvent \/ Reload
Callback(x) == Forget(x) \/ RemoveLoad(x) \/ RemoveSave(x) \/ CheckMore(x) \/ TrashFired(x)
Editor(x) ==
    \/ \E q \in Requests : Begin(x, q)
    \/ PutSkill(x) \/ EditLoad(x) \/ EditSave(x) \/ CheckBound(x) \/ TrashSkill(x)
    \/ Abort(x)

Next ==
    \/ Watcher
    \/ \E x \in Timers : Fire(x) \/ Callback(x)
    \/ \E x \in Editors : Editor(x)
    \/ Tick \/ Settle \/ Restart

Spec == Init /\ [][Next]_vars

\* Time passes, timers fire, a skill's run comes to an end and the daemon's
\* goroutines go on. Nothing is asked of the editors.
FairSpec ==
    /\ Spec
    /\ WF_vars(Watcher) /\ WF_vars(Tick) /\ WF_vars(Settle)
    /\ \A x \in Timers : WF_vars(Fire(x) \/ Callback(x))

-----------------------------------------------------------------------------
(* Properties.                                                              *)

\* The tasks whose callback has dropped their timer and not yet read the file.
Forgotten == {t \in Tasks : \E i \in TimerIds : tpc[<<t, i>>] \in {"load", "save"}}
Timed == {t \in Tasks : timers[t] # None}

\* Nothing that was written is still to be seen by a reload.
CaughtUp == wpc = "idle" /\ events = 0 /\ ~missed

\* Once the watcher has caught up with the files, the timers are those of the
\* tasks in tasks.json, but for tasks that a callback is taking out of it, and
\* the crons are those of crons.json: whoever edits the files, in whatever
\* order, a reload never ends on a mix of old and new (reload, SchedulerWatcher).
TimersMatchFile ==
    CaughtUp => /\ Timed \subseteq files["task"]
                /\ files["task"] \subseteq Timed \cup Forgotten
                /\ cronIDs = files["cron"]

\* A timer that has yet to fire is the one the map holds for its task, so that a
\* removed or moved task can still be stopped: no callback drops another's timer
\* from the map before its time (scheduler.go, delete(st.timers, keyCopy)).
FutureTimersHeld ==
    \A x \in Timers : tpc[x] = "armed" /\ x[1].when > now => timers[x[1]] = x[2]

\* A task does not stay in tasks.json for ever: it fires and its callback takes
\* it out, across restarts and edits of other tasks, unless the write that put
\* it there was missed by the watcher.
TasksFireOrMissed ==
    \A t \in Tasks : t \in files["task"] ~> (t \notin files["task"] \/ missed)
=============================================================================
