--------------------------- MODULE SchedulerProofs ---------------------------
(***************************************************************************)
(* Proofs about the scheduler: its variables keep their types, a timer that *)
(* has yet to fire is in the map, and a watcher that has caught up leaves   *)
(* the timers of the tasks in the file.  And about SessionMemory, for any   *)
(* writers, sizes and clock: appends are atomic, the rows follow the file,  *)
(* and a reset that keeps the summary loses nothing it should tell.         *)
(***************************************************************************)
EXTENDS Scheduler, SessionMemory, SublistsProofs, TLAPS

\* A call that has edits left has arguments that suit each of them.
Suits(s, q) ==
    \/ s.op = "remove"
    \/ s.op = "patch" /\ s.kind = q.kind
    \/ s.op \in {"append", "set"} /\ s.kind = q.kind /\ q.session \in Sessions

CallOK(x) ==
    /\ epc[x] # "idle" => req[x] \in Requests
    /\ epc[x] \in {"skill", "load", "save"} =>
          Len(todo[x]) > 0 /\ \A i \in 1..Len(todo[x]) : Suits(todo[x][i], req[x])
    /\ epc[x] = "save" => eout[x] \subseteq Entries(todo[x][1].kind)

\* The type invariant in two halves: the callers, and all the rest.
CallersOK ==
    /\ epc \in [Editors -> {"idle", "skill", "load", "save", "crons", "tasks", "trash"}]
    /\ req \in [Editors -> Requests \cup {None}]
    /\ todo \in [Editors -> Seq(EditSteps)]
    /\ eout \in [Editors -> SUBSET (Tasks \cup Entries("cron"))]
    /\ removed \in [Editors -> BOOLEAN]
    /\ edits \in 0..MaxEdits
    /\ \A x \in Editors : CallOK(x)

DaemonOK ==
    /\ now \in 0..MaxTime
    /\ files \in Contents /\ read \in Contents
    /\ skills \subseteq Skills
    /\ events \in Nat
    /\ watching \in BOOLEAN /\ recent \in BOOLEAN /\ missed \in BOOLEAN
    /\ wpc \in {"tasks", "crons", "apply", "idle"}
    /\ timers \in [Tasks -> TimerIds \cup {None}]
    /\ cronIDs \subseteq Entries("cron")
    /\ tpc \in [Timers -> {"free", "armed", "run", "load", "save", "more", "trash"}]
    /\ tout \in [Timers -> SUBSET Tasks]
    /\ restarts \in 0..MaxRestarts

Typed == CallersOK /\ DaemonOK

-----------------------------------------------------------------------------
(* The arguments of a call and its edits.                                   *)

\* Every request names a skill, a kind and times of that kind.
LEMMA RequestFields ==
    ASSUME NEW q \in Requests
    PROVE  /\ q.api \in {"write", "patch", "put", "remove", "delete", "deleteAll"}
           /\ q.skill \in Skills /\ q.kind \in Kinds
           /\ q.whens \subseteq When(q.kind)
           /\ q.api \in {"write", "put"} => q.session \in Sessions
<1>1. ASSUME NEW k \in Kinds, q \in RequestsOf(k) 
      PROVE  /\ q.api \in {"write", "patch", "put", "remove", "delete"}
             /\ q.skill \in Skills /\ q.kind \in Kinds
             /\ q.whens \subseteq When(q.kind)
             /\ q.api \in {"write", "put"} => q.session \in Sessions
  BY <1>1 DEF RequestsOf, Binds, Changes
<1>2. CASE q \in Changes({"deleteAll"}, "task", {{}})
  BY <1>2 DEF Changes, Kinds
<1> QED BY <1>1, <1>2 DEF Requests, Kinds

\* The edits of a call are edits of files, one at least, and suit its arguments.
LEMMA EditsSuit ==
    ASSUME NEW q \in Requests
    PROVE  /\ EditsOf(q) \in Seq(EditSteps)
           /\ Len(EditsOf(q)) > 0
           /\ \A i \in 1..Len(EditsOf(q)) : Suits(EditsOf(q)[i], q)
<1>0. /\ q.api \in {"write", "patch", "put", "remove", "delete", "deleteAll"}
      /\ q.kind \in Kinds
      /\ q.api \in {"write", "put"} => q.session \in Sessions
  BY RequestFields
<1>1. \A k \in Kinds : /\ \A o \in {"append", "remove", "patch", "set"} : Edit(o, k) \in EditSteps
                       /\ Other(k) \in Kinds
  BY DEF Edit, EditSteps, Other, Kinds
<1>2. CASE q.api = "write"
  <2>1. EditsOf(q) = <<Edit("append", q.kind)>>  BY <1>2 DEF EditsOf
  <2>2. Suits(Edit("append", q.kind), q)  BY <1>0, <1>2 DEF Suits, Edit
  <2> QED BY <1>0, <1>1, <2>1, <2>2
<1>3. CASE q.api = "patch"
  <2>1. EditsOf(q) = <<Edit("patch", q.kind)>>  BY <1>3 DEF EditsOf
  <2>2. Suits(Edit("patch", q.kind), q)  BY DEF Suits, Edit
  <2> QED BY <1>0, <1>1, <2>1, <2>2
<1>4. CASE q.api \in {"remove", "delete"}
  <2>1. EditsOf(q) = <<Edit("remove", q.kind)>>  BY <1>4 DEF EditsOf
  <2>2. Suits(Edit("remove", q.kind), q)  BY DEF Suits, Edit
  <2> QED BY <1>0, <1>1, <2>1, <2>2
<1>5. CASE q.api = "put"
  <2>1. EditsOf(q) = <<Edit("remove", Other(q.kind)), Edit("set", q.kind)>>
    BY <1>5 DEF EditsOf
  <2>2. Suits(Edit("remove", Other(q.kind)), q) /\ Suits(Edit("set", q.kind), q)
    BY <1>0, <1>5 DEF Suits, Edit
  <2> QED BY <1>0, <1>1, <2>1, <2>2
<1>6. CASE q.api = "deleteAll"
  <2>1. EditsOf(q) = <<Edit("remove", "cron"), Edit("remove", "task")>>
    BY <1>6 DEF EditsOf
  <2>2. Suits(Edit("remove", "cron"), q) /\ Suits(Edit("remove", "task"), q)
    BY DEF Suits, Edit
  <2> QED BY <1>1, <2>1, <2>2 DEF Kinds
<1> QED BY <1>0, <1>2, <1>3, <1>4, <1>5, <1>6

\* An edit of entries of a kind makes entries of that kind.
LEMMA EditedTyped ==
    ASSUME NEW q \in Requests, NEW s \in EditSteps, Suits(s, q),
           NEW old, old \subseteq Entries(s.kind)
    PROVE  Edited(s.op, old, q) \subseteq Entries(s.kind)
<1>0. s.op \in {"append", "remove", "patch", "set"}  BY DEF EditSteps
<1>1. q.skill \in Skills /\ q.whens \subseteq When(q.kind)  BY RequestFields
<1>2. ASSUME s.kind = q.kind, q.session \in Sessions
      PROVE  Wanted(q) \subseteq Entries(s.kind)
  BY <1>1, <1>2 DEF Wanted, Entries
<1>3. OfSkill(old, q.skill) \subseteq old  BY DEF OfSkill
<1>4. ASSUME s.kind = q.kind PROVE Moved(old, q) \subseteq Entries(s.kind)
  <2>1. ASSUME NEW e \in Entries(s.kind), NEW w \in q.whens
        PROVE  [e EXCEPT !.when = w] \in Entries(s.kind)
    BY <1>1, <1>4, <2>1 DEF Entries
  <2> QED BY <1>3, <2>1 DEF Moved
<1>5. CASE s.op = "append"
  BY <1>0, <1>2, <1>5 DEF Edited, Suits
<1>6. CASE s.op = "remove"
  BY <1>6 DEF Edited
<1>7. CASE s.op = "patch"
  BY <1>4, <1>7 DEF Edited, Suits
<1>8. CASE s.op = "set"
  BY <1>2, <1>8 DEF Edited, Suits
<1> QED BY <1>0, <1>5, <1>6, <1>7, <1>8

-----------------------------------------------------------------------------
(* Type correctness.                                                        *)

LEMMA TypedIsTypeOK == Typed => TypeOK
BY DEF Typed, CallersOK, DaemonOK, TypeOK

LEMMA FilesOfKind ==
    ASSUME DaemonOK, NEW k \in Kinds
    PROVE  files[k] \subseteq Entries(k)
BY DEF DaemonOK, Contents, Kinds, Tasks

\* What WriteFile does to the types of what it writes.
LEMMA WriteFileType ==
    ASSUME DaemonOK, NEW k \in Kinds, NEW c, c \subseteq Entries(k), WriteFile(k, c)
    PROVE  files' \in Contents /\ events' \in Nat /\ missed' \in BOOLEAN
<1>1. files' \in Contents
  <2>1. CASE k = "task"  BY <2>1 DEF DaemonOK, Contents, WriteFile, Tasks
  <2>2. CASE k = "cron"  BY <2>2 DEF DaemonOK, Contents, WriteFile
  <2> QED BY <2>1, <2>2 DEF Kinds
<1>2. events' \in Nat  BY DEF DaemonOK, WriteFile
<1> QED BY <1>1, <1>2 DEF DaemonOK, WriteFile

LEMMA TypedInit == Init => Typed
<1> SUFFICES ASSUME Init PROVE Typed  OBVIOUS
<1>1. NoFiles \in Contents  BY DEF NoFiles, Contents
<1>2. files \in Contents
  <2>1. CASE files = NoFiles  BY <1>1, <2>1
  <2>2. CASE \E t \in Tasks : files = [NoFiles EXCEPT !["task"] = {t}]
    BY <2>2 DEF NoFiles, Contents
  <2> QED BY <2>1, <2>2 DEF Init
<1>3. watching \in BOOLEAN /\ recent \in BOOLEAN /\ missed \in BOOLEAN
  BY Zenon DEF Init
<1>4. now \in 0..MaxTime /\ events \in Nat /\ restarts \in 0..MaxRestarts
  BY SchedulerAssumption DEF Init
<1>5. read \in Contents /\ skills \subseteq Skills /\ wpc = "tasks"
  BY <1>1 DEF Init
<1>6. /\ timers \in [Tasks -> TimerIds \cup {None}] /\ cronIDs \subseteq Entries("cron")
      /\ tpc \in [Timers -> {"free"}] /\ tout \in [Timers -> SUBSET Tasks]
  BY DEF Init
<1>7. DaemonOK
  BY <1>2, <1>3, <1>4, <1>5, <1>6 DEF DaemonOK
<1>8. CallersOK
  BY SchedulerAssumption DEF Init, CallersOK, CallOK
<1> QED BY <1>7, <1>8 DEF Typed

\* A call that ends leaves the others as they are.
LEMMA ResetKeeps ==
    ASSUME CallersOK, NEW x \in Editors, Reset(x), edits' = edits
    PROVE  CallersOK'
<1>1. \A y \in Editors : CallOK(y)'
  BY DEF CallersOK, CallOK, Reset
<1> QED BY <1>1 DEF CallersOK, Reset

\* So does one that goes on with its next edit, or with what follows the edits.
LEMMA AdvanceKeeps ==
    ASSUME CallersOK, NEW x \in Editors, epc[x] \in {"load", "save"},
           NEW hit \in BOOLEAN, Advance(x, hit), edits' = edits
    PROVE  CallersOK'
<1> DEFINE to == AfterEdit(x, hit)
<1>1. CASE to = "idle"  BY <1>1, ResetKeeps DEF Advance
<1>2. CASE to # "idle"
  <2>1. /\ epc' = [epc EXCEPT ![x] = to] /\ todo' = [todo EXCEPT ![x] = Tail(todo[x])]
        /\ eout' = [eout EXCEPT ![x] = {}] /\ removed' = [removed EXCEPT ![x] = hit]
        /\ req' = req
    BY <1>2 DEF Advance
  <2>2. to \in {"load", "trash", "crons"} /\ (to = "load" <=> Len(todo[x]) > 1)
    BY <1>2 DEF AfterEdit
  <2>3. todo[x] \in Seq(EditSteps) /\ Len(todo[x]) > 0
    BY DEF CallersOK, CallOK
  <2>4. /\ Tail(todo[x]) \in Seq(EditSteps)
        /\ Len(Tail(todo[x])) = Len(todo[x]) - 1
        /\ \A i \in 1..Len(Tail(todo[x])) : Tail(todo[x])[i] = todo[x][i + 1]
    BY <2>3
  <2>5. CallOK(x)'
    <3>1. /\ epc'[x] = to /\ todo'[x] = Tail(todo[x]) /\ req'[x] = req[x]
      BY <2>1 DEF CallersOK
    <3>2. /\ req[x] \in Requests
          /\ \A i \in 1..Len(todo[x]) : Suits(todo[x][i], req[x])
      BY DEF CallersOK, CallOK
    <3>3. \A i \in 1..Len(Tail(todo[x])) : Suits(Tail(todo[x])[i], req[x])
      <4> TAKE i \in 1..Len(Tail(todo[x]))
      <4>1. i + 1 \in 1..Len(todo[x])  BY <2>3, <2>4
      <4> QED BY <2>4, <3>2, <4>1
    <3>4. to = "load" => Len(Tail(todo[x])) > 0  BY <2>2, <2>3, <2>4
    <3> HIDE DEF to
    <3> QED BY <2>2, <3>1, <3>2, <3>3, <3>4 DEF CallOK
  <2>6. \A y \in Editors : y # x => CallOK(y)'
    BY <2>1 DEF CallersOK, CallOK
  <2> QED BY <2>1, <2>2, <2>4, <2>5, <2>6 DEF CallersOK
<1> QED BY <1>1, <1>2

LEMMA EditorKeepsCallers ==
    ASSUME Typed, NEW x \in Editors, Editor(x)
    PROVE  CallersOK'
<1>0. CallersOK /\ DaemonOK  BY DEF Typed
<1>1. ASSUME NEW q \in Requests, Begin(x, q) PROVE CallersOK'
  <2>1. /\ EditsOf(q) \in Seq(EditSteps) /\ Len(EditsOf(q)) > 0
        /\ \A i \in 1..Len(EditsOf(q)) : Suits(EditsOf(q)[i], q)
    BY EditsSuit
  <2>2. \A y \in Editors : CallOK(y)'
    BY <1>0, <1>1, <2>1 DEF CallersOK, CallOK, Begin
  <2>3. edits' \in 0..MaxEdits
    BY <1>0, <1>1, SchedulerAssumption DEF CallersOK, Begin
  <2> QED BY <1>0, <1>1, <2>1, <2>2, <2>3 DEF CallersOK, Begin
<1>2. ASSUME PutSkill(x) PROVE CallersOK'
  BY <1>0, <1>2 DEF CallersOK, CallOK, PutSkill
<1>3. ASSUME EditLoad(x) PROVE CallersOK'
  <2> DEFINE q == req[x]
             s == todo[x][1]
  <2>1. epc[x] = "load" /\ edits' = edits  BY <1>3 DEF EditLoad, editVars
  <2>2. q \in Requests /\ s \in EditSteps /\ Suits(s, q) /\ todo[x] \in Seq(EditSteps)
    BY <1>0, <2>1 DEF CallersOK, CallOK
  <2>3. CASE Reset(x)  BY <1>0, <2>1, <2>3, ResetKeeps
  <2>4. CASE Advance(x, removed[x])
    BY <1>0, <2>1, <2>4, AdvanceKeeps DEF CallersOK
  <2>5. CASE /\ eout' = [eout EXCEPT ![x] = Edited(s.op, files[s.kind], q)]
             /\ epc' = [epc EXCEPT ![x] = "save"]
             /\ UNCHANGED <<req, todo, removed>>
    <3>1. Edited(s.op, files[s.kind], q) \subseteq Entries(s.kind)
      BY <1>0, <2>2, FilesOfKind, EditedTyped DEF EditSteps
    <3>2. Entries(s.kind) \subseteq Tasks \cup Entries("cron")
      BY <2>2 DEF EditSteps, Kinds, Tasks
    <3>3. CallOK(x)'
      BY <1>0, <2>1, <2>2, <2>5, <3>1 DEF CallersOK, CallOK
    <3>4. \A y \in Editors : y # x => CallOK(y)'
      BY <1>0, <2>5 DEF CallersOK, CallOK
    <3> QED BY <1>0, <2>1, <2>5, <3>1, <3>2, <3>3, <3>4 DEF CallersOK
  <2> QED BY <1>3, <2>3, <2>4, <2>5 DEF EditLoad
<1>4. ASSUME EditSave(x) PROVE CallersOK'
  <2>1. (removed[x] \/ todo[x][1].op = "remove") \in BOOLEAN /\ epc[x] = "save"
        /\ edits' = edits
    BY <1>4 DEF EditSave
  <2> QED BY <1>0, <1>4, <2>1, AdvanceKeeps DEF EditSave
<1>5. ASSUME CheckBound(x) PROVE CallersOK'
  <2>1. edits' = edits  BY <1>5 DEF CheckBound
  <2>2. CASE Reset(x)  BY <1>0, <2>1, <2>2, ResetKeeps
  <2>3. CASE /\ epc[x] \in {"crons", "tasks"}
             /\ epc' = [epc EXCEPT ![x] = "tasks"] \/ epc' = [epc EXCEPT ![x] = "trash"]
             /\ UNCHANGED <<req, todo, eout, removed>>
    <3>1. \A y \in Editors : CallOK(y)'
      BY <1>0, <2>3 DEF CallersOK, CallOK
    <3> QED BY <1>0, <2>1, <2>3, <3>1 DEF CallersOK
  <2> QED BY <1>5, <2>2, <2>3 DEF CheckBound
<1>6. ASSUME TrashSkill(x) \/ Abort(x) PROVE CallersOK'
  BY <1>0, <1>6, ResetKeeps DEF TrashSkill, Abort
<1> QED BY <1>1, <1>2, <1>3, <1>4, <1>5, <1>6 DEF Editor

LEMMA EditorKeepsDaemon ==
    ASSUME Typed, NEW x \in Editors, Editor(x)
    PROVE  DaemonOK'
<1>0. CallersOK /\ DaemonOK  BY DEF Typed
<1>1. ASSUME UNCHANGED <<now, fileVars, skills, watchVars, timerVars, restarts>>
      PROVE  DaemonOK'
  BY <1>0, <1>1 DEF DaemonOK, fileVars, watchVars, timerVars
<1>2. ASSUME EditSave(x) PROVE DaemonOK'
  <2>1. /\ todo[x][1] \in EditSteps
        /\ eout[x] \subseteq Entries(todo[x][1].kind)
    BY <1>0, <1>2 DEF CallersOK, CallOK, EditSave
  <2>2. files' \in Contents /\ events' \in Nat /\ missed' \in BOOLEAN
    BY <1>0, <1>2, <2>1, WriteFileType DEF EditSave, EditSteps
  <2> QED BY <1>0, <1>2, <2>2 DEF DaemonOK, EditSave, watchVars, timerVars
<1>3. ASSUME PutSkill(x) \/ TrashSkill(x) PROVE DaemonOK'
  <2>1. epc[x] # "idle"  BY <1>3 DEF PutSkill, TrashSkill
  <2>2. req[x].skill \in Skills
    BY <1>0, <2>1, RequestFields DEF CallersOK, CallOK
  <2>3. skills' \subseteq Skills
    BY <1>0, <1>3, <2>2 DEF DaemonOK, PutSkill, TrashSkill
  <2> QED BY <1>0, <1>3, <2>3 DEF DaemonOK, PutSkill, TrashSkill, fileVars, watchVars, timerVars
<1> QED BY <1>1, <1>2, <1>3 DEF Editor, Begin, EditLoad, CheckBound, Abort

LEMMA DaemonKeepsDaemon ==
    ASSUME DaemonOK,
           \/ Watcher \/ Tick \/ Settle \/ Restart
           \/ \E x \in Timers : Fire(x) \/ Callback(x)
    PROVE  DaemonOK'
<1>1. ASSUME Apply PROVE DaemonOK'
  <2>1. \A t \in Tasks : Started(t) => Spare(t) \in TimerIds
    BY <1>1 DEF Apply, Spare
  <2>2. timers' \in [Tasks -> TimerIds \cup {None}]
    BY <1>1, <2>1 DEF Apply, DaemonOK
  <2>3. tpc' \in [Timers -> {"free", "armed", "run", "load", "save", "more", "trash"}]
    BY <1>1 DEF Apply, DaemonOK
  <2>4. cronIDs' \subseteq Entries("cron") /\ read' \in Contents
    BY <1>1 DEF Apply, DaemonOK, Contents, NoFiles
  <2> QED BY <1>1, <2>2, <2>3, <2>4 DEF Apply, DaemonOK, fileVars
<1>2. ASSUME StartWatch \/ SkipEvent \/ TakeEvent PROVE DaemonOK'
  <2>1. watching' \in BOOLEAN /\ recent' \in BOOLEAN /\ missed' \in BOOLEAN
    BY <1>2, Zenon DEF StartWatch, SkipEvent, TakeEvent, DaemonOK, fileVars, watchVars
  <2>2. events' \in Nat
    BY <1>2 DEF StartWatch, SkipEvent, TakeEvent, DaemonOK, fileVars
  <2>3. wpc' \in {wpc, "tasks"}
    BY <1>2 DEF StartWatch, SkipEvent, TakeEvent, watchVars
  <2>4. UNCHANGED <<now, files, read, skills, timers, cronIDs, tpc, tout, restarts>>
    BY <1>2 DEF StartWatch, SkipEvent, TakeEvent, fileVars, watchVars, timerVars
  <2> QED BY <2>1, <2>2, <2>3, <2>4 DEF DaemonOK
<1>3. ASSUME LoadTasks \/ LoadCrons PROVE DaemonOK'
  <2>1. read' \in Contents
    BY <1>3 DEF LoadTasks, LoadCrons, DaemonOK, Contents
  <2> QED BY <1>3, <2>1 DEF LoadTasks, LoadCrons, DaemonOK, fileVars, timerVars
<1>4. ASSUME Tick \/ Settle PROVE DaemonOK'
  <2>1. now' \in 0..MaxTime
    BY <1>4, SchedulerAssumption DEF Tick, Settle, DaemonOK
  <2>2. watching' \in BOOLEAN /\ recent' \in BOOLEAN /\ missed' \in BOOLEAN
    BY <1>4, Zenon DEF Tick, Settle, DaemonOK, fileVars, watchVars
  <2>3. UNCHANGED <<files, events, skills, wpc, read, timers, cronIDs, tpc, tout, restarts>>
    BY <1>4 DEF Tick, Settle, fileVars, watchVars, timerVars
  <2> QED BY <2>1, <2>2, <2>3 DEF DaemonOK
<1>5. ASSUME Restart PROVE DaemonOK'
  <2>1. restarts' \in 0..MaxRestarts /\ events' \in Nat
    BY <1>5, SchedulerAssumption DEF Restart, DaemonOK
  <2>2. watching' \in BOOLEAN /\ recent' \in BOOLEAN /\ missed' \in BOOLEAN
    BY <1>5, Zenon DEF Restart, DaemonOK
  <2>3. /\ timers' \in [Tasks -> TimerIds \cup {None}] /\ cronIDs' \subseteq Entries("cron")
        /\ tpc' \in [Timers -> {"free"}] /\ tout' \in [Timers -> SUBSET Tasks]
    BY <1>5 DEF Restart
  <2>4. read' \in Contents /\ wpc' = "tasks" /\ UNCHANGED <<now, files, skills>>
    BY <1>5 DEF Restart, Contents, NoFiles
  <2> QED BY <2>1, <2>2, <2>3, <2>4 DEF DaemonOK
<1>6. ASSUME NEW x \in Timers, Fire(x) \/ Callback(x) PROVE DaemonOK'
  <2>1. x[1] \in Tasks /\ x[1].skill \in Skills  BY DEF Timers, Tasks, Entries
  <2>2. ASSUME Fire(x) \/ Forget(x) \/ CheckMore(x) PROVE DaemonOK'
    BY <2>1, <2>2 DEF Fire, Forget, CheckMore, Go, DaemonOK, fileVars, watchVars
  <2>3. ASSUME RemoveLoad(x) PROVE DaemonOK'
    <3>1. files["task"] \subseteq Tasks  BY FilesOfKind DEF Kinds, Tasks
    <3>2. tout' \in [Timers -> SUBSET Tasks]
      BY <2>3, <3>1 DEF RemoveLoad, DaemonOK
    <3>3. tpc' \in [Timers -> {"free", "armed", "run", "load", "save", "more", "trash"}]
      BY <2>3 DEF RemoveLoad, Go, DaemonOK
    <3> QED BY <2>3, <3>2, <3>3 DEF RemoveLoad, DaemonOK, fileVars, watchVars
  <2>4. ASSUME RemoveSave(x) PROVE DaemonOK'
    <3>1. tout[x] \subseteq Entries("task")  BY DEF DaemonOK, Tasks
    <3>2. files' \in Contents /\ events' \in Nat /\ missed' \in BOOLEAN
      BY <2>4, <3>1, WriteFileType DEF RemoveSave, Kinds
    <3> QED BY <2>4, <3>2 DEF RemoveSave, Go, DaemonOK, watchVars
  <2>5. ASSUME TrashFired(x) PROVE DaemonOK'
    BY <2>1, <2>5 DEF TrashFired, Go, DaemonOK, fileVars, watchVars
  <2> QED BY <1>6, <2>2, <2>3, <2>4, <2>5 DEF Callback
<1> QED BY <1>1, <1>2, <1>3, <1>4, <1>5, <1>6 DEF Watcher, Reload

LEMMA CallersUntouched ==
    ASSUME CallersOK, UNCHANGED editVars PROVE CallersOK'
BY DEF CallersOK, CallOK, editVars

LEMMA TypedStep == Typed /\ [Next]_vars => Typed'
<1> SUFFICES ASSUME Typed, [Next]_vars PROVE Typed'  OBVIOUS
<1>1. ASSUME NEW x \in Editors, Editor(x) PROVE Typed'
  BY <1>1, EditorKeepsCallers, EditorKeepsDaemon DEF Typed
<1>2. ASSUME \/ Watcher \/ Tick \/ Settle \/ Restart
             \/ \E x \in Timers : Fire(x) \/ Callback(x)
      PROVE  Typed'
  <2>1. UNCHANGED editVars
    BY <1>2 DEF Watcher, Reload, StartWatch, SkipEvent, TakeEvent, LoadTasks, LoadCrons,
                Apply, Tick, Settle, Restart, Fire, Callback, Forget, RemoveLoad,
                RemoveSave, CheckMore, TrashFired
  <2> QED BY <1>2, <2>1, DaemonKeepsDaemon, CallersUntouched DEF Typed
<1>3. CASE UNCHANGED vars
  BY <1>3, CallersUntouched
  DEF Typed, DaemonOK, vars, fileVars, watchVars, timerVars
<1> QED BY <1>1, <1>2, <1>3 DEF Next

\* The variables keep their types, and every call in progress has arguments that
\* fit its remaining edits, so that what it saves is a list of entries of its
\* file's kind.
THEOREM SchedTypeCorrect == Spec => []TypeOK
<1>1. Spec => []Typed
  BY TypedInit, TypedStep, PTL DEF Spec
<1> QED BY <1>1, TypedIsTypeOK, PTL

-----------------------------------------------------------------------------
(* Timers that have yet to fire.                                            *)

\* A callback runs only once its time has come.
FiredInTime == \A x \in Timers : tpc[x] \notin {"free", "armed"} => x[1].when <= now

FutureInv == Typed /\ FiredInTime /\ FutureTimersHeld

LEMMA TimerFields ==
    ASSUME NEW x \in Timers
    PROVE  x[1] \in Tasks /\ x[2] \in TimerIds /\ x = <<x[1], x[2]>> /\ x[1].when \in Nat
BY SchedulerAssumption DEF Timers, Tasks, Entries, When

LEMMA FutureStep == FutureInv /\ [Next]_vars => FutureInv'
<1> SUFFICES ASSUME FutureInv, [Next]_vars PROVE FutureInv'  OBVIOUS
<1>0. /\ Typed /\ DaemonOK /\ FiredInTime /\ FutureTimersHeld
      /\ now \in Nat
      /\ timers \in [Tasks -> TimerIds \cup {None}]
      /\ tpc \in [Timers -> {"free", "armed", "run", "load", "save", "more", "trash"}]
  BY SchedulerAssumption DEF FutureInv, Typed, DaemonOK
<1>t. Typed'  BY <1>0, TypedStep
<1>1. ASSUME UNCHANGED <<now, timers, tpc>> PROVE FiredInTime' /\ FutureTimersHeld'
  BY <1>0, <1>1 DEF FiredInTime, FutureTimersHeld
<1>2. ASSUME Apply PROVE FiredInTime' /\ FutureTimersHeld'
  <2>1. \A x \in Timers : tpc'[x] = IF Stopped(x) THEN "free"
                                   ELSE IF Started(x[1]) /\ x[2] = Spare(x[1]) THEN "armed"
                                   ELSE tpc[x]
    BY <1>2 DEF Apply
  <2>2. FiredInTime'
    BY <1>0, <1>2, <2>1 DEF FiredInTime, Apply
  <2>3. ASSUME NEW x \in Timers, tpc'[x] = "armed", x[1].when > now
        PROVE  timers'[x[1]] = x[2]
    <3>1. /\ x[1] \in Tasks /\ x[2] \in TimerIds /\ x[2] # None
      BY TimerFields, SchedulerAssumption
    <3>2. timers'[x[1]] = IF Started(x[1]) THEN Spare(x[1])
                          ELSE IF Listed(x[1]) THEN timers[x[1]] ELSE None
      BY <1>2, <3>1 DEF Apply
    <3>3. CASE Started(x[1]) /\ x[2] = Spare(x[1])  BY <3>2, <3>3
    <3>4. CASE ~(Started(x[1]) /\ x[2] = Spare(x[1]))
      <4>1. tpc[x] = "armed" /\ ~Stopped(x)  BY <2>1, <2>3, <3>4
      <4>2. timers[x[1]] = x[2]  BY <1>0, <2>3, <4>1 DEF FutureTimersHeld
      <4>3. Listed(x[1]) /\ ~Started(x[1])
        BY <3>1, <4>1, <4>2 DEF Stopped, Started
      <4> QED BY <3>2, <4>2, <4>3
    <3> QED BY <3>3, <3>4
  <2>4. now' = now  BY <1>2 DEF Apply
  <2> QED BY <2>2, <2>3, <2>4 DEF FutureTimersHeld
<1>3. ASSUME NEW x \in Timers, Fire(x) PROVE FiredInTime' /\ FutureTimersHeld'
  BY <1>0, <1>3 DEF FiredInTime, FutureTimersHeld, Fire, Go
<1>4. ASSUME NEW x \in Timers, Forget(x) PROVE FiredInTime' /\ FutureTimersHeld'
  <2>1. x[1] \in Tasks /\ x[1].when \in Nat  BY TimerFields
  <2>2. tpc[x] = "run" /\ tpc' = [tpc EXCEPT ![x] = "load"] /\ now' = now
        /\ timers' = [timers EXCEPT ![x[1]] = None]
    BY <1>4 DEF Forget, Go
  <2>3. x[1].when <= now  BY <1>0, <2>2 DEF FiredInTime
  <2>4. FiredInTime'  BY <1>0, <2>2, <2>3 DEF FiredInTime
  <2>5. ASSUME NEW y \in Timers, tpc'[y] = "armed", y[1].when > now
        PROVE  timers'[y[1]] = y[2]
    <3>1. y[1] \in Tasks /\ y[1] # x[1]  BY <1>0, <2>1, <2>3, <2>5, TimerFields
    <3>2. tpc[y] = "armed"  BY <1>0, <2>2, <2>5
    <3> QED BY <1>0, <2>2, <2>5, <3>1, <3>2 DEF FutureTimersHeld
  <2> QED BY <2>2, <2>4, <2>5 DEF FutureTimersHeld
<1>5. ASSUME NEW x \in Timers, Callback(x), ~Forget(x)
      PROVE  FiredInTime' /\ FutureTimersHeld'
  <2>1. /\ tpc[x] \notin {"free", "armed"} /\ UNCHANGED <<now, timers>>
        /\ \E to \in {"free", "save", "more", "trash"} : tpc' = [tpc EXCEPT ![x] = to]
    BY <1>5 DEF Callback, RemoveLoad, RemoveSave, CheckMore, TrashFired, Go
  <2> QED BY <1>0, <2>1 DEF FiredInTime, FutureTimersHeld
<1>6. ASSUME Tick PROVE FiredInTime' /\ FutureTimersHeld'
  <2>1. now' = now + 1 /\ UNCHANGED <<timers, tpc>>  BY <1>6 DEF Tick, timerVars
  <2>2. \A x \in Timers : x[1].when \in Nat  BY TimerFields
  <2> QED BY <1>0, <2>1, <2>2 DEF FiredInTime, FutureTimersHeld
<1>7. ASSUME Restart PROVE FiredInTime' /\ FutureTimersHeld'
  BY <1>7 DEF Restart, FiredInTime, FutureTimersHeld
<1>8. ASSUME NEW x \in Editors, Editor(x) PROVE UNCHANGED <<now, timers, tpc>>
  BY <1>8 DEF Editor, Begin, PutSkill, EditLoad, EditSave, CheckBound, TrashSkill, Abort,
              timerVars
<1>9. ASSUME StartWatch \/ SkipEvent \/ TakeEvent \/ LoadTasks \/ LoadCrons \/ Settle
      PROVE  UNCHANGED <<now, timers, tpc>>
  BY <1>9 DEF StartWatch, SkipEvent, TakeEvent, LoadTasks, LoadCrons, Settle, timerVars
<1>10. ASSUME UNCHANGED vars PROVE FiredInTime' /\ FutureTimersHeld'
  BY <1>1, <1>10 DEF vars, timerVars
<1>11. FiredInTime' /\ FutureTimersHeld'
  <2>1. CASE Watcher  BY <1>1, <1>2, <1>9, <2>1 DEF Watcher, Reload
  <2>2. CASE \E x \in Timers : Fire(x) \/ Callback(x)
    BY <1>3, <1>4, <1>5, <2>2
  <2>3. CASE \E x \in Editors : Editor(x)  BY <1>1, <1>8, <2>3
  <2>4. CASE Tick \/ Settle \/ Restart  BY <1>1, <1>6, <1>7, <1>9, <2>4
  <2> QED BY <1>10, <2>1, <2>2, <2>3, <2>4 DEF Next
<1> QED BY <1>t, <1>11 DEF FutureInv

\* A timer that has yet to fire is the one in the map, for its reload to stop:
\* callbacks drop entries of the map only when their own time has passed.
THEOREM FutureTimers == Spec => []FutureTimersHeld
<1>1. Init => FutureInv
  BY TypedInit DEF Init, FutureInv, FiredInTime, FutureTimersHeld
<1>2. FutureInv => FutureTimersHeld  BY DEF FutureInv
<1> QED BY <1>1, <1>2, FutureStep, PTL DEF Spec

-----------------------------------------------------------------------------
(* The watcher and the files.                                               *)

Quiet == events = 0 /\ ~missed

\* What a reload has loaded is the file, unless an event waits or was missed.
ReadIsFile ==
    /\ wpc \in {"crons", "apply"} /\ Quiet => read["task"] = files["task"]
    /\ wpc = "apply" /\ Quiet => read["cron"] = files["cron"]

FilesInv == Typed /\ ReadIsFile /\ TimersMatchFile

\* A write is an event to come or a write missed.
LEMMA WriteNotQuiet ==
    ASSUME DaemonOK, NEW k, NEW c, WriteFile(k, c)
    PROVE  ~Quiet'
<1>1. CASE watching
  <2>1. events' = events + 1  BY <1>1 DEF WriteFile
  <2> QED BY <2>1 DEF DaemonOK, Quiet
<1>2. CASE ~watching
  <2>1. missed'  BY <1>2, Zenon DEF WriteFile
  <2> QED BY <2>1 DEF Quiet
<1> QED BY <1>1, <1>2

LEMMA FilesStep == FilesInv /\ [Next]_vars => FilesInv'
<1> SUFFICES ASSUME FilesInv, [Next]_vars PROVE FilesInv'  OBVIOUS
<1>0. /\ Typed /\ DaemonOK /\ ReadIsFile /\ TimersMatchFile
      /\ timers \in [Tasks -> TimerIds \cup {None}]
      /\ tpc \in [Timers -> {"free", "armed", "run", "load", "save", "more", "trash"}]
      /\ files["task"] \subseteq Tasks
  BY FilesOfKind DEF FilesInv, Typed, DaemonOK, Kinds, Tasks
<1>t. Typed'  BY <1>0, TypedStep
<1>1. ASSUME UNCHANGED <<files, events, missed, wpc, read, timers, cronIDs, tpc>>
      PROVE  ReadIsFile' /\ TimersMatchFile'
  BY <1>0, <1>1 DEF ReadIsFile, TimersMatchFile, CaughtUp, Quiet, Timed, Forgotten
<1>2. ASSUME ~Quiet' PROVE ReadIsFile' /\ TimersMatchFile'
  BY <1>2 DEF ReadIsFile, TimersMatchFile, CaughtUp, Quiet
<1>3. ASSUME NEW x \in Editors, Editor(x) PROVE ReadIsFile' /\ TimersMatchFile'
  <2>1. CASE EditSave(x)
    BY <1>0, <1>2, <2>1, WriteNotQuiet DEF EditSave
  <2>2. CASE ~EditSave(x)
    BY <1>1, <1>3, <2>2 DEF Editor, Begin, PutSkill, EditLoad, CheckBound, TrashSkill,
                             Abort, fileVars, watchVars, timerVars
  <2> QED BY <2>1, <2>2
<1>4. ASSUME StartWatch \/ Settle \/ Tick PROVE ReadIsFile' /\ TimersMatchFile'
  BY <1>1, <1>4 DEF StartWatch, Settle, Tick, fileVars, watchVars, timerVars
<1>5. ASSUME SkipEvent PROVE ReadIsFile' /\ TimersMatchFile'
  <2>1. missed'  BY <1>5, Zenon DEF SkipEvent
  <2> QED BY <1>2, <2>1 DEF Quiet
<1>6. ASSUME TakeEvent \/ Restart PROVE ReadIsFile' /\ TimersMatchFile'
  <2>1. wpc' = "tasks"  BY <1>6 DEF TakeEvent, Restart
  <2> QED BY <2>1 DEF ReadIsFile, TimersMatchFile, CaughtUp
<1>7. ASSUME LoadTasks PROVE ReadIsFile' /\ TimersMatchFile'
  <2>1. wpc' = "crons" /\ files' = files /\ read'["task"] = files["task"]
    BY <1>0, <1>7 DEF LoadTasks, DaemonOK, Contents
  <2> QED BY <2>1 DEF ReadIsFile, TimersMatchFile, CaughtUp
<1>8. ASSUME LoadCrons PROVE ReadIsFile' /\ TimersMatchFile'
  <2>1. /\ wpc = "crons" /\ wpc' = "apply" /\ UNCHANGED fileVars
        /\ read'["cron"] = files["cron"] /\ read'["task"] = read["task"]
    BY <1>0, <1>8 DEF LoadCrons, DaemonOK, Contents
  <2>2. Quiet' => Quiet  BY <2>1 DEF Quiet, fileVars
  <2> QED BY <1>0, <2>1, <2>2 DEF ReadIsFile, TimersMatchFile, CaughtUp, fileVars
<1>9. ASSUME Apply PROVE ReadIsFile' /\ TimersMatchFile'
  <2>1. wpc = "apply" /\ wpc' = "idle" /\ UNCHANGED fileVars /\ cronIDs' = read["cron"]
    BY <1>9 DEF Apply
  <2>2. ASSUME CaughtUp'
        PROVE  Timed' = files["task"] /\ cronIDs' = files["cron"]
    <3>1. Quiet  BY <2>1, <2>2 DEF Quiet, CaughtUp, fileVars
    <3>2. read["task"] = files["task"] /\ read["cron"] = files["cron"]
      BY <1>0, <2>1, <3>1 DEF ReadIsFile
    <3>3. \A t \in Tasks : Started(t) => Spare(t) # None
      BY <1>9, SchedulerAssumption DEF Apply, Spare
    <3>4. \A t \in Tasks : timers'[t] # None <=> t \in read["task"]
      BY <1>9, <3>3 DEF Apply, Started, Listed
    <3> QED BY <1>0, <2>1, <3>2, <3>4 DEF Timed
  <2>3. TimersMatchFile'  BY <2>1, <2>2 DEF TimersMatchFile, fileVars
  <2> QED BY <2>1, <2>3 DEF ReadIsFile
<1>10. ASSUME NEW x \in Timers, RemoveSave(x) PROVE ReadIsFile' /\ TimersMatchFile'
  BY <1>0, <1>2, <1>10, WriteNotQuiet DEF RemoveSave
<1>11. ASSUME NEW x \in Timers, Forget(x) PROVE ReadIsFile' /\ TimersMatchFile'
  <2>1. /\ tpc' = [tpc EXCEPT ![x] = "load"] /\ timers' = [timers EXCEPT ![x[1]] = None]
        /\ UNCHANGED <<files, events, missed, wpc, read, cronIDs>>
    BY <1>11 DEF Forget, Go, fileVars, watchVars
  <2>2. x[1] \in Tasks /\ x[2] \in TimerIds /\ x = <<x[1], x[2]>>  BY TimerFields
  <2>3. Timed' = Timed \ {x[1]}  BY <1>0, <2>1, <2>2 DEF Timed
  <2>4. x[1] \in Forgotten'
    BY <1>0, <2>1, <2>2 DEF Forgotten
  <2>5. Forgotten \subseteq Forgotten'
    <3> SUFFICES ASSUME NEW t \in Tasks, NEW i \in TimerIds, tpc[<<t, i>>] \in {"load", "save"}
                 PROVE  tpc'[<<t, i>>] \in {"load", "save"}
      BY DEF Forgotten
    <3>1. <<t, i>> \in Timers  BY DEF Timers
    <3> QED BY <1>0, <2>1, <3>1
  <2> QED BY <1>0, <2>1, <2>3, <2>4, <2>5 DEF ReadIsFile, TimersMatchFile, CaughtUp, Quiet
<1>12. ASSUME NEW x \in Timers, RemoveLoad(x) PROVE ReadIsFile' /\ TimersMatchFile'
  <2>1. /\ UNCHANGED <<files, events, missed, wpc, read, timers, cronIDs>>
        /\ tpc[x] = "load"
        /\ \/ SameTimeSkill(x[1]) = {} /\ tpc' = [tpc EXCEPT ![x] = "more"]
           \/ tpc' = [tpc EXCEPT ![x] = "save"]
    BY <1>12 DEF RemoveLoad, Go, fileVars, watchVars
  <2>2. x[1] \in files["task"] => tpc' = [tpc EXCEPT ![x] = "save"]
    BY <2>1 DEF SameTimeSkill
  <2>3. \A t \in files["task"] : t \in Forgotten => t \in Forgotten'
    <3> SUFFICES ASSUME NEW t \in files["task"], t \in Tasks, NEW i \in TimerIds,
                        tpc[<<t, i>>] \in {"load", "save"}
                 PROVE  tpc'[<<t, i>>] \in {"load", "save"}
      BY DEF Forgotten
    <3>1. <<t, i>> \in Timers /\ <<t, i>>[1] = t  BY DEF Timers
    <3>2. CASE <<t, i>> = x
      <4>1. tpc' = [tpc EXCEPT ![x] = "save"]  BY <2>2, <3>1, <3>2
      <4> QED BY <1>0, <3>1, <3>2, <4>1
    <3>3. CASE <<t, i>> # x  BY <1>0, <2>1, <3>1, <3>3
    <3> QED BY <3>2, <3>3
  <2>4. Timed' = Timed  BY <2>1 DEF Timed
  <2> QED BY <1>0, <2>1, <2>3, <2>4 DEF ReadIsFile, TimersMatchFile, CaughtUp, Quiet
<1>13. ASSUME NEW x \in Timers, Fire(x) \/ CheckMore(x) \/ TrashFired(x)
       PROVE  ReadIsFile' /\ TimersMatchFile'
  <2>1. /\ UNCHANGED <<files, events, missed, wpc, read, timers, cronIDs>>
        /\ tpc[x] \in {"armed", "more", "trash"}
        /\ \E to \in {"run", "free", "trash"} : tpc' = [tpc EXCEPT ![x] = to]
    BY <1>13 DEF Fire, CheckMore, TrashFired, Go, fileVars, watchVars
  <2>2. Forgotten' = Forgotten
    <3> SUFFICES ASSUME NEW t \in Tasks, NEW i \in TimerIds
                 PROVE  tpc'[<<t, i>>] \in {"load", "save"} <=> tpc[<<t, i>>] \in {"load", "save"}
      BY DEF Forgotten
    <3>1. <<t, i>> \in Timers  BY DEF Timers
    <3> QED BY <1>0, <2>1, <3>1
  <2>3. Timed' = Timed  BY <2>1 DEF Timed
  <2> QED BY <1>0, <2>1, <2>2, <2>3 DEF ReadIsFile, TimersMatchFile, CaughtUp, Quiet
<1>14. ASSUME UNCHANGED vars PROVE ReadIsFile' /\ TimersMatchFile'
  BY <1>1, <1>14 DEF vars, fileVars, watchVars, timerVars
<1>15. ReadIsFile' /\ TimersMatchFile'
  <2>1. CASE Watcher  BY <1>4, <1>5, <1>6, <1>7, <1>8, <1>9, <2>1 DEF Watcher, Reload
  <2>2. CASE \E x \in Timers : Fire(x) \/ Callback(x)
    BY <1>10, <1>11, <1>12, <1>13, <2>2 DEF Callback
  <2>3. CASE \E x \in Editors : Editor(x)  BY <1>3, <2>3
  <2>4. CASE Tick \/ Settle \/ Restart  BY <1>4, <1>6, <2>4
  <2> QED BY <1>14, <2>1, <2>2, <2>3, <2>4 DEF Next
<1> QED BY <1>t, <1>15 DEF FilesInv

\* Whoever rewrites the two files, and however their reads and writes overlap
\* with each other, with callbacks and with a reload, a watcher that has caught
\* up has the timers and the crons of the files.
THEOREM FilesAndTimers == Spec => []TimersMatchFile
<1>1. Init => FilesInv
  BY TypedInit DEF Init, FilesInv, ReadIsFile, TimersMatchFile, CaughtUp
<1>2. FilesInv => TimersMatchFile  BY DEF FilesInv
<1> QED BY <1>1, <1>2, FilesStep, PTL DEF Spec

-----------------------------------------------------------------------------
(* SessionMemory: the history, its rows and its summary. *)

MemoryConstants ==
    /\ IsFiniteSet(Writers)
    /\ MaxRecords \in Nat /\ KeepRecords \in 0 .. MaxRecords
    /\ TailLen \in Nat /\ ChunkLen \in Nat \ {0}
    /\ MaxSecond \in Nat \ {0}

Saving == [kind : WriterKinds, sent : Second, at : Second, mu : Nat, latest : Seq(Records),
           pc : {"idle", "running", "lock", "write", "done"}]
Generating == [pc : {"idle", "read", "decide", "call", "cursor", "ended", "failed"},
               hist : Seq(Records), base : SUBSET Records, since : Nat, from : Nat, upto : Nat,
               rest : Seq(Records), chunk : Seq(Records), raced : BOOLEAN]
Job == [pc : {"idle", "summary", "compact", "check", "remove", "clear", "delete", "rmdir", "sync",
              "retain"},
        cmd : Commands \cup {""}, at : {"web", "tui", ""}, old : Seq(Records),
        lines : SUBSET Writers]

SessionTypes ==
    /\ file \in Seq(Records) /\ rows \in SUBSET Records /\ log \in SUBSET Writers
    /\ mutex \in Nat /\ saves \in [Writers -> Saving] /\ clock \in Second /\ overtaken \in BOOLEAN
    /\ summary \in {<< >>} \cup {<< x >> : x \in SUBSET Records}
    /\ cursor \in Nat /\ gen \in [Jobs -> Generating] /\ job \in Job
    /\ commands \in Seq([cmd : Commands, at : {"web", "tui"}])
    /\ adopted \in BOOLEAN

\* Records are of writers that have done: their times are settled.
Settled(s) == \A r \in Range(s) : saves[r.by].pc = "done"
DoneInv ==
    /\ Settled(file) /\ Settled(job.old)
    /\ \A w \in Writers : Settled(saves[w].latest)

\* The mutex in the map is that of every writer, and one at most has it.
MutexInv ==
    /\ ~overtaken => \A w \in Writers :
          saves[w].pc \in {"lock", "write"} => saves[w].mu = mutex /\ mutex # 0
    /\ \A v, w \in Writers :
          saves[v].pc = "write" /\ saves[w].pc = "write" /\ saves[v].mu = saves[w].mu => v = w

\* What it has read is what is on file.
LatestInv ==
    ~overtaken => \A w \in Writers : saves[w].pc = "write" => saves[w].latest = file

\* A compaction puts back what the store has rows of; while it has none, nothing was saved.
RowsInv ==
    /\ RowsFollow
    /\ job.pc = "compact" /\ ~overtaken =>
          IF rows = {} THEN Range(job.old) = Range(file) ELSE Range(job.old) \subseteq rows

\* What a Generate has still to merge into the summary.
Left(g) == IF g.pc = "cursor"
           THEN {g.rest[i] : i \in Len(g.chunk) + 1 .. Len(g.rest)} ELSE Range(g.rest)
Covered(r) ==
    r \in (UNION Range(summary)) \/ r \in noise \/ TimeOf(r) <= gen["command"].since

\* A reset that keeps the summary: all it has read is covered or still to come.
CoverInv ==
    job.cmd = "keep" /\ job.pc \in {"summary", "check", "remove"}
    /\ ~gen["command"].raced /\ ~adopted =>
        LET g == gen["command"] IN
        /\ job.pc = "summary" =>
              /\ g.pc = "read" => g.hist = job.old
              /\ g.pc \in {"decide", "call", "cursor"} =>
                    /\ summary = << g.base >>
                    /\ \A r \in Range(job.old) : r \in Left(g) \/ Covered(r)
              /\ g.pc = "ended" => \A r \in Range(job.old) : Covered(r)
        /\ job.pc # "summary" =>
              /\ \A r \in Range(job.old) : Covered(r)
              /\ job.old # << >> => g.pc = "ended"

SessionInv == SessionTypes /\ DoneInv /\ MutexInv /\ LatestInv /\ RowsInv /\ CoverInv

-----------------------------------------------------------------------------
(* What the parts of the model return. *)

LEMMA PickRange ==
    ASSUME NEW s \in Seq(Records), NEW S, S \subseteq 1 .. Len(s)
    PROVE  /\ Pick(s, S) \in Seq(Records)
           /\ \A r : r \in Range(Pick(s, S)) <=> \E i \in S : s[i] = r
<1>1. S \subseteq DOMAIN s  OBVIOUS
<1> PICK p : p = Pick(s, S)  OBVIOUS
<1> PICK c : c = Cardinality(S)  OBVIOUS
<1>2. /\ p \in Seq(Records) /\ Len(p) = c /\ c \in Nat
      /\ \A k \in 1 .. c : Nth(S, k) \in S /\ p[k] = s[Nth(S, k)]
  BY <1>1, PickProperties
<1>3. \A i \in S : Rank(S, i) \in 1 .. c /\ p[Rank(S, i)] = s[i]
  BY <1>1, PickProperties
<1>4. DOMAIN p = 1 .. c  BY <1>2
<1>5. ASSUME NEW r, r \in Range(p) PROVE \E i \in S : s[i] = r
  <2>1. PICK k \in 1 .. c : r = p[k]  BY <1>4, <1>5 DEF Range
  <2> QED  BY <1>2, <2>1
<1>6. ASSUME NEW i \in S PROVE s[i] \in Range(p)
  <2>1. Rank(S, i) \in DOMAIN p /\ p[Rank(S, i)] = s[i]  BY <1>3, <1>4
  <2> QED  BY <2>1 DEF Range
<1> QED  BY <1>2, <1>5, <1>6

LEMMA WithoutIs ==
    ASSUME NEW s \in Seq(Records), NEW out
    PROVE  /\ Without(s, out) \in Seq(Records)
           /\ \A r : r \in Range(Without(s, out)) <=> r \in Range(s) /\ r \notin out
<1> DEFINE S == {i \in 1 .. Len(s) : s[i] \notin out}
<1>1. S \subseteq 1 .. Len(s)  OBVIOUS
<1>2. /\ Without(s, out) \in Seq(Records)
      /\ \A r : r \in Range(Without(s, out)) <=> \E i \in S : s[i] = r
  <2> HIDE DEF S
  <2>1. Without(s, out) = Pick(s, S)  BY DEF Without, S
  <2> QED  BY <1>1, <2>1, PickRange
<1>3. \A r : r \in Range(s) <=> \E i \in 1 .. Len(s) : s[i] = r  BY DEF Range
<1> QED  BY <1>2, <1>3

LEMMA TimesAre ==
    ASSUME MemoryConstants, SessionTypes, NEW r \in Records
    PROVE  TimeOf(r) \in 1 .. MaxSecond /\ TimeOf(r) \in Nat
BY DEF MemoryConstants, SessionTypes, Records, Saving, Second, TimeOf

LEMMA SinceIs ==
    ASSUME MemoryConstants, SessionTypes, NEW s \in Seq(Records)
    PROVE  /\ SinceCursor(s) \in Seq(Records)
           /\ Range(SinceCursor(s)) \subseteq Range(s)
           /\ \A r \in Range(s) : r \in Range(SinceCursor(s)) \/ TimeOf(r) <= cursor
<1>1. CASE cursor = 0  BY <1>1 DEF SinceCursor
<1>2. CASE cursor # 0
  <2> DEFINE S == {i \in 1 .. Len(s) : TimeOf(s[i]) > cursor}
  <2>1. S \subseteq 1 .. Len(s)  OBVIOUS
  <2>2. /\ SinceCursor(s) \in Seq(Records)
        /\ \A r : r \in Range(SinceCursor(s)) <=> \E i \in S : s[i] = r
    <3> HIDE DEF S
    <3>1. SinceCursor(s) = Pick(s, S)  BY <1>2 DEF SinceCursor, S
    <3> QED  BY <2>1, <3>1, PickRange
  <2>3. \A r : r \in Range(s) <=> \E i \in 1 .. Len(s) : s[i] = r  BY DEF Range
  <2>4. ASSUME NEW i \in 1 .. Len(s), i \notin S PROVE TimeOf(s[i]) <= cursor
    <3>1. s[i] \in Records  OBVIOUS
    <3>2. TimeOf(s[i]) \in Nat /\ cursor \in Nat  BY <3>1, TimesAre DEF SessionTypes
    <3>3. ~(TimeOf(s[i]) > cursor)  BY <2>4
    <3> QED  BY <3>2, <3>3
  <2> HIDE DEF S
  <2>5. \A i \in S : i \in 1 .. Len(s)  BY <2>1
  <2> QED  BY <2>2, <2>3, <2>4, <2>5
<1> QED  BY <1>1, <1>2

LEMMA LatestIs ==
    ASSUME MemoryConstants, SessionTypes, NEW s \in Seq(Records)
    PROVE  Latest(s) \in Nat
<1>1. CASE s = << >>  BY <1>1 DEF Latest
<1>2. CASE s # << >>
  <2> PICK T : T = {TimeOf(r) : r \in Range(s)}  OBVIOUS
  <2>1. T \subseteq 0 .. MaxSecond
    <3>1. \A r \in Range(s) : r \in Records  BY DEF Range
    <3>2. \A r \in Records : TimeOf(r) \in 1 .. MaxSecond  BY TimesAre
    <3> QED  BY <3>1, <3>2
  <2>2. T # {}
    <3>1. s[1] \in Range(s)  BY <1>2 DEF Range
    <3> QED  BY <3>1
  <2>3. \E x \in T : \A y \in T : y <= x  BY <2>1, <2>2, Greatest DEF MemoryConstants
  <2>4. PICK x \in T : \A y \in T : y <= x  BY <2>3
  <2>5. x \in Nat /\ \A y \in T : y \in Nat
    <3>1. \A y \in 0 .. MaxSecond : y \in Nat  BY DEF MemoryConstants
    <3>2. x \in T  BY <2>4
    <3> QED  BY <2>1, <3>1, <3>2
  <2>6. \A y \in T : x >= y  BY <2>4, <2>5
  <2>7. Max(T) \in T  BY <2>6 DEF Max
  <2> QED  BY <1>2, <2>5, <2>7 DEF Latest
<1> QED  BY <1>1, <1>2

LEMMA LargerIs ==
    ASSUME NEW a \in Nat, NEW b \in Nat
    PROVE  Max({a, b}) \in Nat /\ Min({a, b}) \in Nat /\ Min({a, b}) <= a /\ Min({a, b}) <= b
<1>1. \E x \in {a, b} : \A y \in {a, b} : x >= y
  <2>1. CASE a >= b  BY <2>1
  <2>2. CASE ~(a >= b)  BY <2>2
  <2> QED  BY <2>1, <2>2
<1>2. \E x \in {a, b} : \A y \in {a, b} : x <= y
  <2>1. CASE a <= b  BY <2>1
  <2>2. CASE ~(a <= b)  BY <2>2
  <2> QED  BY <2>1, <2>2
<1>3. Max({a, b}) \in {a, b}  BY <1>1 DEF Max
<1>4. Min({a, b}) \in {a, b} /\ \A y \in {a, b} : Min({a, b}) <= y  BY <1>2 DEF Min
<1> QED  BY <1>3, <1>4

LEMMA ChunkIs ==
    ASSUME MemoryConstants, NEW s \in Seq(Records)
    PROVE  \E k \in 0 .. Len(s) : ChunkOf(s) = SubSeq(s, 1, k)
<1> PICK n \in Nat : n = Min({ChunkLen, Len(s)}) /\ n <= Len(s)
  BY LargerIs DEF MemoryConstants
<1>1. ChunkOf(s) = SubSeq(s, 1, IF n < Len(s) /\ s[n].role = "user" THEN n + 1 ELSE n)
  BY DEF ChunkOf
<1> PICK k : k = IF n < Len(s) /\ s[n].role = "user" THEN n + 1 ELSE n  OBVIOUS
<1>2. k \in 0 .. Len(s)  OBVIOUS
<1> QED  BY <1>1, <1>2

LEMMA LastIs ==
    ASSUME NEW s \in Seq(Records), NEW n \in Nat
    PROVE  LastOf(s, n) \in Seq(Records) /\ Range(LastOf(s, n)) \subseteq Range(s)
<1>1. CASE Len(s) > n
  <2>1. LastOf(s, n) = SubSeq(s, Len(s) - n + 1, Len(s))  BY <1>1 DEF LastOf
  <2>2. Len(s) - n + 1 \in 1 .. Len(s) + 1  BY <1>1
  <2>3. LastOf(s, n) \in Seq(Records)  BY <2>1, <2>2
  <2>4. \A i \in DOMAIN LastOf(s, n) : \E j \in DOMAIN s : LastOf(s, n)[i] = s[j]
    <3> PICK a \in 1 .. Len(s) + 1 : a = Len(s) - n + 1  BY <2>2
    <3> PICK t : t = SubSeq(s, a, Len(s))  OBVIOUS
    <3>1. DOMAIN t = 1 .. Len(s) - a + 1 /\ \A i \in 1 .. Len(s) - a + 1 : t[i] = s[a + i - 1]
      OBVIOUS
    <3>2. \A i \in 1 .. Len(s) - a + 1 : a + i - 1 \in DOMAIN s  OBVIOUS
    <3> QED  BY <2>1, <3>1, <3>2
  <2> QED  BY <2>3, <2>4 DEF Range
<1>2. CASE ~(Len(s) > n)  BY <1>2 DEF LastOf
<1> QED  BY <1>1, <1>2

\* There is a mutex nobody uses.
LEMMA MutexIs ==
    ASSUME MemoryConstants, SessionTypes
    PROVE  LoadOrStore \in Nat /\ (mutex # 0 => LoadOrStore = mutex) /\ LoadOrStore # 0
<1>1. CASE mutex # 0  BY <1>1 DEF LoadOrStore, SessionTypes
<1>2. CASE mutex = 0
  <2> PICK N \in Nat : N = Cardinality(Writers) + 1
    BY FS_CardinalityType DEF MemoryConstants
  <2> PICK D : D = {v \in Writers : saves[v].pc \in {"lock", "write"}}  OBVIOUS
  <2> DEFINE f == [w \in D |-> saves[w].mu]
  <2>1. IsFiniteSet(D) /\ Cardinality(D) <= Cardinality(Writers) /\ Cardinality(D) \in Nat
    BY FS_Subset, FS_CardinalityType DEF MemoryConstants
  <2>2. f \in Surjection(D, InUse)  BY DEF Surjection, InUse
  <2>3. IsFiniteSet(InUse) /\ Cardinality(InUse) <= Cardinality(D) /\ Cardinality(InUse) \in Nat
    <3> HIDE DEF f
    <3> QED  BY <2>1, <2>2, FS_Surjection, FS_CardinalityType
  <2>4. Cardinality(1 .. N) = N  BY FS_Interval
  <2>5. ~(1 .. N \subseteq InUse)
    <3> SUFFICES ASSUME 1 .. N \subseteq InUse PROVE FALSE  OBVIOUS
    <3>1. Cardinality(1 .. N) <= Cardinality(InUse)  BY <2>3, FS_Subset
    <3>2. Cardinality(Writers) \in Nat  BY FS_CardinalityType DEF MemoryConstants
    <3> QED  BY <2>1, <2>3, <2>4, <3>1, <3>2
  <2>6. \E n \in 1 .. N : n \notin InUse  BY <2>5
  <2>7. LoadOrStore \in 1 .. N  BY <1>2, <2>6 DEF LoadOrStore
  <2> QED  BY <1>2, <2>7
<1> QED  BY <1>1, <1>2

LEMMA NoRecords == \E none : none = << >> /\ none \in Seq(Records) /\ Range(none) = {}
<1>1. << >> \in Seq(Records)  OBVIOUS
<1>2. Range(<< >>) = {}  BY DEF Range
<1> QED  BY <1>1, <1>2

\* A Generate is over.
LEMMA EndIs ==
    ASSUME SessionTypes, NEW j \in Jobs, NEW over \in {"ended", "failed"}
    PROVE  \E g \in Generating :
              /\ End(j, over) = [gen EXCEPT ![j] = g]
              /\ g.pc = over /\ g.since = gen[j].since /\ g.raced = gen[j].raced
              /\ g.hist = gen[j].hist
<1> PICK o \in Generating : o = gen[j]  BY DEF SessionTypes
<1> PICK none \in Seq(Records) : none = << >>  BY NoRecords
<1> PICK base \in SUBSET Records : base = {}  OBVIOUS
<1> DEFINE g == [o EXCEPT !.pc = over, !.rest = none, !.chunk = none, !.base = base,
                          !.upto = 0, !.from = 0]
<1>1. g \in Generating /\ g.pc = over /\ g.since = o.since /\ g.raced = o.raced /\ g.hist = o.hist
  BY DEF Generating
<1>2. End(j, over) = [gen EXCEPT ![j] = g]  BY DEF End
<1> QED  BY <1>1, <1>2

\* Whoever writes the summary overtakes the others.
LEMMA RaceIs ==
    ASSUME NEW all \in [Jobs -> Generating], NEW j \in Jobs
    PROVE  /\ Race(all, j) \in [Jobs -> Generating] /\ Race(all, j)[j] = all[j]
           /\ \A k \in Jobs : /\ Race(all, j)[k].pc = all[k].pc
                              /\ Race(all, j)[k].since = all[k].since
                              /\ Race(all, j)[k] = all[k] \/ Race(all, j)[k].raced
                              /\ k # j /\ all[k].pc # "idle" => Race(all, j)[k].raced
<1>1. ASSUME NEW k \in Jobs
      PROVE  /\ [all[k] EXCEPT !.raced = TRUE] \in Generating
             /\ [all[k] EXCEPT !.raced = TRUE].pc = all[k].pc
             /\ [all[k] EXCEPT !.raced = TRUE].since = all[k].since
             /\ [all[k] EXCEPT !.raced = TRUE].raced
  <2> PICK o \in Generating : o = all[k]  OBVIOUS
  <2> QED  BY DEF Generating
<1> QED  BY <1>1 DEF Race

\* What is not in the chunk comes after it.
LEMMA SplitIs ==
    ASSUME MemoryConstants, NEW s \in Seq(Records), NEW chunk, chunk = ChunkOf(s)
    PROVE  \A r \in Range(s) : r \in Range(chunk) \/ r \in {s[i] : i \in Len(chunk) + 1 .. Len(s)}
<1> PICK k \in 0 .. Len(s) : chunk = SubSeq(s, 1, k)  BY ChunkIs
<1>1. chunk \in Seq(Records) /\ Len(chunk) = k /\ \A i \in 1 .. k : chunk[i] = s[i]
  OBVIOUS
<1>2. DOMAIN chunk = 1 .. k /\ DOMAIN s = 1 .. Len(s)  BY <1>1
<1>3. ASSUME NEW i \in 1 .. Len(s)
      PROVE  s[i] \in Range(chunk) \/ s[i] \in {s[x] : x \in k + 1 .. Len(s)}
  <2>1. CASE i \in 1 .. k  BY <1>1, <1>2, <2>1 DEF Range
  <2>2. CASE i \in k + 1 .. Len(s)  BY <2>2
  <2> QED  BY <2>1, <2>2
<1> QED  BY <1>1, <1>2, <1>3 DEF Range

-----------------------------------------------------------------------------
(* Types. *)

\* The size compaction leaves something, all of it the newest.
LEMMA CutIs ==
    ASSUME MemoryConstants, NEW s \in Seq(Records), s # << >>
    PROVE  Cut(s) \in 0 .. Len(s) - 1
<1>0. Len(s) \in Nat /\ Len(s) > 0  OBVIOUS
<1> PICK need \in Int : need = Len(s) - KeepRecords  BY <1>0 DEF MemoryConstants
<1> PICK ends : ends = {i \in need .. Len(s) : s[i].role = "assistant"}  OBVIOUS
<1>1. Cut(s) = IF Len(s) <= MaxRecords \/ Len(s) < 4 \/ ends = {} THEN 0
               ELSE LET i == CHOOSE j \in ends : \A k \in ends : j <= k
                    IN IF i >= Len(s) THEN 0 ELSE i
  BY DEF Cut
<1>2. CASE Len(s) <= MaxRecords \/ Len(s) < 4 \/ ends = {}  BY <1>0, <1>1, <1>2
<1>3. CASE ~(Len(s) <= MaxRecords \/ Len(s) < 4 \/ ends = {})
  <2>1. need >= 1  BY <1>0, <1>3 DEF MemoryConstants
  <2>2. ends \subseteq Nat /\ \A k \in ends : k >= 1 /\ k \in Nat  BY <2>1
  <2>3. \E j \in ends : \A k \in ends : j <= k  BY <1>3, <2>2, Least
  <2> PICK i : i = CHOOSE j \in ends : \A k \in ends : j <= k  OBVIOUS
  <2>4. i \in ends  BY <2>3
  <2>5. Cut(s) = IF i >= Len(s) THEN 0 ELSE i  BY <1>1, <1>3
  <2> QED  BY <1>0, <2>2, <2>4, <2>5
<1> QED  BY <1>2, <1>3

LEMMA DeltaIs ==
    ASSUME SessionTypes, NEW w \in Writers
    PROVE  /\ Delta(w) \in Seq(Records) /\ Len(Delta(w)) \in 1 .. 2
           /\ \A r \in Range(Delta(w)) : r.by = w
<1>1. saves[w].kind \in WriterKinds
  <2> PICK o \in Saving : o = saves[w]  BY DEF SessionTypes
  <2> QED  BY DEF Saving
<1>2. \A role \in {"user", "assistant"} : Rec(w, role) \in Records /\ Rec(w, role).by = w
  BY DEF Rec, Records
<1> PICK u : u = Rec(w, "user")  OBVIOUS
<1> PICK a : a = Rec(w, "assistant")  OBVIOUS
<1>3. u \in Records /\ u.by = w /\ a \in Records /\ a.by = w  BY <1>2
<1>4. Delta(w) = << u, a >> \/ Delta(w) = << u >> \/ Delta(w) = << a >>
  <2>1. CASE saves[w].kind = "turn"  BY <2>1 DEF Delta
  <2>2. CASE saves[w].kind = "chatter"  BY <2>2 DEF Delta
  <2>3. CASE saves[w].kind = "push"  BY <2>3 DEF Delta
  <2> QED  BY <1>1, <2>1, <2>2, <2>3 DEF WriterKinds
<1>5. << u, a >> \in Seq(Records) /\ Len(<< u, a >>) = 2 /\ \A r \in Range(<< u, a >>) : r = u \/ r = a
  BY <1>3 DEF Range
<1>6. << u >> \in Seq(Records) /\ Len(<< u >>) = 1 /\ \A r \in Range(<< u >>) : r = u
  BY <1>3 DEF Range
<1>7. << a >> \in Seq(Records) /\ Len(<< a >>) = 1 /\ \A r \in Range(<< a >>) : r = a
  BY <1>3 DEF Range
<1>8. CASE Delta(w) = << u, a >>  BY <1>3, <1>5, <1>8
<1>9. CASE Delta(w) = << u >>  BY <1>3, <1>6, <1>9
<1>10. CASE Delta(w) = << a >>  BY <1>3, <1>7, <1>10
<1> QED  BY <1>4, <1>8, <1>9, <1>10

\* What follows the first k records.
LEMMA RestIs ==
    ASSUME NEW s \in Seq(Records), NEW k \in Nat, k <= Len(s)
    PROVE  /\ SubSeq(s, k + 1, Len(s)) \in Seq(Records)
           /\ Len(SubSeq(s, k + 1, Len(s))) = Len(s) - k
           /\ \A i \in 1 .. Len(s) - k : SubSeq(s, k + 1, Len(s))[i] = s[k + i]
           /\ Range(SubSeq(s, k + 1, Len(s))) = {s[i] : i \in k + 1 .. Len(s)}
<1> PICK n \in Nat : n = Len(s)  OBVIOUS
<1> PICK t : t = SubSeq(s, k + 1, n)  OBVIOUS
<1>1. t \in Seq(Records) /\ Len(t) = n - k /\ DOMAIN t = 1 .. n - k
  OBVIOUS
<1>2. \A i \in 1 .. n - k : t[i] = s[k + i]  OBVIOUS
<1>3. ASSUME NEW r, r \in Range(t) PROVE r \in {s[i] : i \in k + 1 .. n}
  <2>1. PICK i \in 1 .. n - k : r = t[i]  BY <1>1, <1>3 DEF Range
  <2>2. r = s[k + i] /\ k + i \in k + 1 .. n  BY <1>2, <2>1
  <2> QED  BY <2>2
<1>4. ASSUME NEW i \in k + 1 .. n PROVE s[i] \in Range(t)
  <2>1. i - k \in 1 .. n - k /\ k + (i - k) = i  OBVIOUS
  <2>2. t[i - k] = s[i]  BY <1>2, <2>1
  <2> QED  BY <1>1, <2>1, <2>2 DEF Range
<1>5. Range(t) = {s[i] : i \in k + 1 .. n}  BY <1>3, <1>4
<1> QED  BY <1>1, <1>2, <1>5

LEMMA ConcatIs ==
    ASSUME NEW old \in Seq(Records), NEW new \in Seq(Records)
    PROVE  /\ old \o new \in Seq(Records) /\ Len(old \o new) = Len(old) + Len(new)
           /\ Range(old \o new) = Range(old) \cup Range(new)
<1> PICK m \in Nat, n \in Nat : m = Len(old) /\ n = Len(new)  OBVIOUS
<1> PICK all : all = old \o new  OBVIOUS
<1>1. all \in Seq(Records) /\ Len(all) = m + n  OBVIOUS
<1>2. \A i \in 1 .. m : all[i] = old[i]  OBVIOUS
<1>3. \A i \in m + 1 .. m + n : all[i] = new[i - m]  OBVIOUS
<1>4. DOMAIN all = 1 .. m + n /\ DOMAIN old = 1 .. m /\ DOMAIN new = 1 .. n  BY <1>1
<1>5. ASSUME NEW r, r \in Range(all) PROVE r \in Range(old) \cup Range(new)
  <2>1. PICK i \in 1 .. m + n : r = all[i]  BY <1>4, <1>5 DEF Range
  <2>2. CASE i \in 1 .. m  BY <1>2, <1>4, <2>1, <2>2 DEF Range
  <2>3. CASE i \in m + 1 .. m + n
    <3>1. i - m \in 1 .. n /\ r = new[i - m]  BY <1>3, <2>1, <2>3
    <3> QED  BY <1>4, <3>1 DEF Range
  <2> QED  BY <2>2, <2>3
<1>6. ASSUME NEW i \in 1 .. m PROVE old[i] \in Range(all)
  <2>1. i \in 1 .. m + n /\ all[i] = old[i]  BY <1>2
  <2> QED  BY <1>4, <2>1 DEF Range
<1>7. ASSUME NEW i \in 1 .. n PROVE new[i] \in Range(all)
  <2>1. m + i \in m + 1 .. m + n /\ (m + i) - m = i  OBVIOUS
  <2>2. m + i \in 1 .. m + n /\ all[m + i] = new[i]  BY <1>3, <2>1
  <2> QED  BY <1>4, <2>2 DEF Range
<1>8. Range(old) \subseteq Range(all) /\ Range(new) \subseteq Range(all)
  BY <1>4, <1>6, <1>7 DEF Range
<1> QED  BY <1>1, <1>5, <1>8

\* An append leaves a suffix of what it has read and adds.
LEMMA WritesAre ==
    ASSUME MemoryConstants, SessionTypes, NEW w \in Writers, WriteAndUnlock(w)
    PROVE  \E latest \in Seq(Records), k \in Nat :
              /\ latest = saves[w].latest \o Delta(w) /\ k < Len(latest)
              /\ file' = SubSeq(latest, k + 1, Len(latest)) /\ file' \in Seq(Records)
              /\ file' # << >> /\ Range(file') \subseteq Range(latest)
              /\ Range(latest) = Range(saves[w].latest) \cup Range(Delta(w))
              /\ rows' = IF rows = {} THEN Range(latest) ELSE rows \cup Range(Delta(w))
              /\ rows' \in SUBSET Records /\ rows' # {}
<1> PICK old \in Seq(Records) : old = saves[w].latest
  <2> PICK o \in Saving : o = saves[w]  BY DEF SessionTypes
  <2> QED  BY DEF Saving
<1> PICK new \in Seq(Records) : new = Delta(w) /\ Len(new) \in 1 .. 2  BY DeltaIs
<1> PICK latest : latest = old \o new  OBVIOUS
<1>1. latest \in Seq(Records) /\ Len(latest) = Len(old) + Len(new)
      /\ Range(latest) = Range(old) \cup Range(new)
  BY ConcatIs
<1>2. latest # << >> /\ Len(latest) \in Nat
  <2>1. Len(old) \in Nat  OBVIOUS
  <2>2. Len(latest) > 0  BY <1>1, <2>1
  <2> QED  BY <1>1, <2>2
<1>3. Cut(latest) \in 0 .. Len(latest) - 1  BY <1>1, <1>2, CutIs
<1> PICK k : k = Cut(latest)  OBVIOUS
<1>4. k \in Nat /\ k < Len(latest) /\ k <= Len(latest)  BY <1>2, <1>3
<1>5. /\ file' = SubSeq(latest, k + 1, Len(latest))
      /\ rows' = IF rows = {} THEN Range(latest) ELSE rows \cup Range(new)
  BY DEF WriteAndUnlock, NewRows
<1>6. /\ file' \in Seq(Records) /\ Len(file') = Len(latest) - k
      /\ Range(file') = {latest[i] : i \in k + 1 .. Len(latest)}
  BY <1>1, <1>4, <1>5, RestIs
<1>7. file' # << >>
  <2>1. Len(file') > 0  BY <1>2, <1>4, <1>6
  <2> QED  BY <2>1
<1>8. Range(file') \subseteq Range(latest)
  <2>1. \A i \in k + 1 .. Len(latest) : i \in DOMAIN latest  BY <1>1, <1>2, <1>4
  <2> QED  BY <1>6, <2>1 DEF Range
<1>9. Range(new) \subseteq Records /\ Range(latest) \subseteq Records /\ Range(new) # {}
  <2>1. new[1] \in Range(new)  BY DEF Range
  <2>2. \A s \in Seq(Records) : Range(s) \subseteq Records  BY DEF Range
  <2> QED  BY <1>1, <2>1, <2>2
<1>10. rows' \in SUBSET Records /\ rows' # {}  BY <1>1, <1>5, <1>9 DEF SessionTypes
<1> QED  BY <1>1, <1>4, <1>5, <1>6, <1>7, <1>8, <1>10

LEMMA HistoryTypes ==
    ASSUME MemoryConstants, SessionTypes, NEW w \in Writers,
           Start(w) \/ LoadMutex(w) \/ LockAndRead(w) \/ WriteAndUnlock(w), UNCHANGED memoryVars
    PROVE  SessionTypes'
<1>0. UNCHANGED << summary, cursor, gen, job, commands, noise, adopted >>  BY DEF memoryVars
<1> PICK o \in Saving : o = saves[w]  BY DEF SessionTypes
<1>1. CASE Start(w)
  <2>1. PICK moment \in Second : clock' = moment /\ saves' = [saves EXCEPT ![w].pc = "running", ![w].sent = moment]
    BY <1>1 DEF Start
  <2>2. [o EXCEPT !.pc = "running", !.sent = moment] \in Saving  BY DEF Saving
  <2>3. saves' = [saves EXCEPT ![w] = [o EXCEPT !.pc = "running", !.sent = moment]]  BY <2>1
  <2>4. saves' \in [Writers -> Saving]  BY <2>2, <2>3 DEF SessionTypes
  <2>5. log' \in SUBSET Writers  BY <1>1 DEF Start, SessionTypes
  <2> QED  BY <1>0, <1>1, <2>1, <2>4, <2>5 DEF Start, SessionTypes
<1>2. CASE LoadMutex(w)
  <2> PICK n \in Nat : n = LoadOrStore  BY MutexIs
  <2>1. saves' = [saves EXCEPT ![w] = [o EXCEPT !.pc = "lock", !.at = clock, !.mu = n]]
    BY <1>2 DEF LoadMutex
  <2>2. [o EXCEPT !.pc = "lock", !.at = clock, !.mu = n] \in Saving  BY DEF Saving, SessionTypes
  <2>3. saves' \in [Writers -> Saving]  BY <2>1, <2>2 DEF SessionTypes
  <2> QED  BY <1>0, <1>2, <2>3 DEF LoadMutex, SessionTypes
<1>3. CASE LockAndRead(w)
  <2>1. saves' = [saves EXCEPT ![w] = [o EXCEPT !.pc = "write", !.latest = file]]
    BY <1>3 DEF LockAndRead
  <2>2. [o EXCEPT !.pc = "write", !.latest = file] \in Saving  BY DEF Saving, SessionTypes
  <2>3. saves' \in [Writers -> Saving]  BY <2>1, <2>2 DEF SessionTypes
  <2> QED  BY <1>0, <1>3, <2>3 DEF LockAndRead, SessionTypes
<1>4. CASE WriteAndUnlock(w)
  <2> PICK none \in Seq(Records) : none = << >>  BY NoRecords
  <2>1. saves' = [saves EXCEPT ![w] = [o EXCEPT !.pc = "done", !.latest = none, !.mu = 0]]
    BY <1>4 DEF WriteAndUnlock
  <2>2. [o EXCEPT !.pc = "done", !.latest = none, !.mu = 0] \in Saving  BY DEF Saving
  <2>3. saves' \in [Writers -> Saving]  BY <2>1, <2>2 DEF SessionTypes
  <2>4. file' \in Seq(Records) /\ rows' \in SUBSET Records  BY <1>4, WritesAre
  <2> QED  BY <1>0, <1>4, <2>3, <2>4 DEF WriteAndUnlock, SessionTypes
<1> QED  BY <1>1, <1>2, <1>3, <1>4

LEMMA EmptyIs ==
    ASSUME NEW s \in Seq(Records), Len(s) = 0
    PROVE  s = << >>
OBVIOUS

\* What a Generate does to the other one: it is marked when the summary it has
\* read is no longer the one on file.
Overtakes(j) ==
    \A k \in Jobs \ {j} :
        \/ gen'[k].raced
        \/ /\ gen'[k] = gen[k]
           /\ \/ gen[k].pc = "idle"
              \/ UNION Range(summary') = UNION Range(summary) /\ (summary # NoSummary => summary' = summary)

Summaries == {NoSummary} \cup {<< x >> : x \in SUBSET Records}

LEMMA SummaryRange ==
    ASSUME NEW x
    PROVE  UNION Range(<< x >>) = x /\ UNION Range(NoSummary) = {} /\ << x >> # NoSummary
<1>1. Range(<< x >>) = {x}  BY DEF Range
<1>2. Range(<< >>) = {}  BY DEF Range
<1> QED  BY <1>1, <1>2 DEF NoSummary

\* The other goes on, or is marked, when this one overtakes it.
LEMMA OvertakesIs ==
    ASSUME SessionTypes, NEW j \in Jobs, NEW all \in [Jobs -> Generating],
           \A k \in Jobs \ {j} : all[k] = gen[k], gen' = Race(all, j)
    PROVE  Overtakes(j) /\ gen' \in [Jobs -> Generating] /\ gen'[j] = all[j]
<1>1. gen' \in [Jobs -> Generating] /\ gen'[j] = all[j]  BY RaceIs
<1>2. ASSUME NEW k \in Jobs \ {j}
      PROVE  gen'[k].raced \/ (gen'[k] = gen[k] /\ gen[k].pc = "idle")
  <2>1. all[k].pc # "idle" => gen'[k].raced  BY <1>2, RaceIs
  <2>2. gen'[k] = all[k] \/ gen'[k].raced  BY <1>2, RaceIs
  <2> QED  BY <1>2, <2>1, <2>2
<1> QED  BY <1>1, <1>2 DEF Overtakes

LEMMA ReadIs ==
    ASSUME MemoryConstants, SessionTypes, NEW j \in Jobs, Read(j)
    PROVE  \E base \in SUBSET Records, since \in Seq(Records) :
              /\ since = SinceCursor(gen[j].hist) /\ summary' = << base >>
              /\ summary # NoSummary => summary = << base >>
              /\ gen' \in [Jobs -> Generating] /\ cursor' \in Nat /\ adopted' \in BOOLEAN
              /\ Overtakes(j) /\ gen'[j].raced = gen[j].raced
              /\ \/ adopted' = TRUE /\ gen'[j].pc = "ended"
                 \/ adopted' = adopted /\ gen'[j].pc = "ended" /\ since = << >> /\ gen'[j].since = cursor
                 \/ /\ adopted' = adopted /\ gen'[j].pc = "decide" /\ gen'[j].since = cursor
                    /\ gen'[j].rest = since /\ gen'[j].base = base
<1> PICK o \in Generating : o = gen[j]  BY DEF SessionTypes
<1> PICK base : base = IF summary = NoSummary THEN {} ELSE summary[1]  OBVIOUS
<1>1. /\ base \in SUBSET Records /\ (summary # NoSummary => summary = << base >>)
      /\ UNION Range(summary) = base
  <2>1. CASE summary = NoSummary  BY <2>1, SummaryRange
  <2>2. CASE summary # NoSummary
    <3>1. PICK x \in SUBSET Records : summary = << x >>  BY <2>2 DEF SessionTypes, NoSummary
    <3>2. base = x  BY <2>2, <3>1
    <3> QED  BY <2>2, <3>1, <3>2, SummaryRange
  <2> QED  BY <2>1, <2>2
<1>2. summary' = << base >>  BY DEF Read
<1>3. UNION Range(summary') = UNION Range(summary) /\ (summary # NoSummary => summary' = summary)
  BY <1>1, <1>2, SummaryRange
<1>4. o.hist \in Seq(Records)  BY DEF Generating
<1> PICK since \in Seq(Records) : since = SinceCursor(o.hist)  BY <1>4, SinceIs
<1> PICK upto \in Nat : upto = Latest(since)  BY LatestIs
<1> PICK next : next = [gen EXCEPT ![j].pc = "decide", ![j].base = base,
                            ![j].since = cursor, ![j].from = cursor,
                            ![j].upto = upto, ![j].rest = since]  OBVIOUS
<1> PICK n : n = [o EXCEPT !.pc = "decide", !.base = base, !.since = cursor, !.from = cursor,
                           !.upto = upto, !.rest = since]  OBVIOUS
<1>5. cursor \in Nat /\ n \in Generating /\ n.pc = "decide" /\ n.since = cursor /\ n.rest = since
      /\ n.base = base /\ n.raced = o.raced
  BY <1>1 DEF Generating, SessionTypes
<1>6. next = [gen EXCEPT ![j] = n]  OBVIOUS
<1>7. next \in [Jobs -> Generating] /\ next[j] = n /\ \A k \in Jobs \ {j} : next[k] = gen[k]
  BY <1>5, <1>6 DEF SessionTypes
<1> PICK e \in Generating : /\ End(j, "ended") = [gen EXCEPT ![j] = e] /\ e.pc = "ended"
                            /\ e.raced = o.raced
  BY EndIs
<1> PICK ends : ends = End(j, "ended")  OBVIOUS
<1>8. ends \in [Jobs -> Generating] /\ ends[j] = e /\ \A k \in Jobs \ {j} : ends[k] = gen[k]
  BY DEF SessionTypes
<1>9. /\ ~(cursor = 0 /\ base # {}) =>
            /\ gen' = IF since = << >> THEN [ends EXCEPT ![j].since = cursor]
                      ELSE IF summary = NoSummary THEN Race(next, j) ELSE next
            /\ cursor' = cursor /\ adopted' = adopted
      /\ cursor = 0 /\ base # {} => adopted' = TRUE /\ gen' = Race(ends, j) /\ cursor' = Latest(o.hist)
  BY DEF Read
<1> DEFINE Result ==
      /\ gen' \in [Jobs -> Generating] /\ cursor' \in Nat /\ adopted' \in BOOLEAN
      /\ Overtakes(j) /\ gen'[j].raced = gen[j].raced
      /\ \/ adopted' = TRUE /\ gen'[j].pc = "ended"
         \/ adopted' = adopted /\ gen'[j].pc = "ended" /\ since = << >> /\ gen'[j].since = cursor
         \/ /\ adopted' = adopted /\ gen'[j].pc = "decide" /\ gen'[j].since = cursor
            /\ gen'[j].rest = since /\ gen'[j].base = base
<1>14. adopted \in BOOLEAN /\ cursor \in Nat  BY DEF SessionTypes
<1>15. ASSUME cursor' = cursor, adopted' = adopted, gen' \in [Jobs -> Generating], Overtakes(j),
             gen'[j].raced = gen[j].raced, gen'[j].since = cursor,
             \/ gen'[j].pc = "ended" /\ since = << >>
             \/ gen'[j].pc = "decide" /\ gen'[j].rest = since /\ gen'[j].base = base
      PROVE  Result
  BY <1>14, <1>15
<1>10. ASSUME cursor = 0 /\ base # {} PROVE Result
  <2>1. Overtakes(j) /\ gen' \in [Jobs -> Generating] /\ gen'[j] = e
    BY <1>8, <1>9, <1>10, OvertakesIs
  <2>2. cursor' \in Nat  BY <1>4, <1>9, <1>10, LatestIs
  <2>3. adopted' = TRUE  BY <1>9, <1>10
  <2>4. e.pc = "ended" /\ e.raced = gen[j].raced  OBVIOUS
  <2> QED  BY <2>1, <2>2, <2>3, <2>4
<1>11. ASSUME ~(cursor = 0 /\ base # {}) /\ since = << >> PROVE Result
  <2> PICK f : f = [e EXCEPT !.since = cursor]  OBVIOUS
  <2>1. f \in Generating /\ f.pc = "ended" /\ f.since = cursor /\ f.raced = o.raced
    BY <1>5 DEF Generating
  <2>2. gen' = [ends EXCEPT ![j] = f]  BY <1>8, <1>9, <1>11
  <2>3. gen' \in [Jobs -> Generating] /\ gen'[j] = f /\ \A k \in Jobs \ {j} : gen'[k] = gen[k]
    BY <1>8, <2>1, <2>2
  <2>4. Overtakes(j)  BY <1>3, <2>3 DEF Overtakes
  <2>5. cursor' = cursor /\ adopted' = adopted  BY <1>9, <1>11
  <2> HIDE DEF Result
  <2> QED  BY <1>15, <1>11, <2>1, <2>3, <2>4, <2>5
<1>12. ASSUME ~(cursor = 0 /\ base # {}) /\ since # << >> PROVE Result
  <2>0. cursor' = cursor /\ adopted' = adopted  BY <1>9, <1>12
  <2>1. ASSUME summary = NoSummary PROVE Result
    <3>1. Overtakes(j) /\ gen' \in [Jobs -> Generating] /\ gen'[j] = n
      BY <1>7, <1>9, <1>12, <2>1, OvertakesIs
    <3> HIDE DEF Result
    <3> QED  BY <1>15, <1>5, <2>0, <3>1
  <2>2. ASSUME summary # NoSummary PROVE Result
    <3>1. gen' = next  BY <1>9, <1>12, <2>2
    <3>2. Overtakes(j)  BY <1>3, <1>7, <3>1 DEF Overtakes
    <3> HIDE DEF Result
    <3> QED  BY <1>15, <1>5, <1>7, <2>0, <3>1, <3>2
  <2> QED  BY <2>1, <2>2
<1>13. Result
  <2> HIDE DEF Result
  <2> QED  BY <1>10, <1>11, <1>12
<1> QED  BY <1>1, <1>2, <1>13

LEMMA DecideIs ==
    ASSUME MemoryConstants, SessionTypes, NEW j \in Jobs, Decide(j)
    PROVE  /\ gen' \in [Jobs -> Generating] /\ cursor' \in Nat /\ summary' \in Summaries
           /\ Overtakes(j) /\ gen'[j].raced = gen[j].raced /\ noise \subseteq noise'
           /\ gen'[j].since = gen[j].since
           /\ \/ /\ gen'[j].pc = "ended" /\ summary' = << gen[j].base >>
                 /\ Range(gen[j].rest) \subseteq noise'
              \/ /\ gen'[j].pc = "call" /\ summary' = summary /\ gen'[j].base = gen[j].base
                 /\ \A r \in Range(gen[j].rest) : r \in Range(gen'[j].rest) \/ r \in noise'
<1> PICK o \in Generating : o = gen[j]  BY DEF SessionTypes
<1>1. o.base \in SUBSET Records /\ o.rest \in Seq(Records) /\ o.upto \in Nat  BY DEF Generating
<1>2. PICK dull \in SUBSET Exchanges(o.rest) :
         LET kept == Without(o.rest, UNION dull)
          IN /\ world.decides \/ dull = {}
             /\ noise' = noise \cup UNION dull
             /\ IF kept = << >>
                THEN /\ summary' = << o.base >>
                     /\ cursor' = o.upto
                     /\ stale' = FALSE
                     /\ there' = TRUE
                     /\ gen' = Race(End(j, "ended"), j)
                ELSE /\ gen' = [gen EXCEPT ![j].pc = "call", ![j].rest = kept]
                     /\ UNCHANGED << summary, cursor, stale, there >>
  BY DEF Decide
<1> PICK out : out = UNION dull  OBVIOUS
<1> PICK kept \in Seq(Records) : kept = Without(o.rest, out)  BY <1>1, WithoutIs
<1>3. \A r \in Range(o.rest) : r \in Range(kept) \/ r \in out  BY <1>1, WithoutIs
<1>4. noise' = noise \cup out  BY <1>2
<1>5. CASE kept = << >>
  <2>1. summary' = << o.base >> /\ cursor' = o.upto /\ gen' = Race(End(j, "ended"), j)
    BY <1>2, <1>5
  <2> PICK e \in Generating : /\ End(j, "ended") = [gen EXCEPT ![j] = e] /\ e.pc = "ended"
                              /\ e.raced = o.raced /\ e.since = o.since
    BY EndIs
  <2> PICK ends : ends = End(j, "ended")  OBVIOUS
  <2>2. ends \in [Jobs -> Generating] /\ ends[j] = e /\ \A k \in Jobs \ {j} : ends[k] = gen[k]
    BY DEF SessionTypes
  <2>3. Overtakes(j) /\ gen' \in [Jobs -> Generating] /\ gen'[j] = e  BY <2>1, <2>2, OvertakesIs
  <2>4. \A r \in Range(o.rest) : r \in out  BY <1>3, <1>5, NoRecords
  <2>5. summary' \in Summaries  BY <1>1, <2>1 DEF Summaries
  <2> QED  BY <1>1, <1>4, <2>1, <2>3, <2>4, <2>5
<1>6. CASE kept # << >>
  <2>1. /\ gen' = [gen EXCEPT ![j].pc = "call", ![j].rest = kept]
        /\ summary' = summary /\ cursor' = cursor
    BY <1>2, <1>6
  <2> PICK n : n = [o EXCEPT !.pc = "call", !.rest = kept]  OBVIOUS
  <2>2. n \in Generating /\ n.pc = "call" /\ n.rest = kept /\ n.base = o.base /\ n.raced = o.raced
        /\ n.since = o.since
    BY DEF Generating
  <2>3. gen' = [gen EXCEPT ![j] = n]  BY <2>1
  <2>4. gen' \in [Jobs -> Generating] /\ gen'[j] = n /\ \A k \in Jobs \ {j} : gen'[k] = gen[k]
    BY <2>2, <2>3 DEF SessionTypes
  <2>5. Overtakes(j)  BY <2>1, <2>4 DEF Overtakes
  <2>6. summary' \in Summaries /\ cursor' \in Nat
    BY <2>1 DEF Summaries, SessionTypes, NoSummary
  <2> QED  BY <1>3, <1>4, <2>1, <2>2, <2>4, <2>5, <2>6
<1> QED  BY <1>5, <1>6

LEMMA SaveIs ==
    ASSUME MemoryConstants, SessionTypes, NEW j \in Jobs, Save(j)
    PROVE  \E chunk \in Seq(Records) :
              /\ chunk = ChunkOf(gen[j].rest)
              /\ gen' \in [Jobs -> Generating] /\ summary' \in Summaries
              /\ Overtakes(j) /\ gen'[j].raced = gen[j].raced /\ gen'[j].since = gen[j].since
              /\ gen'[j].pc = "cursor" /\ gen'[j].chunk = chunk /\ gen'[j].rest = gen[j].rest
              /\ gen'[j].base = gen[j].base \cup Range(chunk) /\ summary' = << gen'[j].base >>
<1> PICK o \in Generating : o = gen[j]  BY DEF SessionTypes
<1>1. o.base \in SUBSET Records /\ o.rest \in Seq(Records)  BY DEF Generating
<1>2. ChunkOf(o.rest) \in Seq(Records)
  <2>1. PICK k \in 0 .. Len(o.rest) : ChunkOf(o.rest) = SubSeq(o.rest, 1, k)  BY <1>1, ChunkIs
  <2> QED  BY <1>1, <2>1
<1> PICK chunk \in Seq(Records) : chunk = ChunkOf(o.rest)  BY <1>2
<1> PICK all : all = o.base \cup Range(chunk)  OBVIOUS
<1>3. all \in SUBSET Records  BY <1>1 DEF Range
<1> PICK n : n = [o EXCEPT !.pc = "cursor", !.chunk = chunk, !.base = all]  OBVIOUS
<1>4. n \in Generating /\ n.pc = "cursor" /\ n.chunk = chunk /\ n.base = all /\ n.rest = o.rest
      /\ n.raced = o.raced /\ n.since = o.since
  BY <1>3 DEF Generating
<1> PICK next : next = [gen EXCEPT ![j] = n]  OBVIOUS
<1>5. summary' = << all >> /\ gen' = Race(next, j)  BY DEF Save
<1>6. next \in [Jobs -> Generating] /\ next[j] = n /\ \A k \in Jobs \ {j} : next[k] = gen[k]
  BY <1>4 DEF SessionTypes
<1>7. Overtakes(j) /\ gen' \in [Jobs -> Generating] /\ gen'[j] = n  BY <1>5, <1>6, OvertakesIs
<1>8. summary' \in Summaries  BY <1>3, <1>5 DEF Summaries
<1> QED  BY <1>4, <1>5, <1>7, <1>8

LEMMA SaveCursorIs ==
    ASSUME MemoryConstants, SessionTypes, NEW j \in Jobs, SaveCursor(j)
    PROVE  /\ gen' \in [Jobs -> Generating] /\ cursor' \in Nat
           /\ \A k \in Jobs \ {j} : gen'[k] = gen[k]
           /\ gen'[j].raced = gen[j].raced /\ gen'[j].since = gen[j].since
           /\ \/ gen'[j].pc = "ended" /\ Left(gen[j]) = {}
              \/ gen'[j].pc = "call" /\ Range(gen'[j].rest) = Left(gen[j]) /\ gen'[j].base = gen[j].base
<1> PICK o \in Generating : o = gen[j]  BY DEF SessionTypes
<1>1. o.pc = "cursor" /\ o.rest \in Seq(Records) /\ o.chunk \in Seq(Records)
      /\ o.from \in Nat /\ o.upto \in Nat
  BY DEF Generating, SaveCursor
<1> PICK k \in Nat, n \in Nat : k = Len(o.chunk) /\ n = Len(o.rest)  BY <1>1
<1> PICK rest : rest = SubSeq(o.rest, k + 1, n)  OBVIOUS
<1>2. Left(o) = {o.rest[i] : i \in k + 1 .. n}  BY <1>1 DEF Left
<1>3. rest \in Seq(Records) /\ Range(rest) = Left(o)
  <2>1. CASE k <= n  BY <1>1, <1>2, <2>1, RestIs
  <2>2. CASE ~(k <= n)
    <3>1. Left(o) = {}  BY <1>2, <2>2
    <3>2. rest = << >>
      <4>1. rest \in Seq(Records) /\ Len(rest) = 0  BY <1>1, <2>2
      <4> QED  BY <4>1, EmptyIs
    <3> QED  BY <3>1, <3>2, NoRecords
  <2> QED  BY <2>1, <2>2
<1> PICK m \in Nat : m = Latest(o.chunk)  BY <1>1, LatestIs
<1> PICK after \in Nat : after = Max({o.from, m})  BY <1>1, LargerIs
<1> PICK last \in Nat : last = Max({after, o.upto})  BY <1>1, LargerIs
<1>4. IF rest = << >>
      THEN cursor' = last /\ gen' = End(j, "ended")
      ELSE cursor' = after /\ gen' = [gen EXCEPT ![j].pc = "call", ![j].rest = rest,
                                     ![j].chunk = << >>, ![j].from = after]
  BY DEF SaveCursor
<1>5. CASE rest = << >>
  <2> PICK e \in Generating : /\ End(j, "ended") = [gen EXCEPT ![j] = e] /\ e.pc = "ended"
                              /\ e.raced = o.raced /\ e.since = o.since
    BY EndIs
  <2>1. gen' \in [Jobs -> Generating] /\ gen'[j] = e /\ \A i \in Jobs \ {j} : gen'[i] = gen[i]
    BY <1>4, <1>5 DEF SessionTypes
  <2>2. Left(o) = {}  BY <1>3, <1>5, NoRecords
  <2> QED  BY <1>4, <1>5, <2>1, <2>2
<1>6. CASE rest # << >>
  <2> PICK none \in Seq(Records) : none = << >>  BY NoRecords
  <2> PICK g : g = [o EXCEPT !.pc = "call", !.rest = rest, !.chunk = none, !.from = after]  OBVIOUS
  <2>1. g \in Generating /\ g.pc = "call" /\ g.rest = rest /\ g.base = o.base /\ g.raced = o.raced
        /\ g.since = o.since
    BY <1>3 DEF Generating
  <2>2. gen' = [gen EXCEPT ![j] = g]  BY <1>4, <1>6
  <2>3. gen' \in [Jobs -> Generating] /\ gen'[j] = g /\ \A i \in Jobs \ {j} : gen'[i] = gen[i]
    BY <2>1, <2>2 DEF SessionTypes
  <2> QED  BY <1>3, <1>4, <1>6, <2>1, <2>3
<1> QED  BY <1>5, <1>6

LEMMA CallFailsIs ==
    ASSUME SessionTypes, NEW j \in Jobs, CallFails(j)
    PROVE  gen' \in [Jobs -> Generating] /\ gen'[j].pc = "failed" /\ \A k \in Jobs \ {j} : gen'[k] = gen[k]
<1> PICK e \in Generating : End(j, "failed") = [gen EXCEPT ![j] = e] /\ e.pc = "failed"
  BY EndIs
<1> QED  BY DEF CallFails, SessionTypes

\* What a Generate leaves alone.
GenerateKeeps ==
    /\ UNCHANGED << file, rows, startAt, log, mutex, saves, clock, overtaken, job, commands, world >>
    /\ noise \subseteq noise' /\ (adopted => adopted')

LEMMA GenerateTypes ==
    ASSUME MemoryConstants, SessionTypes, NEW j \in Jobs, Generate(j)
    PROVE  SessionTypes' /\ Overtakes(j) /\ GenerateKeeps /\ gen'[j].raced = gen[j].raced
<1>1. CASE Read(j)
  <2>1. GenerateKeeps  BY <1>1 DEF Read, GenerateKeeps
  <2> PICK base \in SUBSET Records : summary' = << base >>
    BY <1>1, ReadIs
  <2>2. /\ gen' \in [Jobs -> Generating] /\ cursor' \in Nat /\ adopted' \in BOOLEAN
        /\ Overtakes(j) /\ gen'[j].raced = gen[j].raced
    BY <1>1, ReadIs
  <2> QED  BY <2>1, <2>2 DEF GenerateKeeps, SessionTypes
<1>2. CASE Decide(j)
  <2>1. GenerateKeeps  BY <1>2 DEF Decide, GenerateKeeps
  <2>2. adopted' = adopted  BY <1>2 DEF Decide
  <2> QED  BY <1>2, <2>1, <2>2, DecideIs DEF GenerateKeeps, SessionTypes, Summaries, NoSummary
<1>3. CASE Save(j)
  <2>1. GenerateKeeps  BY <1>3 DEF Save, GenerateKeeps
  <2>2. adopted' = adopted /\ cursor' = cursor  BY <1>3 DEF Save
  <2>3. gen' \in [Jobs -> Generating] /\ summary' \in Summaries /\ Overtakes(j)
        /\ gen'[j].raced = gen[j].raced
    BY <1>3, SaveIs
  <2> QED  BY <2>1, <2>2, <2>3 DEF GenerateKeeps, SessionTypes, Summaries, NoSummary
<1>4. CASE SaveCursor(j)
  <2>1. GenerateKeeps  BY <1>4 DEF SaveCursor, GenerateKeeps, historyVars
  <2>2. adopted' = adopted /\ summary' = summary  BY <1>4 DEF SaveCursor
  <2>3. /\ gen' \in [Jobs -> Generating] /\ cursor' \in Nat /\ gen'[j].raced = gen[j].raced
        /\ \A k \in Jobs \ {j} : gen'[k] = gen[k]
    BY <1>4, SaveCursorIs
  <2>4. Overtakes(j)  BY <2>2, <2>3 DEF Overtakes
  <2> QED  BY <2>1, <2>2, <2>3, <2>4 DEF GenerateKeeps, SessionTypes
<1>5. CASE CallFails(j)
  <2>1. GenerateKeeps  BY <1>5 DEF CallFails, GenerateKeeps, historyVars
  <2>2. adopted' = adopted /\ summary' = summary /\ cursor' = cursor  BY <1>5 DEF CallFails
  <2>3. gen' \in [Jobs -> Generating] /\ \A k \in Jobs \ {j} : gen'[k] = gen[k]
    BY <1>5, CallFailsIs
  <2>4. gen'[j].raced = gen[j].raced
    <3> PICK e \in Generating : End(j, "failed") = [gen EXCEPT ![j] = e] /\ e.raced = gen[j].raced
      BY EndIs
    <3> QED  BY <1>5 DEF CallFails, SessionTypes
  <2>5. Overtakes(j)  BY <2>2, <2>3 DEF Overtakes
  <2> QED  BY <2>1, <2>2, <2>3, <2>4, <2>5 DEF GenerateKeeps, SessionTypes
<1> QED  BY <1>1, <1>2, <1>3, <1>4, <1>5 DEF Generate

LEMMA NothingIs ==
    NoGen \in Generating /\ NoGen.pc = "idle" /\ NoGen.raced = FALSE
    /\ NoJob \in Job /\ NoJob.pc = "idle" /\ NoJob.cmd = "" /\ NoJob.old \in Seq(Records)
    /\ Range(NoJob.old) = {}
<1> PICK none \in Seq(Records) : none = << >> /\ Range(none) = {}  BY NoRecords
<1> PICK base \in SUBSET Records : base = {}  OBVIOUS
<1> PICK lines \in SUBSET Writers : lines = {}  OBVIOUS
<1>1. NoGen = [pc |-> "idle", hist |-> none, base |-> base, since |-> 0, from |-> 0,
               upto |-> 0, rest |-> none, chunk |-> none, raced |-> FALSE]
  BY DEF NoGen
<1>2. NoJob = [pc |-> "idle", cmd |-> "", at |-> "", old |-> none, lines |-> lines]  BY DEF NoJob
<1>3. NoGen \in Generating /\ NoGen.pc = "idle" /\ NoGen.raced = FALSE  BY <1>1 DEF Generating
<1>4. NoJob \in Job /\ NoJob.pc = "idle" /\ NoJob.cmd = "" /\ NoJob.old = none  BY <1>2 DEF Job
<1> QED  BY <1>3, <1>4

\* A Generate begins to read.
LEMMA ReadingIs ==
    ASSUME NEW hist \in Seq(Records)
    PROVE  \E g \in Generating : /\ g = [NoGen EXCEPT !.pc = "read", !.hist = hist]
                                 /\ g.pc = "read" /\ g.hist = hist
<1> PICK o \in Generating : o = NoGen  BY NothingIs
<1> PICK g : g = [o EXCEPT !.pc = "read", !.hist = hist]  OBVIOUS
<1>1. g \in Generating /\ g.pc = "read" /\ g.hist = hist  BY DEF Generating
<1> QED  BY <1>1

LEMMA CronTypes ==
    ASSUME MemoryConstants, SessionTypes, CronStart \/ CronEnd
    PROVE  /\ SessionTypes' /\ gen'["command"] = gen["command"]
           /\ UNCHANGED << historyVars, summary, cursor, job, commands, noise, adopted >>
<1>0. UNCHANGED << historyVars, summary, cursor, job, commands, noise, adopted >>
  BY DEF CronStart, CronEnd
<1>1. \E g \in Generating : gen' = [gen EXCEPT !["cron"] = g]
  <2>1. CASE CronStart
    <3> PICK hist \in Seq(Records) : hist = LastOf(file, TailLen)
      BY LastIs DEF MemoryConstants, SessionTypes
    <3> QED  BY <2>1, ReadingIs DEF CronStart
  <2>2. CASE CronEnd  BY <2>2, NothingIs DEF CronEnd
  <2> QED  BY <2>1, <2>2
<1> QED  BY <1>0, <1>1 DEF SessionTypes, historyVars, Jobs

LEMMA FirstIs ==
    ASSUME NEW T, NEW s \in Seq(T), s # << >>
    PROVE  s[1] \in T
<1>1. Len(s) >= 1  OBVIOUS
<1> QED  BY <1>1

\* A command begins.
LEMMA CommandIs ==
    ASSUME MemoryConstants, SessionTypes, Command
    PROVE  \E hist \in Seq(Records), cmd \in Commands :
              /\ hist = LastOf(file, TailLen)
              /\ job' \in Job /\ job'.cmd = cmd
              /\ job'.old = CASE cmd = "compact" -> file
                              [] cmd = "keep" -> hist
                              [] OTHER -> << >>
              /\ cmd = "keep" => job'.pc = IF hist # << >> THEN "summary" ELSE "check"
              /\ job'.pc \in {"summary", "compact", "check", "idle", "remove", "delete"}
              /\ job'.pc = "compact" => cmd = "compact"
              /\ gen' \in [Jobs -> Generating]
              /\ cmd = "keep" /\ hist # << >> =>
                    gen'["command"].pc = "read" /\ gen'["command"].hist = hist
              /\ commands' \in Seq([cmd : Commands, at : {"web", "tui"}])
              /\ UNCHANGED << historyVars, summary, cursor, noise, adopted >>
<1> PICK c \in [cmd : Commands, at : {"web", "tui"}] : c = commands[1]
  <2> PICK T : T = [cmd : Commands, at : {"web", "tui"}]  OBVIOUS
  <2>1. commands \in Seq(T) /\ commands # << >>  BY DEF Command, SessionTypes
  <2>2. commands[1] \in T  BY <2>1, FirstIs
  <2> QED  BY <2>2
<1> PICK cmd \in Commands, at \in {"web", "tui"} : cmd = c.cmd /\ at = c.at  OBVIOUS
<1> PICK hist \in Seq(Records) : hist = LastOf(file, TailLen)
  BY LastIs DEF MemoryConstants, SessionTypes
<1> PICK sums \in BOOLEAN : sums = (cmd \in {"summary", "keep"} /\ hist # << >>)  OBVIOUS
<1> PICK old : old = CASE cmd = "compact" -> file [] cmd = "keep" -> hist [] OTHER -> << >>  OBVIOUS
<1> PICK pc : pc = CASE sums -> "summary"
                     [] cmd = "compact" -> "compact"
                     [] cmd = "keep" /\ ~sums -> "check"
                     [] cmd = "summary" /\ ~sums -> "idle"
                     [] cmd = "all" -> "remove"
                     [] cmd = "delete" -> "delete"
  OBVIOUS
<1>1. job' = [NoJob EXCEPT !.cmd = cmd, !.at = at, !.old = old, !.pc = pc]
  BY DEF Command
<1>2. old \in Seq(Records)
  <2>1. file \in Seq(Records) /\ << >> \in Seq(Records)  BY DEF SessionTypes
  <2>2. old = file \/ old = hist \/ old = << >>  OBVIOUS
  <2> QED  BY <2>1, <2>2
<1>3. /\ pc \in {"summary", "compact", "check", "idle", "remove", "delete"}
      /\ pc = "compact" => cmd = "compact"
      /\ cmd = "keep" => pc = IF hist # << >> THEN "summary" ELSE "check"
  BY DEF Commands
<1> PICK o \in Job : o = NoJob  BY NothingIs
<1>4. job' \in Job /\ job'.cmd = cmd /\ job'.old = old /\ job'.pc = pc
  BY <1>1, <1>2, <1>3 DEF Job
<1> PICK g \in Generating : /\ g = [NoGen EXCEPT !.pc = "read", !.hist = hist]
                            /\ g.pc = "read" /\ g.hist = hist
  BY ReadingIs
<1>5. gen' = IF sums THEN [gen EXCEPT !["command"] = g] ELSE gen
  BY DEF Command
<1>6. gen' \in [Jobs -> Generating] /\ (sums => gen'["command"] = g)
  BY <1>5 DEF SessionTypes, Jobs
<1>7. commands' \in Seq([cmd : Commands, at : {"web", "tui"}])
  BY DEF Command, SessionTypes
<1>8. UNCHANGED << historyVars, summary, cursor, noise, adopted >>  BY DEF Command
<1>9. cmd = "keep" /\ hist # << >> => gen'["command"].pc = "read" /\ gen'["command"].hist = hist
  BY <1>6
<1> QED  BY <1>3, <1>4, <1>6, <1>7, <1>8, <1>9

\* What the steps of a command do to the rest of the session.
JobKeeps ==
    /\ saves' = saves /\ noise' = noise /\ adopted' = adopted
    /\ overtaken => overtaken'
    /\ \/ file' = file
       \/ Range(file') = {} /\ (overtaken' \/ ~SomebodySaves)
       \/ /\ job.pc = "compact" /\ Range(file') \subseteq Range(job.old)
          /\ overtaken' \/ ~SomebodySaves \/ LoadOrStore \notin Held
    /\ \/ mutex' \in {mutex, LoadOrStore}
       \/ overtaken' \/ ~SomebodySaves
    /\ rows' = {} \/ rows' = rows
    /\ job'.pc # "compact" /\ Range(job'.old) \subseteq Range(job.old)
    /\ \/ job'.cmd # "keep" \/ job'.pc \notin {"summary", "check", "remove"}
       \/ /\ summary' = summary /\ gen' = gen /\ job'.old = job.old /\ job.cmd = "keep"
          /\ job'.pc \in {"check", "remove"}
          /\ job.pc = "check" \/ (job.pc = "summary" /\ gen["command"].pc = "ended")

JobSteps == SummaryDone \/ Check \/ RemoveFile \/ Clear \/ Delete \/ RemoveDir \/ ReadLog \/ RetainExchanges

LEMMA EndJobIs ==
    ASSUME SessionTypes, EndJob
    PROVE  job' \in Job /\ job'.cmd # "keep" /\ job'.pc # "compact" /\ Range(job'.old) = {}
           /\ gen' \in [Jobs -> Generating]
<1>1. NoGen \in Generating  BY NothingIs
<1> QED  BY <1>1, NothingIs DEF EndJob, SessionTypes

LEMMA JobTypes ==
    ASSUME MemoryConstants, SessionTypes, JobSteps
    PROVE  SessionTypes' /\ JobKeeps
<1> PICK o \in Job : o = job  BY DEF SessionTypes
<1>0. \A pc \in {"check", "remove", "clear", "rmdir"} :
        /\ [o EXCEPT !.pc = pc] \in Job /\ [o EXCEPT !.pc = pc].pc = pc
        /\ [o EXCEPT !.pc = pc].old = o.old /\ [o EXCEPT !.pc = pc].cmd = o.cmd
  BY DEF Job
<1> PICK none \in Seq(Records) : none = << >> /\ Range(none) = {}  BY NoRecords
<1>10. \A pc \in {"check", "remove", "clear", "rmdir"} :
        job' = [job EXCEPT !.pc = pc] =>
            /\ job' \in Job /\ job'.pc = pc /\ job'.old = job.old /\ job'.cmd = job.cmd
  BY <1>0
<1>11. gen["command"] \in Generating /\ NoGen \in Generating
      /\ [gen EXCEPT !["command"] = NoGen] \in [Jobs -> Generating]
      /\ Race(gen, "command") \in [Jobs -> Generating]
  BY NothingIs, RaceIs DEF SessionTypes, Jobs
<1>12. mutex \in Nat /\ MutexAfter \in Nat /\ (MutexAfter = mutex \/ MutexAfter = 0)
  BY DEF MutexAfter, SessionTypes
<1>1. CASE SummaryDone
  <2>1. UNCHANGED << historyVars, summary, cursor, commands, noise, adopted >>  BY <1>1 DEF SummaryDone
  <2>2. CASE EndJob
    <3>1. job' \in Job /\ job'.cmd # "keep" /\ job'.pc # "compact" /\ Range(job'.old) = {}
           /\ gen' \in [Jobs -> Generating]
      BY <2>2, EndJobIs
    <3> QED  BY <2>1, <3>1 DEF SessionTypes, JobKeeps, historyVars
  <2>3. CASE ~EndJob
    <3>1. /\ job.pc = "summary" /\ job.cmd = "keep" /\ gen["command"].pc = "ended"
          /\ job' = [job EXCEPT !.pc = "check"] /\ gen' = gen
      BY <1>1, <2>3 DEF SummaryDone
    <3>2. job' \in Job /\ job'.pc = "check" /\ job'.old = job.old  BY <1>10, <3>1
    <3> QED  BY <2>1, <3>1, <3>2 DEF SessionTypes, JobKeeps, historyVars
  <2> QED  BY <2>2, <2>3
<1>2. CASE Check
  <2>1. UNCHANGED << historyVars, summary, cursor, commands, noise, adopted >>  BY <1>2 DEF Check
  <2>2. CASE summary = NoSummary
    <3>1. job' \in Job /\ job'.cmd # "keep" /\ job'.pc # "compact" /\ Range(job'.old) = {}
           /\ gen' \in [Jobs -> Generating]
      BY <1>2, <2>2, EndJobIs DEF Check
    <3> QED  BY <2>1, <3>1 DEF SessionTypes, JobKeeps, historyVars
  <2>3. CASE summary # NoSummary
    <3>1. job.pc = "check" /\ job' = [job EXCEPT !.pc = "remove"] /\ gen' = gen
      BY <1>2, <2>3 DEF Check
    <3>2. job' \in Job /\ job'.pc = "remove" /\ job'.old = job.old /\ job'.cmd = job.cmd
      BY <1>10, <3>1
    <3>3. SessionTypes'  BY <2>1, <3>1, <3>2 DEF SessionTypes, historyVars
    <3>4. \/ job'.cmd # "keep"
          \/ /\ summary' = summary /\ gen' = gen /\ job'.old = job.old /\ job.cmd = "keep"
             /\ job'.pc \in {"check", "remove"} /\ job.pc = "check"
      BY <2>1, <3>1, <3>2
    <3>5. UNCHANGED << file, rows, mutex, saves, overtaken, noise, adopted >>  BY <2>1 DEF historyVars
    <3>6. JobKeeps  BY <3>2, <3>4, <3>5 DEF JobKeeps
    <3> QED  BY <3>3, <3>6
  <2> QED  BY <2>2, <2>3
<1>3. CASE RemoveFile
  <2>1. /\ file' = none /\ overtaken' = (overtaken \/ SomebodySaves)
        /\ job' = [job EXCEPT !.pc = "clear"]
        /\ UNCHANGED << rows, startAt, log, mutex, saves, there, clock,
                        summary, cursor, gen, commands, world, noise, adopted >>
    BY <1>3 DEF RemoveFile
  <2>2. job' \in Job /\ job'.pc = "clear" /\ job'.old = job.old  BY <1>10, <2>1
  <2>3. overtaken' \in BOOLEAN /\ (overtaken => overtaken') /\ (overtaken' \/ ~SomebodySaves)
    BY <2>1
  <2> QED  BY <2>1, <2>2, <2>3 DEF SessionTypes, JobKeeps
<1>4. CASE Clear
  <2>1. /\ rows' = {} /\ log' = {} /\ mutex' = MutexAfter
        /\ overtaken' = (overtaken \/ SomebodySaves) /\ job' = NoJob
        /\ UNCHANGED << file, saves, clock, commands, noise, adopted >>
    BY <1>4 DEF Clear
  <2>2. gen' \in [Jobs -> Generating] /\ cursor' \in Nat /\ summary' \in {summary, NoSummary}
    BY <1>4, <1>11 DEF Clear, SessionTypes
  <2>3. overtaken' \in BOOLEAN /\ (overtaken => overtaken') /\ (overtaken' \/ ~SomebodySaves)
    BY <2>1
  <2>4. job' \in Job /\ job'.cmd # "keep" /\ job'.pc # "compact" /\ Range(job'.old) = {}
    BY <2>1, NothingIs
  <2> QED  BY <1>12, <2>1, <2>2, <2>3, <2>4 DEF SessionTypes, JobKeeps, NoSummary
<1>5. CASE Delete
  <2>1. /\ rows' = {} /\ mutex' = MutexAfter /\ overtaken' = (overtaken \/ SomebodySaves)
        /\ job' = [job EXCEPT !.pc = "rmdir"]
        /\ UNCHANGED << file, log, saves, there, clock, summary, cursor, gen, commands, noise, adopted >>
    BY <1>5 DEF Delete
  <2>2. job' \in Job /\ job'.pc = "rmdir" /\ job'.old = job.old  BY <1>10, <2>1
  <2>3. overtaken' \in BOOLEAN /\ (overtaken => overtaken') /\ (overtaken' \/ ~SomebodySaves)
    BY <2>1
  <2> QED  BY <1>12, <2>1, <2>2, <2>3 DEF SessionTypes, JobKeeps
<1>6. CASE RemoveDir
  <2>1. /\ file' = none /\ log' = {} /\ summary' = NoSummary /\ cursor' = 0
        /\ overtaken' = (overtaken \/ SomebodySaves) /\ gen' = Race(gen, "command") /\ job' = NoJob
        /\ UNCHANGED << rows, mutex, saves, clock, commands, noise, adopted >>
    BY <1>6 DEF RemoveDir
  <2>2. overtaken' \in BOOLEAN /\ (overtaken => overtaken') /\ (overtaken' \/ ~SomebodySaves)
    BY <2>1
  <2>3. job' \in Job /\ job'.cmd # "keep" /\ job'.pc # "compact" /\ Range(job'.old) = {}
    BY <2>1, NothingIs
  <2> QED  BY <1>11, <2>1, <2>2, <2>3 DEF SessionTypes, JobKeeps, NoSummary
<1>7. CASE ReadLog
  <2>1. UNCHANGED << historyVars, summary, cursor, gen, commands, noise, adopted >>  BY <1>7 DEF ReadLog
  <2>2. /\ job' \in Job /\ Range(job'.old) \subseteq Range(job.old)
        /\ job'.pc \in {"idle", "retain"}
    <3>1. CASE log = {}  BY <1>7, <3>1, NothingIs DEF ReadLog
    <3>2. CASE log # {}
      <4>1. job' = [o EXCEPT !.pc = "retain", !.lines = log]  BY <1>7, <3>2 DEF ReadLog
      <4> QED  BY <4>1 DEF Job, SessionTypes
    <3> QED  BY <3>1, <3>2
  <2> QED  BY <2>1, <2>2 DEF SessionTypes, JobKeeps, historyVars
<1>8. CASE RetainExchanges
  <2>1. /\ job' = NoJob /\ log' = {w \in job.lines : Rec(w, "user") \in Range(job.old)}
        /\ UNCHANGED << file, rows, mutex, saves, clock, overtaken,
                        summary, cursor, gen, commands, noise, adopted >>
    BY <1>8 DEF RetainExchanges
  <2>2. job' \in Job /\ job'.cmd # "keep" /\ job'.pc # "compact" /\ Range(job'.old) = {}
    BY <2>1, NothingIs
  <2>3. log' \in SUBSET Writers
    <3>1. o.lines \in SUBSET Writers  BY DEF Job
    <3> QED  BY <2>1, <3>1
  <2> QED  BY <2>1, <2>2, <2>3 DEF SessionTypes, JobKeeps
<1> QED  BY <1>1, <1>2, <1>3, <1>4, <1>5, <1>6, <1>7, <1>8 DEF JobSteps

LEMMA ReplaceTypes ==
    ASSUME MemoryConstants, SessionTypes, Replace
    PROVE  SessionTypes' /\ JobKeeps
<1> PICK o \in Job : o = job  BY DEF SessionTypes
<1>1. o.old \in Seq(Records)  BY DEF Job
<1>2. UNCHANGED << rows, startAt, log, saves, there, clock, summary, cursor, gen,
                   commands, world, noise, adopted >> /\ job.pc = "compact"
  BY DEF Replace
<1>3. \E gone : LET kept == Without(job.old, gone) IN
         \/ job' = [job EXCEPT !.pc = "sync"] /\ UNCHANGED << file, mutex, overtaken >>
         \/ /\ job.at = "web" => LoadOrStore \notin Held
            /\ file' = kept
            /\ mutex' = IF job.at = "web" THEN LoadOrStore ELSE mutex
            /\ overtaken' = (overtaken \/ (job.at # "web" /\ SomebodySaves))
            /\ job' = [job EXCEPT !.pc = "sync", !.old = kept]
  BY DEF Replace
<1> PICK gone : LET kept == Without(job.old, gone) IN
         \/ job' = [job EXCEPT !.pc = "sync"] /\ UNCHANGED << file, mutex, overtaken >>
         \/ /\ job.at = "web" => LoadOrStore \notin Held
            /\ file' = kept
            /\ mutex' = IF job.at = "web" THEN LoadOrStore ELSE mutex
            /\ overtaken' = (overtaken \/ (job.at # "web" /\ SomebodySaves))
            /\ job' = [job EXCEPT !.pc = "sync", !.old = kept]
  BY <1>3
<1> PICK kept \in Seq(Records) : kept = Without(o.old, gone) /\ Range(kept) \subseteq Range(o.old)
  BY <1>1, WithoutIs
<1>4. CASE job' = [job EXCEPT !.pc = "sync"] /\ UNCHANGED << file, mutex, overtaken >>
  <2>1. job' = [o EXCEPT !.pc = "sync"]  BY <1>4
  <2>2. job' \in Job /\ job'.pc = "sync" /\ job'.old = job.old  BY <2>1 DEF Job
  <2> QED  BY <1>2, <1>4, <2>2 DEF SessionTypes, JobKeeps
<1>5. CASE /\ job.at = "web" => LoadOrStore \notin Held
           /\ file' = kept
           /\ mutex' = IF job.at = "web" THEN LoadOrStore ELSE mutex
           /\ overtaken' = (overtaken \/ (job.at # "web" /\ SomebodySaves))
           /\ job' = [job EXCEPT !.pc = "sync", !.old = kept]
  <2>1. job' = [o EXCEPT !.pc = "sync", !.old = kept]  BY <1>5
  <2>2. job' \in Job /\ job'.pc = "sync" /\ job'.old = kept  BY <2>1 DEF Job
  <2>3. mutex' \in Nat /\ mutex' \in {mutex, LoadOrStore}  BY <1>5, MutexIs DEF SessionTypes
  <2>4. overtaken' \in BOOLEAN /\ (overtaken => overtaken')
        /\ (overtaken' \/ ~SomebodySaves \/ LoadOrStore \notin Held)
    BY <1>5
  <2>5. JobKeeps  BY <1>2, <1>5, <2>2, <2>3, <2>4 DEF JobKeeps
  <2>6. file' \in Seq(Records)  BY <1>5
  <2> QED  BY <1>2, <2>2, <2>3, <2>4, <2>5, <2>6 DEF SessionTypes
<1> QED  BY <1>4, <1>5

(* Every step on a session's history, rows and summary keeps the types of   *)
(* what it reads and writes (history.go, summary.go).                       *)
THEOREM SessionTyped ==
    ASSUME MemoryConstants, SessionTypes, [SessionNext]_sessionVars
    PROVE  SessionTypes'
<1>1. ASSUME NEW w \in Writers,
             Start(w) \/ LoadMutex(w) \/ LockAndRead(w) \/ WriteAndUnlock(w), UNCHANGED memoryVars
      PROVE  SessionTypes'
  BY <1>1, HistoryTypes
<1>2. ASSUME NEW j \in Jobs, Generate(j) PROVE SessionTypes'  BY <1>2, GenerateTypes
<1>3. CASE CronStart \/ CronEnd  BY <1>3, CronTypes
<1>4. CASE Command
  <2> PICK hist \in Seq(Records), cmd \in Commands :
              /\ job' \in Job /\ gen' \in [Jobs -> Generating]
              /\ commands' \in Seq([cmd : Commands, at : {"web", "tui"}])
              /\ UNCHANGED << historyVars, summary, cursor, noise, adopted >>
    BY <1>4, CommandIs
  <2> QED  BY DEF SessionTypes, historyVars
<1>5. CASE JobSteps  BY <1>5, JobTypes
<1>6. CASE Replace  BY <1>6, ReplaceTypes
<1>7. CASE UNCHANGED sessionVars  BY <1>7 DEF SessionTypes, sessionVars, historyVars, memoryVars
<1>8. CASE HistoryNext /\ UNCHANGED memoryVars  BY <1>1, <1>8 DEF HistoryNext
<1>9. CASE MemoryNext  BY <1>2, <1>3, <1>4, <1>5, <1>6, <1>9 DEF MemoryNext, JobSteps
<1> QED  BY <1>7, <1>8, <1>9 DEF SessionNext

-----------------------------------------------------------------------------
(* What is settled stays so. *)

Writes(w) == (Start(w) \/ LoadMutex(w) \/ LockAndRead(w) \/ WriteAndUnlock(w)) /\ UNCHANGED memoryVars
JobStep == JobSteps \/ Replace

\* The steps of the session, and what the ones on memory leave alone.
LEMMA StepsAre ==
    ASSUME MemoryConstants, SessionTypes, SessionNext
    PROVE  \/ \E w \in Writers : Writes(w)
           \/ \E j \in Jobs : Generate(j)
           \/ CronStart \/ CronEnd \/ Command \/ JobStep
BY DEF SessionNext, HistoryNext, MemoryNext, Writes, JobStep, JobSteps

LEMMA StepsKeep ==
    ASSUME MemoryConstants, SessionTypes
    PROVE  /\ \A j \in Jobs : Generate(j) => GenerateKeeps
           /\ CronStart \/ CronEnd => UNCHANGED << historyVars, summary, job, commands, noise, adopted >>
           /\ Command => UNCHANGED << historyVars, summary, noise, adopted >>
           /\ JobStep => JobKeeps
<1>1. \A j \in Jobs : Generate(j) => GenerateKeeps  BY GenerateTypes
<1>2. CronStart \/ CronEnd => UNCHANGED << historyVars, summary, job, commands, noise, adopted >>
  BY DEF CronStart, CronEnd
<1>3. Command => UNCHANGED << historyVars, summary, noise, adopted >>  BY DEF Command
<1>4. JobStep => JobKeeps  BY JobTypes, ReplaceTypes DEF JobStep
<1> QED  BY <1>1, <1>2, <1>3, <1>4

LEMMA WriterMoves ==
    ASSUME SessionTypes, NEW w \in Writers, Writes(w)
    PROVE  /\ \A v \in Writers : v # w => saves'[v] = saves[v]
           /\ saves[w].pc # "done"
           /\ Start(w) => saves'[w].pc = "running" /\ saves'[w].latest = saves[w].latest
           /\ LoadMutex(w) => /\ saves'[w].pc = "lock" /\ saves'[w].latest = saves[w].latest
                              /\ saves'[w].mu = LoadOrStore
           /\ LockAndRead(w) => /\ saves'[w].pc = "write" /\ saves'[w].latest = file
                                /\ saves'[w].mu = saves[w].mu
           /\ WriteAndUnlock(w) => saves'[w].pc = "done" /\ saves'[w].latest = << >>
<1> PICK o \in Saving : o = saves[w]  BY DEF SessionTypes
<1>0. DOMAIN saves = Writers /\ saves[w].pc # "done"
  BY DEF SessionTypes, Writes, Start, LoadMutex, LockAndRead, WriteAndUnlock
<1>1. CASE Start(w)
  <2> PICK moment : saves' = [saves EXCEPT ![w].pc = "running", ![w].sent = moment]  BY <1>1 DEF Start
  <2> PICK n : n = [o EXCEPT !.pc = "running", !.sent = moment]  OBVIOUS
  <2>1. n.pc = "running" /\ n.latest = o.latest  BY DEF Saving
  <2>2. saves' = [saves EXCEPT ![w] = n]  OBVIOUS
  <2>3. o.pc = "idle"  BY <1>1 DEF Start
  <2> QED  BY <1>0, <2>1, <2>2, <2>3 DEF LoadMutex, LockAndRead, WriteAndUnlock
<1>2. CASE LoadMutex(w)
  <2> PICK n : n = [o EXCEPT !.pc = "lock", !.at = clock, !.mu = LoadOrStore]  OBVIOUS
  <2>1. n.pc = "lock" /\ n.latest = o.latest /\ n.mu = LoadOrStore  BY DEF Saving
  <2>2. saves' = [saves EXCEPT ![w] = n]  BY <1>2 DEF LoadMutex
  <2>3. o.pc = "running"  BY <1>2 DEF LoadMutex
  <2> QED  BY <1>0, <2>1, <2>2, <2>3 DEF Start, LockAndRead, WriteAndUnlock
<1>3. CASE LockAndRead(w)
  <2> PICK n : n = [o EXCEPT !.pc = "write", !.latest = file]  OBVIOUS
  <2>1. n.pc = "write" /\ n.latest = file /\ n.mu = o.mu  BY DEF Saving
  <2>2. saves' = [saves EXCEPT ![w] = n]  BY <1>3 DEF LockAndRead
  <2>3. o.pc = "lock"  BY <1>3 DEF LockAndRead
  <2> QED  BY <1>0, <2>1, <2>2, <2>3 DEF Start, LoadMutex, WriteAndUnlock
<1>4. CASE WriteAndUnlock(w)
  <2> PICK n : n = [o EXCEPT !.pc = "done", !.latest = << >>, !.mu = 0]  OBVIOUS
  <2>1. n.pc = "done" /\ n.latest = << >>  BY DEF Saving
  <2>2. saves' = [saves EXCEPT ![w] = n]  BY <1>4 DEF WriteAndUnlock
  <2>3. o.pc = "write"  BY <1>4 DEF WriteAndUnlock
  <2> QED  BY <1>0, <2>1, <2>2, <2>3 DEF Start, LoadMutex, LockAndRead
<1> QED  BY <1>1, <1>2, <1>3, <1>4 DEF Writes

\* A writer that has done stays as it is.
LEMMA DoneStays ==
    ASSUME MemoryConstants, SessionTypes, [SessionNext]_sessionVars
    PROVE  \A v \in Writers : saves[v].pc = "done" => saves'[v] = saves[v]
<1>1. ASSUME NEW w \in Writers, Writes(w)
      PROVE  \A v \in Writers : saves[v].pc = "done" => saves'[v] = saves[v]
  BY <1>1, WriterMoves
<1>2. saves' = saves => \A v \in Writers : saves[v].pc = "done" => saves'[v] = saves[v]
  OBVIOUS
<1>3. CASE UNCHANGED sessionVars  BY <1>3 DEF sessionVars, historyVars
<1>4. CASE SessionNext
  <2>1. (\E w \in Writers : Writes(w)) \/ saves' = saves
    BY <1>4, StepsAre, StepsKeep DEF GenerateKeeps, historyVars, JobKeeps
  <2> QED  BY <1>1, <1>2, <2>1
<1> QED  BY <1>3, <1>4

\* The time of a settled record no longer changes.
LEMMA TimesStay ==
    ASSUME MemoryConstants, SessionTypes, [SessionNext]_sessionVars,
           NEW r \in Records, saves[r.by].pc = "done"
    PROVE  TimeOf(r)' = TimeOf(r)
<1>1. r.by \in Writers  BY DEF Records
<1>2. saves'[r.by] = saves[r.by]  BY <1>1, DoneStays
<1> QED  BY <1>2 DEF TimeOf

LEMMA RecordsIn ==
    ASSUME NEW s \in Seq(Records)
    PROVE  \A r \in Range(s) : r \in Records /\ r.by \in Writers
<1>1. \A r \in Range(s) : r \in Records  BY DEF Range
<1>2. \A r \in Records : r.by \in Writers  BY DEF Records
<1> QED  BY <1>1, <1>2

\* The histories that are on file, read or being worked on are settled.
LEMMA DoneStep ==
    ASSUME MemoryConstants, SessionTypes, DoneInv, [SessionNext]_sessionVars
    PROVE  DoneInv'
<1>0. /\ file \in Seq(Records) /\ job.old \in Seq(Records)
      /\ \A w \in Writers : saves[w].latest \in Seq(Records)
  <2>1. job \in Job /\ saves \in [Writers -> Saving]  BY DEF SessionTypes
  <2> QED  BY <2>1 DEF SessionTypes, Job, Saving
<1>1. ASSUME NEW s \in Seq(Records), Settled(s)
      PROVE  \A r \in Range(s) : saves'[r.by].pc = "done"
  BY <1>1, DoneStays, RecordsIn DEF Settled
<1>2. /\ \A r \in Range(file) : saves'[r.by].pc = "done"
      /\ \A r \in Range(job.old) : saves'[r.by].pc = "done"
      /\ \A w \in Writers : \A r \in Range(saves[w].latest) : saves'[r.by].pc = "done"
  BY <1>0, <1>1 DEF DoneInv
<1>3. SUFFICES /\ \A r \in Range(file') : saves'[r.by].pc = "done"
               /\ \A r \in Range(job'.old) : saves'[r.by].pc = "done"
               /\ \A w \in Writers : \A r \in Range(saves'[w].latest) : saves'[r.by].pc = "done"
  BY DEF DoneInv, Settled
<1>4. ASSUME NEW w \in Writers, Writes(w)
      PROVE  /\ \A r \in Range(file') : saves'[r.by].pc = "done"
             /\ job' = job
             /\ \A v \in Writers : \A r \in Range(saves'[v].latest) : saves'[r.by].pc = "done"
  <2>0. job' = job  BY <1>4 DEF Writes, memoryVars
  <2>1. CASE WriteAndUnlock(w)
    <3>1. \A r \in Range(file') : r \in Range(saves[w].latest) \/ r \in Range(Delta(w))
      BY <2>1, WritesAre
    <3>2. \A r \in Range(Delta(w)) : saves'[r.by].pc = "done"
      BY <1>4, <2>1, WriterMoves, DeltaIs
    <3>3. \A r \in Range(saves'[w].latest) : FALSE  BY <1>4, <2>1, WriterMoves, NoRecords
    <3>4. \A v \in Writers : v # w => saves'[v] = saves[v]  BY <1>4, WriterMoves
    <3> QED  BY <1>2, <2>0, <3>1, <3>2, <3>3, <3>4
  <2>2. CASE Start(w) \/ LoadMutex(w) \/ LockAndRead(w)
    <3>1. file' = file  BY <2>2 DEF Start, LoadMutex, LockAndRead
    <3>2. saves'[w].latest = saves[w].latest \/ saves'[w].latest = file
      BY <1>4, <2>2, WriterMoves
    <3>3. \A v \in Writers : v # w => saves'[v] = saves[v]  BY <1>4, WriterMoves
    <3>4. \A v \in Writers : saves'[v].latest = saves[v].latest \/ saves'[v].latest = file
      BY <3>2, <3>3
    <3> QED  BY <1>2, <2>0, <3>1, <3>4
  <2> QED  BY <1>4, <2>1, <2>2 DEF Writes
<1>5. CASE SessionNext
  <2>1. CASE \E w \in Writers : Writes(w)  BY <1>2, <1>4, <2>1
  <2>2. CASE (\E j \in Jobs : Generate(j)) \/ CronStart \/ CronEnd
    <3>1. file' = file /\ job' = job /\ saves' = saves
      BY <2>2, StepsKeep DEF GenerateKeeps, historyVars
    <3> QED  BY <1>2, <3>1
  <2>3. CASE Command
    <3> PICK hist \in Seq(Records) :
           /\ hist = LastOf(file, TailLen)
           /\ job'.old = file \/ job'.old = hist \/ job'.old = << >>
      BY <2>3, CommandIs
    <3>1. file' = file /\ saves' = saves  BY <2>3, StepsKeep DEF historyVars
    <3>2. Range(hist) \subseteq Range(file)  BY <1>0, LastIs DEF MemoryConstants
    <3>3. Range(job'.old) \subseteq Range(file)  BY <3>2, NoRecords
    <3> QED  BY <1>2, <3>1, <3>3
  <2>4. CASE JobStep
    <3>1. saves' = saves /\ Range(job'.old) \subseteq Range(job.old)
          /\ Range(file') \subseteq Range(file) \cup Range(job.old)
      BY <2>4, StepsKeep DEF JobKeeps
    <3> QED  BY <1>2, <3>1
  <2> QED  BY <1>5, <2>1, <2>2, <2>3, <2>4, StepsAre
<1>6. CASE UNCHANGED sessionVars
  <2>1. file' = file /\ job' = job /\ saves' = saves  BY <1>6 DEF sessionVars, historyVars, memoryVars
  <2> QED  BY <1>2, <2>1
<1> QED  BY <1>5, <1>6

-----------------------------------------------------------------------------
(* One mutex, one history, its rows. *)

\* A writer that holds or awaits the mutex keeps it.
LEMMA MutexStep ==
    ASSUME MemoryConstants, SessionTypes, MutexInv, [SessionNext]_sessionVars
    PROVE  MutexInv'
<1>1. LoadOrStore # 0 /\ (mutex # 0 => LoadOrStore = mutex)  BY MutexIs
<1>2. ASSUME NEW w \in Writers, Writes(w)
      PROVE  MutexInv'
  <2>1. overtaken' = overtaken /\ (mutex' = mutex \/ (LoadMutex(w) /\ mutex' = LoadOrStore))
    BY <1>2 DEF Writes, Start, LoadMutex, LockAndRead, WriteAndUnlock
  <2>2. ASSUME ~overtaken', NEW v \in Writers, saves'[v].pc \in {"lock", "write"}
        PROVE  saves'[v].mu = mutex' /\ mutex' # 0
    <3>1. \A u \in Writers : saves[u].pc \in {"lock", "write"} => saves[u].mu = mutex /\ mutex # 0
      BY <2>1, <2>2 DEF MutexInv
    <3>2. CASE LoadMutex(w)
      <4>1. mutex' = LoadOrStore /\ saves'[w].mu = LoadOrStore  BY <1>2, <3>2, WriterMoves DEF LoadMutex
      <4>2. CASE v = w  BY <1>1, <4>1, <4>2
      <4>3. CASE v # w
        <5>1. saves'[v] = saves[v]  BY <1>2, <4>3, WriterMoves
        <5> QED  BY <1>1, <2>2, <3>1, <4>1, <5>1
      <4> QED  BY <4>2, <4>3
    <3>3. CASE ~LoadMutex(w)
      <4>1. mutex' = mutex  BY <2>1, <3>3
      <4>2. CASE v = w
        <5>1. LockAndRead(w)  BY <1>2, <2>2, <3>3, <4>2, WriterMoves DEF Writes
        <5>2. saves[w].pc = "lock" /\ saves'[w].mu = saves[w].mu
          BY <1>2, <5>1, WriterMoves DEF LockAndRead
        <5> QED  BY <3>1, <4>1, <4>2, <5>2
      <4>3. CASE v # w
        <5>1. saves'[v] = saves[v]  BY <1>2, <4>3, WriterMoves
        <5> QED  BY <2>2, <3>1, <4>1, <5>1
      <4> QED  BY <4>2, <4>3
    <3> QED  BY <3>2, <3>3
  <2>3. ASSUME NEW u \in Writers, NEW v \in Writers, saves'[u].pc = "write", saves'[v].pc = "write",
               saves'[u].mu = saves'[v].mu, u # v
        PROVE  FALSE
    <3>1. \A x \in Writers : x # w => saves'[x] = saves[x]  BY <1>2, WriterMoves
    <3>2. CASE u # w /\ v # w  BY <2>3, <3>1, <3>2 DEF MutexInv
    <3>3. ASSUME NEW x \in Writers, x # w, saves'[x].pc = "write", saves'[w].pc = "write",
                 saves'[w].mu = saves'[x].mu
          PROVE  FALSE
      <4>1. LockAndRead(w)  BY <1>2, <3>3, WriterMoves DEF Writes
      <4>2. saves[w].mu \notin Held /\ saves'[w].mu = saves[w].mu  BY <1>2, <4>1, WriterMoves DEF LockAndRead
      <4>3. saves[x].pc = "write" /\ saves[x].mu = saves[w].mu  BY <3>1, <3>3, <4>2
      <4>4. saves[x].mu \in Held  BY <4>3 DEF Held
      <4> QED  BY <4>2, <4>3, <4>4
    <3> QED  BY <2>3, <3>2, <3>3
  <2> QED  BY <2>2, <2>3 DEF MutexInv
<1>3. ASSUME saves' = saves, overtaken => overtaken',
             mutex' \in {mutex, LoadOrStore} \/ overtaken' \/ ~SomebodySaves
      PROVE  MutexInv'
  <2>1. ASSUME ~overtaken', NEW w \in Writers, saves'[w].pc \in {"lock", "write"}
        PROVE  saves'[w].mu = mutex' /\ mutex' # 0
    <3>1. saves[w].pc \in {"lock", "write"} /\ saves'[w].mu = saves[w].mu  BY <1>3, <2>1
    <3>2. SomebodySaves  BY <3>1 DEF SomebodySaves
    <3>3. saves[w].mu = mutex /\ mutex # 0  BY <1>3, <2>1, <3>1 DEF MutexInv
    <3> QED  BY <1>1, <1>3, <2>1, <3>1, <3>2, <3>3
  <2> QED  BY <1>3, <2>1 DEF MutexInv
<1>4. CASE UNCHANGED sessionVars
  <2>1. saves' = saves /\ overtaken' = overtaken /\ mutex' = mutex
    BY <1>4 DEF sessionVars, historyVars
  <2> QED  BY <1>3, <2>1
<1>5. CASE SessionNext
  <2>1. CASE \E w \in Writers : Writes(w)  BY <1>2, <2>1
  <2>2. CASE (\E j \in Jobs : Generate(j)) \/ CronStart \/ CronEnd \/ Command
    <3>1. saves' = saves /\ overtaken' = overtaken /\ mutex' = mutex
      BY <2>2, StepsKeep DEF GenerateKeeps, historyVars
    <3> QED  BY <1>3, <3>1
  <2>3. CASE JobStep
    <3>1. JobKeeps  BY <2>3, StepsKeep
    <3> QED  BY <1>3, <3>1 DEF JobKeeps
  <2> QED  BY <1>5, <2>1, <2>2, <2>3, StepsAre
<1> QED  BY <1>4, <1>5

\* While it holds the mutex the file is as it has read it.
LEMMA LatestStep ==
    ASSUME MemoryConstants, SessionTypes, MutexInv, LatestInv, [SessionNext]_sessionVars
    PROVE  LatestInv'
<1>0. SUFFICES ASSUME ~overtaken', NEW v \in Writers, saves'[v].pc = "write"
               PROVE  saves'[v].latest = file'
  BY DEF LatestInv
<1>1. ASSUME NEW w \in Writers, Writes(w)
      PROVE  saves'[v].latest = file'
  <2>1. ~overtaken
    BY <1>0, <1>1 DEF Writes, Start, LoadMutex, LockAndRead, WriteAndUnlock
  <2>2. file' = file \/ WriteAndUnlock(w)
    BY <1>1 DEF Writes, Start, LoadMutex, LockAndRead
  <2>3. CASE v = w
    <3>1. LockAndRead(w)  BY <1>0, <1>1, <2>3, WriterMoves DEF Writes
    <3>2. saves'[w].latest = file /\ file' = file  BY <1>1, <3>1, WriterMoves DEF LockAndRead
    <3> QED  BY <2>3, <3>2
  <2>4. CASE v # w
    <3>1. saves'[v] = saves[v] /\ saves[v].pc = "write"  BY <1>0, <1>1, <2>4, WriterMoves
    <3>2. saves[v].latest = file  BY <2>1, <3>1 DEF LatestInv
    <3>3. ~WriteAndUnlock(w)
      <4> SUFFICES ASSUME WriteAndUnlock(w) PROVE FALSE  OBVIOUS
      <4>1. saves[w].pc = "write"  BY DEF WriteAndUnlock
      <4>2. saves[v].mu = saves[w].mu  BY <2>1, <3>1, <4>1 DEF MutexInv
      <4> QED  BY <2>4, <3>1, <4>1, <4>2 DEF MutexInv
    <3> QED  BY <2>2, <3>1, <3>2, <3>3
  <2> QED  BY <2>3, <2>4
<1>2. ASSUME saves' = saves, overtaken => overtaken',
             file' = file \/ overtaken' \/ ~SomebodySaves \/ LoadOrStore \notin Held
      PROVE  saves'[v].latest = file'
  <2>1. ~overtaken /\ saves[v].pc = "write"  BY <1>0, <1>2
  <2>2. saves[v].latest = file /\ saves[v].mu = mutex /\ mutex # 0  BY <2>1 DEF LatestInv, MutexInv
  <2>3. SomebodySaves  BY <2>1 DEF SomebodySaves
  <2>4. LoadOrStore = mutex  BY <2>2, MutexIs
  <2>5. saves[v].mu \in Held  BY <2>1 DEF Held
  <2> QED  BY <1>0, <1>2, <2>2, <2>3, <2>4, <2>5
<1>3. CASE UNCHANGED sessionVars
  <2>1. saves' = saves /\ overtaken' = overtaken /\ file' = file
    BY <1>3 DEF sessionVars, historyVars
  <2> QED  BY <1>2, <2>1
<1>4. CASE SessionNext
  <2>1. CASE \E w \in Writers : Writes(w)  BY <1>1, <2>1
  <2>2. CASE (\E j \in Jobs : Generate(j)) \/ CronStart \/ CronEnd \/ Command
    <3>1. saves' = saves /\ overtaken' = overtaken /\ file' = file
      BY <2>2, StepsKeep DEF GenerateKeeps, historyVars
    <3> QED  BY <1>2, <3>1
  <2>3. CASE JobStep
    <3>1. JobKeeps  BY <2>3, StepsKeep
    <3> QED  BY <1>2, <3>1 DEF JobKeeps
  <2> QED  BY <1>4, <2>1, <2>2, <2>3, StepsAre
<1> QED  BY <1>3, <1>4

\* The rows follow what is on file, and what a compaction will put there.
LEMMA RowsStep ==
    ASSUME MemoryConstants, SessionTypes, LatestInv, RowsInv, [SessionNext]_sessionVars
    PROVE  RowsInv'
<1>0. SUFFICES ASSUME ~overtaken' PROVE RowsInv'  BY DEF RowsInv, RowsFollow
<1>1. ~overtaken =>
        /\ rows # {} => Range(file) \subseteq rows
        /\ job.pc = "compact" =>
              IF rows = {} THEN Range(job.old) = Range(file) ELSE Range(job.old) \subseteq rows
  BY DEF RowsInv, RowsFollow
<1>2. ASSUME NEW w \in Writers, Writes(w)
      PROVE  RowsInv'
  <2>1. ~overtaken /\ job' = job
    BY <1>0, <1>2 DEF Writes, Start, LoadMutex, LockAndRead, WriteAndUnlock, memoryVars
  <2>2. CASE ~WriteAndUnlock(w)
    <3>1. file' = file /\ rows' = rows  BY <1>2, <2>2 DEF Writes, Start, LoadMutex, LockAndRead
    <3> QED  BY <1>1, <2>1, <3>1 DEF RowsInv, RowsFollow
  <2>3. CASE WriteAndUnlock(w)
    <3>1. saves[w].latest = file  BY <2>1, <2>3 DEF LatestInv, WriteAndUnlock
    <3>2. /\ \E latest : /\ Range(file') \subseteq Range(latest)
                         /\ Range(latest) = Range(file) \cup Range(Delta(w))
                         /\ rows' = IF rows = {} THEN Range(latest) ELSE rows \cup Range(Delta(w))
          /\ rows' # {}
      BY <2>3, <3>1, WritesAre
    <3>3. Range(file') \subseteq rows' /\ Range(file) \subseteq rows' /\ rows \subseteq rows'
      BY <1>1, <2>1, <3>2
    <3>4. job.pc = "compact" => Range(job.old) \subseteq rows'  BY <1>1, <2>1, <3>3
    <3> QED  BY <2>1, <3>2, <3>3, <3>4 DEF RowsInv, RowsFollow
  <2> QED  BY <2>2, <2>3
<1>3. ASSUME file' = file, rows' = rows, overtaken' = overtaken,
             job' = job \/ job'.pc # "compact" \/ job'.old = file
      PROVE  RowsInv'
  <2>1. ~overtaken  BY <1>0, <1>3
  <2> QED  BY <1>1, <1>3, <2>1 DEF RowsInv, RowsFollow
<1>4. CASE UNCHANGED sessionVars
  <2>1. file' = file /\ rows' = rows /\ overtaken' = overtaken /\ job' = job
    BY <1>4 DEF sessionVars, historyVars, memoryVars
  <2> QED  BY <1>3, <2>1 DEF RowsInv, RowsFollow
<1>5. CASE SessionNext
  <2>1. CASE \E w \in Writers : Writes(w)  BY <1>2, <2>1
  <2>2. CASE (\E j \in Jobs : Generate(j)) \/ CronStart \/ CronEnd
    <3>1. file' = file /\ rows' = rows /\ overtaken' = overtaken /\ job' = job
      BY <2>2, StepsKeep DEF GenerateKeeps, historyVars
    <3> QED  BY <1>3, <3>1
  <2>3. CASE Command
    <3>1. file' = file /\ rows' = rows /\ overtaken' = overtaken  BY <2>3, StepsKeep DEF historyVars
    <3>2. job'.pc # "compact" \/ job'.old = file  BY <2>3, CommandIs
    <3> QED  BY <1>3, <3>1, <3>2
  <2>4. CASE JobStep
    <3>1. JobKeeps  BY <2>4, StepsKeep
    <3>2. ~overtaken  BY <1>0, <3>1 DEF JobKeeps
    <3>3. rows' # {} => Range(file') \subseteq rows'  BY <1>1, <3>1, <3>2 DEF JobKeeps
    <3>4. job'.pc # "compact"  BY <3>1 DEF JobKeeps
    <3> QED  BY <3>3, <3>4 DEF RowsInv, RowsFollow
  <2> QED  BY <1>5, <2>1, <2>2, <2>3, <2>4, StepsAre
<1> QED  BY <1>4, <1>5

-----------------------------------------------------------------------------
(* A reset that keeps the summary. *)

\* A reset under way whose summary nobody has overtaken.
Resets ==
    /\ job.cmd = "keep" /\ job.pc \in {"summary", "check", "remove"}
    /\ ~gen["command"].raced /\ ~adopted

\* What it has read is covered, or will be.
Covers ==
    /\ job.pc = "summary" =>
          /\ gen["command"].pc = "read" => gen["command"].hist = job.old
          /\ gen["command"].pc \in {"decide", "call", "cursor"} =>
                /\ summary = << gen["command"].base >>
                /\ \A r \in Range(job.old) : r \in Left(gen["command"]) \/ Covered(r)
          /\ gen["command"].pc = "ended" => \A r \in Range(job.old) : Covered(r)
    /\ job.pc # "summary" =>
          /\ \A r \in Range(job.old) : Covered(r)
          /\ job.old # << >> => gen["command"].pc = "ended"

LEMMA CoverIs == CoverInv <=> (Resets => Covers)
BY DEF CoverInv, Resets, Covers

\* A step that is not of this reset, nor of one that overtakes it.
LEMMA CoverKeeps ==
    ASSUME MemoryConstants, SessionTypes, DoneInv, CoverInv, [SessionNext]_sessionVars,
           job' = job, gen'["command"] = gen["command"], noise \subseteq noise',
           UNION Range(summary') = UNION Range(summary), summary # NoSummary => summary' = summary,
           adopted => adopted'
    PROVE  CoverInv'
<1>1. SUFFICES ASSUME Resets' PROVE Covers'  BY CoverIs DEF CoverInv, Resets, Covers
<1>2. Resets  BY <1>1 DEF Resets
<1>3. Covers  BY <1>2, CoverIs
<1>4. ASSUME NEW r \in Range(job.old), Covered(r) PROVE Covered(r)'
  <2>1. r \in Records /\ saves[r.by].pc = "done"
    <3>1. job.old \in Seq(Records)  BY DEF SessionTypes, Job
    <3> QED  BY <3>1, RecordsIn DEF DoneInv, Settled
  <2>2. TimeOf(r)' = TimeOf(r)  BY <2>1, TimesStay
  <2> QED  BY <1>4, <2>2 DEF Covered
<1>5. \A x : summary = << x >> => summary' = summary  BY SummaryRange
<1>6. job'.pc = "summary" /\ gen'["command"].pc = "read" => gen'["command"].hist = job'.old
  BY <1>3 DEF Covers
<1>7. job'.pc = "summary" /\ gen'["command"].pc \in {"decide", "call", "cursor"} =>
        /\ summary' = << gen'["command"].base >>
        /\ \A r \in Range(job'.old) : r \in Left(gen["command"]) \/ Covered(r)'
  BY <1>3, <1>4, <1>5 DEF Covers
<1>8. Left(gen["command"])' = Left(gen["command"])  BY DEF Left
<1>9. job'.pc # "summary" \/ gen'["command"].pc = "ended" => \A r \in Range(job'.old) : Covered(r)'
  BY <1>3, <1>4 DEF Covers
<1>10. job'.pc # "summary" => (job'.old # << >> => gen'["command"].pc = "ended")
  BY <1>3 DEF Covers
<1> QED  BY <1>6, <1>7, <1>8, <1>9, <1>10 DEF Covers

\* The summary the reset has asked for is made, step by step.
LEMMA CoverGenerates ==
    ASSUME MemoryConstants, SessionTypes, DoneInv, CoverInv, Generate("command")
    PROVE  CoverInv'
<1>0. "command" \in Jobs /\ SessionNext /\ [SessionNext]_sessionVars  BY DEF Jobs, SessionNext, MemoryNext
<1>1. SUFFICES ASSUME Resets' PROVE Covers'  BY CoverIs DEF CoverInv, Resets, Covers
<1>2. GenerateKeeps /\ gen'["command"].raced = gen["command"].raced  BY <1>0, GenerateTypes
<1>3. job' = job /\ noise \subseteq noise' /\ (adopted => adopted')  BY <1>2 DEF GenerateKeeps
<1>4. Resets /\ ~adopted'  BY <1>1, <1>2, <1>3 DEF Resets
<1>5. Covers  BY <1>4, CoverIs
<1>6. gen["command"].pc \in {"read", "decide", "call", "cursor"}
  BY DEF Generate, Read, Decide, Save, SaveCursor, CallFails
<1> PICK o \in Generating : o = gen["command"]  BY DEF SessionTypes, Jobs
<1>7. o.rest \in Seq(Records)  BY DEF Generating
<1>8. CASE job.pc # "summary"
  <2>1. job.old = << >>  BY <1>5, <1>6, <1>8 DEF Covers
  <2>2. Range(job'.old) = {} /\ job'.old = << >>  BY <1>3, <2>1, NoRecords
  <2> QED  BY <1>3, <1>8, <2>2 DEF Covers
<1>9. CASE job.pc = "summary"
  <2>0. ASSUME NEW r \in Range(job.old), TimeOf(r) <= o.since, gen'["command"].since = o.since
        PROVE  Covered(r)'
    <3>1. r \in Records /\ saves[r.by].pc = "done"
      <4>1. job.old \in Seq(Records)  BY DEF SessionTypes, Job
      <4> QED  BY <4>1, RecordsIn DEF DoneInv, Settled
    <3>2. TimeOf(r)' = TimeOf(r)  BY <1>0, <3>1, TimesStay
    <3> QED  BY <2>0, <3>2 DEF Covered
  <2>1. CASE Read("command")
    <3>1. o.hist = job.old  BY <1>5, <1>9, <2>1 DEF Covers, Read
    <3>2. PICK base \in SUBSET Records, since \in Seq(Records) :
              /\ since = SinceCursor(o.hist) /\ summary' = << base >>
              /\ \/ adopted' = TRUE /\ gen'["command"].pc = "ended"
                 \/ gen'["command"].pc = "ended" /\ since = << >> /\ gen'["command"].since = cursor
                 \/ /\ gen'["command"].pc = "decide" /\ gen'["command"].since = cursor
                    /\ gen'["command"].rest = since /\ gen'["command"].base = base
      BY <1>0, <2>1, ReadIs
    <3>3. \A r \in Range(job.old) : r \in Range(since) \/ TimeOf(r) <= cursor
      <4>1. job.old \in Seq(Records)  BY DEF SessionTypes, Job
      <4> QED  BY <3>1, <3>2, <4>1, SinceIs
    <3>4. gen'["command"].since = cursor /\ gen'["command"].pc \in {"ended", "decide"}
      BY <1>4, <3>2
    <3>5. ASSUME NEW r \in Range(job.old), TimeOf(r) <= cursor PROVE Covered(r)'
      <4>1. r \in Records /\ saves[r.by].pc = "done"
        <5>1. job.old \in Seq(Records)  BY DEF SessionTypes, Job
        <5> QED  BY <5>1, RecordsIn DEF DoneInv, Settled
      <4>2. TimeOf(r)' = TimeOf(r)  BY <1>0, <4>1, TimesStay
      <4> QED  BY <3>4, <3>5, <4>2 DEF Covered
    <3>6. CASE gen'["command"].pc = "ended"
      <4>1. since = << >>  BY <1>4, <3>2, <3>6
      <4>2. \A r \in Range(job.old) : Covered(r)'  BY <3>3, <3>5, <4>1, NoRecords
      <4> QED  BY <1>3, <1>9, <3>6, <4>2 DEF Covers
    <3>7. CASE gen'["command"].pc = "decide"
      <4>1. gen'["command"].rest = since /\ gen'["command"].base = base  BY <3>2, <3>7
      <4>2. Left(gen["command"])' = Range(since)  BY <3>7, <4>1 DEF Left
      <4>3. \A r \in Range(job.old) : r \in Range(since) \/ Covered(r)'  BY <3>3, <3>5
      <4> QED  BY <1>3, <1>9, <3>2, <3>7, <4>1, <4>2, <4>3 DEF Covers
    <3> QED  BY <3>4, <3>6, <3>7
  <2>2. ASSUME ~Read("command")
        PROVE  /\ summary = << o.base >> /\ UNION Range(summary) = o.base
               /\ \A r \in Range(job.old) : r \in Left(o) \/ r \in o.base \/ r \in noise
                                            \/ TimeOf(r) <= o.since
    <3>1. o.pc \in {"decide", "call", "cursor"}
      BY <2>2 DEF Generate, Decide, Save, SaveCursor, CallFails
    <3>2. summary = << o.base >> /\ \A r \in Range(job.old) : r \in Left(o) \/ Covered(r)
      BY <1>5, <1>9, <3>1 DEF Covers
    <3>3. UNION Range(summary) = o.base  BY <3>2, SummaryRange
    <3> QED  BY <3>2, <3>3 DEF Covered
  <2>3. ASSUME NEW x, summary' = << x >>, NEW r, r \in x \/ r \in noise' PROVE Covered(r)'
    <3>1. UNION Range(summary') = x  BY <2>3, SummaryRange
    <3> QED  BY <2>3, <3>1 DEF Covered
  <2>4. CASE Decide("command")
    <3>1. o.pc = "decide" /\ Left(o) = Range(o.rest) /\ ~Read("command")
      BY <2>4 DEF Decide, Left, Read
    <3>2. /\ gen'["command"].since = o.since
          /\ \/ /\ gen'["command"].pc = "ended" /\ summary' = << o.base >>
                /\ Range(o.rest) \subseteq noise'
             \/ /\ gen'["command"].pc = "call" /\ summary' = summary /\ gen'["command"].base = o.base
                /\ \A r \in Range(o.rest) : r \in Range(gen'["command"].rest) \/ r \in noise'
      BY <1>0, <2>4, DecideIs
    <3>3. summary' = << o.base >>  BY <2>2, <3>1, <3>2
    <3>4. \A r \in Range(job.old) : r \in Range(o.rest) \/ Covered(r)'
      BY <1>3, <2>0, <2>2, <2>3, <3>1, <3>2, <3>3
    <3>5. \A r : r \in noise' => Covered(r)'  BY <2>3, <3>3
    <3>6. CASE gen'["command"].pc = "ended"
      <4>1. \A r \in Range(job.old) : Covered(r)'  BY <3>2, <3>4, <3>5, <3>6
      <4> QED  BY <1>3, <1>9, <3>6, <4>1 DEF Covers
    <3>7. CASE gen'["command"].pc = "call"
      <4>1. \A r \in Range(job.old) : r \in Range(gen'["command"].rest) \/ Covered(r)'
        BY <3>2, <3>4, <3>5, <3>7
      <4>2. Left(gen["command"])' = Range(gen'["command"].rest)  BY <3>7 DEF Left
      <4>3. gen'["command"].base = o.base  BY <3>2, <3>7
      <4> QED  BY <1>3, <1>9, <3>3, <3>7, <4>1, <4>2, <4>3 DEF Covers
    <3> QED  BY <3>2, <3>6, <3>7
  <2>5. CASE Save("command")
    <3>1. o.pc = "call" /\ Left(o) = Range(o.rest) /\ ~Read("command")
      BY <2>5 DEF Save, Left, Read
    <3>2. PICK chunk \in Seq(Records) :
              /\ chunk = ChunkOf(o.rest) /\ gen'["command"].since = o.since
              /\ gen'["command"].pc = "cursor" /\ gen'["command"].chunk = chunk
              /\ gen'["command"].rest = o.rest
              /\ gen'["command"].base = o.base \cup Range(chunk)
              /\ summary' = << gen'["command"].base >>
      BY <1>0, <2>5, SaveIs
    <3> PICK all : all = o.base \cup Range(chunk)  OBVIOUS
    <3>3. summary' = << all >> /\ gen'["command"].base = all  BY <3>2
    <3>4. Left(gen["command"])' = {o.rest[i] : i \in Len(chunk) + 1 .. Len(o.rest)}
      BY <3>2 DEF Left
    <3>5. \A r \in Range(o.rest) : r \in Range(chunk) \/ r \in {o.rest[i] : i \in Len(chunk) + 1 .. Len(o.rest)}
      BY <1>7, <3>2, SplitIs
    <3>6. \A r \in Range(job.old) :
             r \in {o.rest[i] : i \in Len(chunk) + 1 .. Len(o.rest)} \/ Covered(r)'
      <4>1. \A r \in Range(job.old) : r \in Range(o.rest) \/ r \in o.base \/ r \in noise \/ TimeOf(r) <= o.since
        BY <2>2, <3>1
      <4>2. \A r : r \in o.base \/ r \in noise \/ r \in Range(chunk) => Covered(r)'
        BY <1>3, <2>3, <3>3
      <4> QED  BY <2>0, <3>2, <3>5, <4>1, <4>2
    <3> QED  BY <1>3, <1>9, <3>2, <3>3, <3>4, <3>6 DEF Covers
  <2>6. CASE SaveCursor("command")
    <3>1. o.pc = "cursor" /\ ~Read("command") /\ summary' = summary
      BY <2>6 DEF SaveCursor, Read
    <3>2. /\ gen'["command"].since = o.since
          /\ \/ gen'["command"].pc = "ended" /\ Left(o) = {}
             \/ gen'["command"].pc = "call" /\ Range(gen'["command"].rest) = Left(o)
                /\ gen'["command"].base = o.base
      BY <1>0, <2>6, SaveCursorIs
    <3>3. summary' = << o.base >>  BY <2>2, <3>1
    <3>4. \A r \in Range(job.old) : r \in Left(o) \/ Covered(r)'
      BY <1>3, <2>0, <2>2, <2>3, <3>1, <3>2, <3>3
    <3>5. CASE gen'["command"].pc = "ended"
      <4>1. \A r \in Range(job.old) : Covered(r)'  BY <3>2, <3>4, <3>5
      <4> QED  BY <1>3, <1>9, <3>5, <4>1 DEF Covers
    <3>6. CASE gen'["command"].pc = "call"
      <4>1. Left(gen["command"])' = Left(o)  BY <3>2, <3>6 DEF Left
      <4>2. gen'["command"].base = o.base  BY <3>2, <3>6
      <4> QED  BY <1>3, <1>9, <3>3, <3>4, <3>6, <4>1, <4>2 DEF Covers
    <3> QED  BY <3>2, <3>5, <3>6
  <2>7. CASE CallFails("command")
    <3>1. gen'["command"].pc = "failed"  BY <1>0, <2>7, CallFailsIs
    <3> QED  BY <1>3, <1>9, <3>1 DEF Covers
  <2> QED  BY <2>1, <2>4, <2>5, <2>6, <2>7 DEF Generate
<1> QED  BY <1>8, <1>9

LEMMA CoverStep ==
    ASSUME MemoryConstants, SessionTypes, DoneInv, CoverInv, [SessionNext]_sessionVars
    PROVE  CoverInv'
<1>1. CASE UNCHANGED sessionVars
  <2>1. UNCHANGED << job, gen, noise, summary, adopted >>  BY <1>1 DEF sessionVars, memoryVars
  <2> QED  BY <2>1, CoverKeeps
<1>2. CASE SessionNext
  <2>1. CASE \E w \in Writers : Writes(w)
    <3>1. UNCHANGED << job, gen, noise, summary, adopted >>  BY <2>1 DEF Writes, memoryVars
    <3> QED  BY <3>1, CoverKeeps
  <2>2. CASE \E j \in Jobs : Generate(j)
    <3>1. CASE Generate("command")  BY <3>1, CoverGenerates
    <3>2. CASE Generate("cron")
      <4>0. "cron" \in Jobs /\ "command" \in Jobs \ {"cron"}  BY DEF Jobs
      <4>1. Overtakes("cron") /\ GenerateKeeps  BY <3>2, <4>0, GenerateTypes
      <4>2. job' = job /\ noise \subseteq noise' /\ (adopted => adopted')
        BY <4>1 DEF GenerateKeeps
      <4>3. CASE gen'["command"].raced  BY <4>3, CoverIs DEF CoverInv
      <4>4. CASE gen'["command"] = gen["command"] /\ UNION Range(summary') = UNION Range(summary)
                 /\ (summary # NoSummary => summary' = summary)
        BY <4>2, <4>4, CoverKeeps
      <4>5. CASE gen'["command"] = gen["command"] /\ gen["command"].pc = "idle"
        <5>1. SUFFICES ASSUME Resets' PROVE Covers'  BY DEF CoverInv, Resets, Covers
        <5>2. Resets  BY <4>2, <4>5, <5>1 DEF Resets
        <5>3. Covers  BY <5>2, CoverIs
        <5>4. job.pc # "summary" => job.old = << >> /\ Range(job.old) = {}
          BY <4>5, <5>3, NoRecords DEF Covers
        <5> QED  BY <4>2, <4>5, <5>4 DEF Covers
      <4> QED  BY <4>0, <4>1, <4>3, <4>4, <4>5 DEF Overtakes
    <3> QED  BY <2>2, <3>1, <3>2 DEF Jobs
  <2>3. CASE CronStart \/ CronEnd
    <3>1. UNCHANGED << job, noise, summary, adopted >> /\ gen'["command"] = gen["command"]
      BY <2>3, CronTypes
    <3> QED  BY <3>1, CoverKeeps
  <2>4. CASE Command
    <3>1. SUFFICES ASSUME Resets' PROVE Covers'  BY DEF CoverInv, Resets, Covers
    <3> PICK hist \in Seq(Records), cmd \in Commands :
              /\ job'.cmd = cmd
              /\ job'.old = CASE cmd = "compact" -> file
                              [] cmd = "keep" -> hist
                              [] OTHER -> << >>
              /\ cmd = "keep" => job'.pc = IF hist # << >> THEN "summary" ELSE "check"
              /\ cmd = "keep" /\ hist # << >> =>
                    gen'["command"].pc = "read" /\ gen'["command"].hist = hist
      BY <2>4, CommandIs
    <3>2. cmd = "keep" /\ job'.old = hist  BY <3>1 DEF Resets
    <3>3. CASE hist # << >>  BY <3>2, <3>3 DEF Covers
    <3>4. CASE hist = << >>
      <4>1. Range(job'.old) = {} /\ job'.old = << >>  BY <3>2, <3>4, NoRecords
      <4> QED  BY <3>2, <3>4, <4>1 DEF Covers
    <3> QED  BY <3>3, <3>4
  <2>5. CASE JobStep
    <3>1. JobKeeps  BY <2>5, StepsKeep
    <3>2. SUFFICES ASSUME Resets' PROVE Covers'  BY DEF CoverInv, Resets, Covers
    <3>3. /\ summary' = summary /\ gen' = gen /\ job'.old = job.old /\ job.cmd = "keep"
          /\ job'.pc \in {"check", "remove"}
          /\ job.pc = "check" \/ (job.pc = "summary" /\ gen["command"].pc = "ended")
          /\ noise' = noise /\ adopted' = adopted /\ saves' = saves
      BY <3>1, <3>2 DEF JobKeeps, Resets
    <3>4. Resets  BY <3>2, <3>3 DEF Resets
    <3>5. Covers  BY <3>4, CoverIs
    <3>6. \A r \in Range(job.old) : Covered(r)  BY <3>3, <3>5 DEF Covers
    <3>7. \A r : Covered(r)' <=> Covered(r)  BY <3>3 DEF Covered, TimeOf
    <3>8. job.old # << >> => gen["command"].pc = "ended"  BY <3>3, <3>5 DEF Covers
    <3> QED  BY <3>3, <3>6, <3>7, <3>8 DEF Covers
  <2> QED  BY <1>2, <2>1, <2>2, <2>3, <2>4, <2>5, StepsAre
<1> QED  BY <1>1, <1>2

-----------------------------------------------------------------------------

LEMMA SessionStarts ==
    ASSUME MemoryConstants, SessionInit
    PROVE  SessionInv
<1> PICK kinds \in [Writers -> WriterKinds], old \in Seq(Records), oldRows \in SUBSET Records,
         cmds \in Seq([cmd : Commands, at : {"web", "tui"}]), sum \in Summaries,
         crons \in Nat, decides \in BOOLEAN :
            /\ oldRows = {} \/ Range(old) \subseteq oldRows
            /\ HistoryInit(kinds, old, oldRows)
            /\ MemoryInit(cmds, sum, crons, decides)
  BY DEF SessionInit, Summaries
<1> PICK none \in Seq(Records) : none = << >> /\ Range(none) = {}  BY NoRecords
<1> PICK done : done = {r.by : r \in Range(old)}  OBVIOUS
<1>1. done \subseteq Writers  BY RecordsIn
<1>2. /\ saves = [w \in Writers |->
                   [kind |-> kinds[w], sent |-> 1, at |-> 1, mu |-> 0, latest |-> none,
                    pc |-> IF w \in done THEN "done" ELSE "idle"]]
      /\ file = old /\ rows = oldRows /\ log = done /\ mutex = 0 /\ clock = 1 /\ overtaken = FALSE
  BY DEF HistoryInit
<1>3. /\ summary = sum /\ cursor = 0 /\ gen = [j \in Jobs |-> NoGen] /\ job = NoJob
      /\ commands = cmds /\ noise = {} /\ adopted = FALSE
  BY DEF MemoryInit
<1>4. 1 \in Second  BY DEF Second, MemoryConstants
<1>5. ASSUME NEW w \in Writers
      PROVE  saves[w] \in Saving /\ saves[w].latest = none
             /\ saves[w].pc = (IF w \in done THEN "done" ELSE "idle")
  <2> PICK kind \in WriterKinds : kind = kinds[w]  OBVIOUS
  <2> PICK pc \in {"done", "idle"} : pc = IF w \in done THEN "done" ELSE "idle"  OBVIOUS
  <2>1. saves[w] = [kind |-> kind, sent |-> 1, at |-> 1, mu |-> 0, latest |-> none, pc |-> pc]
    BY <1>2
  <2> QED  BY <1>4, <2>1 DEF Saving
<1>6. saves \in [Writers -> Saving]
  <2>1. \E f : saves = [w \in Writers |-> f[w]]
    <3> PICK f : f = saves  OBVIOUS
    <3>1. saves = [w \in Writers |-> f[w]]  BY <1>2
    <3> QED  BY <3>1
  <2> QED  BY <1>5, <2>1
<1>7. gen \in [Jobs -> Generating] /\ job \in Job  BY <1>3, NothingIs
<1>8. SessionTypes
  <2>1. summary \in {<< >>} \cup {<< x >> : x \in SUBSET Records}
    BY <1>3 DEF Summaries, NoSummary
  <2>2. log \in SUBSET Writers /\ file \in Seq(Records) /\ rows \in SUBSET Records /\ clock \in Second
    BY <1>1, <1>2, <1>4
  <2>3. mutex \in Nat /\ overtaken \in BOOLEAN /\ cursor \in Nat /\ adopted \in BOOLEAN
    BY <1>2, <1>3
  <2>4. commands \in Seq([cmd : Commands, at : {"web", "tui"}])  BY <1>3
  <2> QED  BY <1>6, <1>7, <2>1, <2>2, <2>3, <2>4 DEF SessionTypes
<1>9. Range(job.old) = {} /\ job.cmd = "" /\ job.pc = "idle"  BY <1>3, NothingIs
<1>10. DoneInv
  <2>1. \A r \in Range(file) : r.by \in done /\ r.by \in Writers  BY <1>1, <1>2
  <2>2. Settled(file)  BY <1>5, <2>1 DEF Settled
  <2> QED  BY <1>5, <1>9, <2>2 DEF DoneInv, Settled
<1>11. MutexInv /\ LatestInv  BY <1>5 DEF MutexInv, LatestInv
<1>12. RowsInv  BY <1>2, <1>9 DEF RowsInv, RowsFollow
<1>13. CoverInv  BY <1>9 DEF CoverInv
<1> QED  BY <1>8, <1>10, <1>11, <1>12, <1>13 DEF SessionInv

\* The inductive invariant of a session's memory: its variables have their types, the
\* records on file, read or about to be written are of writers that have done, a writer
\* with the mutex has read the file as it is, the rows follow, and a reset that keeps the
\* summary has covered what it has read or has still to merge it.
THEOREM SessionHolds ==
    ASSUME MemoryConstants
    PROVE  SessionSpec => []SessionInv
<1>1. SessionInit => SessionInv  BY SessionStarts
<1>2. SessionInv /\ [SessionNext]_sessionVars => SessionInv'
  BY SessionTyped, DoneStep, MutexStep, LatestStep, RowsStep, CoverStep DEF SessionInv
<1> QED  BY <1>1, <1>2, PTL DEF SessionSpec

\* Once the store has a row of the session it has every record on file, the ones from
\* before there was a store included (Append and Replace in session/history).
THEOREM RowsFollowTheFile ==
    ASSUME MemoryConstants
    PROVE  SessionSpec => []RowsFollow
<1>1. SessionInv => RowsFollow  BY DEF SessionInv, RowsInv
<1> QED  BY <1>1, SessionHolds, PTL

LEMMA ReplaceIs ==
    ASSUME MemoryConstants, SessionInv, [SessionNext]_sessionVars
    PROVE  ReplaceStep
<1>1. SUFFICES ASSUME job.pc = "compact", job'.pc = "sync", ~overtaken
               PROVE  Range(file) \ Range(file') \subseteq Range(job.old) \cup rows'
  BY DEF ReplaceStep
<1>2. /\ rows # {} => Range(file) \subseteq rows
      /\ rows = {} => Range(job.old) = Range(file)
  BY <1>1 DEF SessionInv, RowsInv, RowsFollow
<1>3. Range(file) \subseteq Range(job.old) \cup rows  BY <1>2
<1>4. rows' = rows
  <2>1. SessionNext  BY <1>1 DEF sessionVars, memoryVars
  <2>2. SessionTypes  BY DEF SessionInv
  <2>3. job' # job  BY <1>1
  <2>4. Command \/ JobStep
    BY <2>1, <2>2, <2>3, StepsAre, StepsKeep DEF GenerateKeeps, Writes, memoryVars
  <2>5. CASE Command  BY <2>5 DEF Command, historyVars
  <2>6. CASE JobStep
    <3>1. Replace
      BY <1>1, <2>6 DEF JobStep, JobSteps, SummaryDone, Check, RemoveFile, Clear, Delete, RemoveDir,
                        ReadLog, RetainExchanges
    <3> QED  BY <3>1 DEF Replace
  <2> QED  BY <2>4, <2>5, <2>6
<1> QED  BY <1>3, <1>4

\* A record that a compaction leaves out although it had not read it - it was saved during
\* the model's call (SessionHistory in exec/compact, then Replace in session/history) - is in
\* the store, while nobody takes the history or its mutex away under a writer.
THEOREM ReplacesLeaveRows ==
    ASSUME MemoryConstants
    PROVE  SessionSpec => [][ReplaceStep]_sessionVars
<1>1. SessionInv /\ [SessionNext]_sessionVars => [ReplaceStep]_sessionVars
  BY ReplaceIs
<1> QED  BY <1>1, SessionHolds, PTL DEF SessionSpec

\* What is left after a cut is the end of what was there.
LEMMA SuffixIs ==
    ASSUME NEW s \in Seq(Records), NEW k \in Nat, k <= Len(s)
    PROVE  IsSuffix(SubSeq(s, k + 1, Len(s)), s)
<1> PICK n \in Nat : n = Len(s)  OBVIOUS
<1> PICK t : t = SubSeq(s, k + 1, n)  OBVIOUS
<1>1. t \in Seq(Records) /\ Len(t) = n - k /\ \A i \in 1 .. n - k : t[i] = s[k + i]
  BY RestIs
<1> PICK m \in Nat : m = n - k  OBVIOUS
<1> PICK rt : rt = [i \in 1 .. m |-> t[m - i + 1]]  OBVIOUS
<1> PICK rs : rs = [i \in 1 .. n |-> s[n - i + 1]]  OBVIOUS
<1>2. Reverse(t) = rt /\ Reverse(s) = rs  BY <1>1 DEF Reverse
<1>3. \A i \in 1 .. m : m - i + 1 \in 1 .. m  OBVIOUS
<1>4. rt \in Seq(Records) /\ Len(rt) = m
  <2>1. \A i \in 1 .. m : t[i] \in Records  BY <1>1
  <2> QED  BY <1>3, <2>1
<1>5. rs \in Seq(Records) /\ Len(rs) = n
  <2>1. \A i \in 1 .. n : n - i + 1 \in 1 .. n /\ s[n - i + 1] \in Records  OBVIOUS
  <2> QED  BY <2>1
<1>6. ASSUME NEW i \in 1 .. m PROVE rt[i] = rs[i]
  <2>0. m - i + 1 \in 1 .. m  BY <1>3
  <2> PICK j \in 1 .. m : j = m - i + 1  BY <2>0
  <2>1. k + j = n - i + 1 /\ i \in 1 .. n  OBVIOUS
  <2>2. t[j] = s[k + j]  BY <1>1
  <2>3. rt[i] = t[j] /\ rs[i] = s[n - i + 1]  BY <2>1
  <2> QED  BY <2>1, <2>2, <2>3
<1>7. SubSeq(rt, 1, m) = SubSeq(rs, 1, m)
  <2> PICK a : a = SubSeq(rt, 1, m)  OBVIOUS
  <2> PICK b : b = SubSeq(rs, 1, m)  OBVIOUS
  <2>1. a \in Seq(Records) /\ Len(a) = m /\ \A i \in 1 .. m : a[i] = rt[i]  BY <1>4
  <2>2. b \in Seq(Records) /\ Len(b) = m /\ \A i \in 1 .. m : b[i] = rs[i]  BY <1>5
  <2> QED  BY <1>6, <2>1, <2>2
<1>8. IsPrefix(rt, rs)
  <2>1. Len(rt) <= Len(rs)  BY <1>4, <1>5
  <2> QED  BY <1>4, <1>7, <2>1 DEF IsPrefix
<1>9. IsSuffix(t, s)  BY <1>2, <1>8 DEF IsSuffix
<1> QED  BY <1>9

LEMMA AppendIs ==
    ASSUME MemoryConstants, SessionInv, [SessionNext]_sessionVars
    PROVE  AppendStep
<1>1. SUFFICES ASSUME NEW w \in Writers, saves[w].pc = "write", saves'[w].pc = "done", ~overtaken
               PROVE  file' # << >> /\ IsSuffix(file', file \o Delta(w))
  BY DEF AppendStep
<1>2. SessionTypes /\ LatestInv  BY DEF SessionInv
<1>3. saves'[w] # saves[w]  BY <1>1
<1>4. SessionNext  BY <1>3 DEF sessionVars, historyVars
<1>5. PICK v \in Writers : Writes(v)
  <2>1. saves' # saves  BY <1>3
  <2> QED  BY <1>2, <1>4, <2>1, StepsAre, StepsKeep DEF GenerateKeeps, historyVars, JobKeeps
<1>6. v = w  BY <1>2, <1>3, <1>5, WriterMoves
<1>7. WriteAndUnlock(w)  BY <1>1, <1>2, <1>5, <1>6, WriterMoves DEF Writes
<1>8. saves[w].latest = file  BY <1>1, <1>2 DEF LatestInv
<1>9. PICK latest \in Seq(Records), k \in Nat :
         /\ latest = saves[w].latest \o Delta(w) /\ k < Len(latest)
         /\ file' = SubSeq(latest, k + 1, Len(latest)) /\ file' # << >>
  BY <1>2, <1>7, WritesAre
<1>10. k <= Len(latest)
  <2>1. Len(latest) \in Nat  OBVIOUS
  <2> QED  BY <1>9, <2>1
<1>11. IsSuffix(file', latest)  BY <1>9, <1>10, SuffixIs
<1> QED  BY <1>8, <1>9, <1>11

\* An append is atomic: what is on file afterwards is what was on file before it followed
\* by its own records, less the oldest ones, and never nothing (Append and compact in
\* session/history), while nobody takes the history or its mutex away under the writer.
THEOREM AppendsAreAtomic ==
    ASSUME MemoryConstants
    PROVE  SessionSpec => [][AppendStep]_sessionVars
<1>1. SessionInv /\ [SessionNext]_sessionVars => [AppendStep]_sessionVars
  BY AppendIs
<1> QED  BY <1>1, SessionHolds, PTL DEF SessionSpec

LEMMA ResetIs ==
    ASSUME SessionInv
    PROVE  ResetStep
<1>1. CoverInv  BY DEF SessionInv
<1> QED  BY <1>1, CoverIs DEF ResetStep, Resets, Covers, Covered

\* A reset that keeps the summary keeps what the session knows (Reset in agents/exec): each
\* record it had read is in the summary on file, was judged to be noise, or was behind the
\* cursor, unless another Generate wrote the summary meanwhile.
THEOREM ResetsKeepTheMemory ==
    ASSUME MemoryConstants
    PROVE  SessionSpec => [][ResetStep]_sessionVars
<1>1. SessionInv => [ResetStep]_sessionVars  BY ResetIs
<1> QED  BY <1>1, SessionHolds, PTL DEF SessionSpec

=============================================================================
