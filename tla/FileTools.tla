----------------------------- MODULE FileTools ------------------------------
(***************************************************************************)
(* The tools by which a task reads, changes, removes and restores files    *)
(* (read_files, edit_file, write_result, edit_skill, edit_tool), and the   *)
(* file history they keep: for each file and task one row that says what   *)
(* the file was before the task touched it first.                          *)
(*                                                                         *)
(* A task calls one of these tools at a time, tasks of several sessions    *)
(* and the user work on the same files.  Modification times are told       *)
(* apart: what counts of one is whether it is still the file's.  A text    *)
(* stands for a file's content and its hash.  Left out: directories,       *)
(* files over the size limit, a clock that goes back, failed writes, the   *)
(* renaming of a task's rows when it is resumed (a task keeps its name     *)
(* here), and how targets are found in a text; check and capture are one   *)
(* step, and so is the restoring of one file (a prune may come between the *)
(* files of an undo).                                                      *)
(***************************************************************************)
EXTENDS Integers, FiniteSets, SequencesExt, Sublists

CONSTANTS
    Tasks,       \* tasks that use the tools
    Paths,       \* the files
    SkillPaths,  \* those of them that edit_skill and edit_tool look after
    Guarded,     \* those outside the home directory: the user approves each
                 \* of them for a session
    Texts,       \* what a file may hold
    KeepPerPath, \* rows of a file that a prune leaves, one or more
    MaxCalls     \* bound: tool calls and the user's own edits

VARIABLES
    disk,     \* per file: what it holds, or Absent
    hist,     \* table file_history, oldest row first
    origin,   \* per task and file: the change the task's first touch captured
    mark,     \* per task and file: the modification time the task has on
              \* record: none, the file's present one, or an older one
    approved, \* per task: the guarded files the user has approved
    tool,     \* per task: the tool call under way
    calls,    \* bound: calls and edits so far
    known,    \* ghost: the task has read or written what the file holds now
    misdated, \* ghost: the mark is of somebody else's write, made between
              \* this task's write and its look at the modification time
    before,   \* ghost: what the file held before the task touched it first
    unkept    \* ghost: the row for that was skipped, or has been pruned

filesVars == << disk, hist, origin, mark, approved, tool, calls,
                known, misdated, before, unkept >>

Absent == "absent"
Nothing == << >>
NoCall == [pc |-> "idle", path |-> Nothing, text |-> Absent, was |-> Absent,
         stat |-> "none", todo |-> << >>]
OfEach(x) == [t \in Tasks |-> [p \in Paths |-> x]]

FilesInit ==
    /\ disk \in [Paths -> {Absent, CHOOSE x \in Texts : TRUE}]
    /\ hist = << >>
    /\ origin = OfEach(Nothing)
    /\ mark = OfEach("none")
    /\ approved = [t \in Tasks |-> {}]
    /\ tool = [t \in Tasks |-> NoCall]
    /\ calls = 0
    /\ known = OfEach(FALSE)
    /\ misdated = OfEach(FALSE)
    /\ before = OfEach(Nothing)
    /\ unkept = OfEach(FALSE)

-----------------------------------------------------------------------------
(* The history. *)

(* What Capture says of a file: what it was, and that it is to be created  *)
(* when it was not there, with the text it is created with.                *)
Capture(was, created) ==
    IF was = Absent THEN [action |-> "create", text |-> created]
                    ELSE [action |-> "modify", text |-> was]

(* The text of a file's newest row, if that row is a modification. *)
LatestModify(p) ==
    LET of == {i \in 1 .. Len(hist) : hist[i].path = p}
    IN IF of = {} \/ hist[Max(of)].action # "modify" THEN Nothing
       ELSE << hist[Max(of)].text >>

(* The ids count up; the newest row is in the table whatever a prune took. *)
NextId == IF hist = << >> THEN 1 ELSE hist[Len(hist)].id + 1
Row(t, p, c) == [id |-> NextId, task |-> t, path |-> p, action |-> c.action,
                 text |-> c.text, kept |-> TRUE]

\* Variant for mutation checks: a later row of the task takes the place of
\* the first one.
InsertLatest(h, row) ==
    Append(SelectSeq(h, LAMBDA r : r.path # row.path \/ r.task # row.task), row)

(* One row for each file and task: the first one stays. *)
Insert(h, row) ==
    IF \E r \in Range(h) : r.path = row.path /\ r.task = row.task
    THEN h ELSE Append(h, row)

(* The first change of a task to a file is the one that is recorded. *)
RememberOrigin(t, p, c) == IF origin[t][p] = Nothing THEN c ELSE origin[t][p][1]

(* A change to what the newest row already holds is not recorded again. *)
Skipped(p, c) == c.action = "modify" /\ LatestModify(p) = << c.text >>

Record(t, p, change) ==
    LET c == RememberOrigin(t, p, change)
    IN /\ origin' = [origin EXCEPT ![t][p] = << c >>]
       /\ hist' = IF Skipped(p, c) THEN hist ELSE Insert(hist, Row(t, p, c))
       /\ unkept' = IF Skipped(p, c) /\ ~\E r \in Range(hist) : r.path = p /\ r.task = t
                    THEN [unkept EXCEPT ![t][p] = TRUE] ELSE unkept

RecordDelete(t, p, was) ==
    /\ hist' = Insert(hist, Row(t, p, [action |-> "delete", text |-> was]))
    /\ UNCHANGED << origin, unkept >>

-----------------------------------------------------------------------------
(* The file on disk: a write, by task t or by nobody, makes every other    *)
(* mark an old one and leaves everybody else not knowing the file.         *)
Old(m) == IF m = "fresh" THEN "stale" ELSE m
Write(p, text) == disk' = [disk EXCEPT ![p] = text]
Stale(p) == [t \in Tasks |-> [mark[t] EXCEPT ![p] = Old(@)]]
KnownTo(who, p) == [t \in Tasks |-> [known[t] EXCEPT ![p] = t \in who]]
Overtaken(p) == [t \in Tasks |-> IF tool[t].path = << p >>
                                 THEN [tool[t] EXCEPT !.stat = Old(@)] ELSE tool[t]]
Touch(t, p, was) == before' = [before EXCEPT ![t][p] = IF @ = Nothing THEN << was >> ELSE @]

Ready(t) == tool[t].pc = "idle" /\ calls < MaxCalls
Take == calls' = calls + 1

(* The boundary: what a call names outside the home directory and is not   *)
(* approved yet is asked for before the call runs; a call that was refused *)
(* finds the file denied.                                                  *)
IsGranted(t, p) == p \in approved[t]
Resolve(t, p) == p \in Guarded => IsGranted(t, p)
Restricted(t, paths) == {p \in paths \cap Guarded : ~IsGranted(t, p)}
WriteBinds(t, paths) == Restricted(t, paths) = {}

(* The user approves a guarded file, with the system's password. *)
Grant(t, p) ==
    /\ Ready(t)
    /\ Restricted(t, {p}) # {}
    /\ approved' = [approved EXCEPT ![t] = @ \cup {p}]
    /\ UNCHANGED << disk, hist, origin, mark, tool, calls, known, misdated,
                    before, unkept >>

(* read_files looks at the modification time before it reads... *)
ReadStat(t, p) ==
    /\ Ready(t)
    /\ Resolve(t, p)
    /\ disk[p] # Absent
    /\ Take
    /\ tool' = [tool EXCEPT ![t] = [NoCall EXCEPT !.pc = "read", !.path = << p >>,
                                                !.stat = "fresh"]]
    /\ UNCHANGED << disk, hist, origin, mark, approved, known, misdated, before, unkept >>

(* ... and puts that time on record for the task afterwards. *)
ReadContent(t, p) ==
    /\ tool[t].pc = "read"
    /\ tool[t].path = << p >>
    /\ tool' = [tool EXCEPT ![t] = NoCall]
    /\ IF disk[p] = Absent THEN UNCHANGED << mark, known, misdated >>
       ELSE /\ mark' = [mark EXCEPT ![t][p] = tool[t].stat]
            /\ known' = [known EXCEPT ![t][p] = TRUE]
            /\ misdated' = [misdated EXCEPT ![t][p] = FALSE]
    /\ UNCHANGED << disk, hist, origin, approved, calls, before, unkept >>

(* A file may be overwritten whose time is the one on record. *)
RequireFresh(t, p) == mark[t][p] = "fresh"

BeginEdit(t, p, text) ==
    /\ Take
    /\ tool' = [tool EXCEPT ![t] = [NoCall EXCEPT !.pc = "write", !.path = << p >>,
                                                !.text = text, !.was = disk[p]]]
    /\ UNCHANGED << disk, hist, origin, mark, approved, known, misdated, before, unkept >>

(* edit_file in mode write, and write_result: all of the text. *)
WriteFileContent(t, p, text) ==
    /\ Ready(t)
    /\ Resolve(t, p)
    /\ disk[p] # Absent => RequireFresh(t, p)
    /\ BeginEdit(t, p, text)

(* edit_file in mode patch: a file that is there, and a text it does not   *)
(* hold yet.                                                               *)
PatchFileTargets(t, p, text) ==
    /\ Ready(t)
    /\ Resolve(t, p)
    /\ disk[p] \notin {Absent, text}
    /\ RequireFresh(t, p)
    /\ BeginEdit(t, p, text)

(* edit_skill and edit_tool write and patch what they find. *)
EditVariant(t, p, text) ==
    /\ Ready(t)
    /\ p \in SkillPaths
    /\ BeginEdit(t, p, text)

(* The text goes to disk, over whatever is there by now... *)
WriteFile(t, p) ==
    /\ tool[t].pc = "write"
    /\ tool[t].path = << p >>
    /\ Write(p, tool[t].text)
    /\ mark' = Stale(p)
    /\ known' = KnownTo({t}, p)
    /\ tool' = [Overtaken(p) EXCEPT ![t].pc = "written", ![t].stat = "fresh"]
    /\ UNCHANGED << hist, origin, approved, calls, misdated, before, unkept >>

(* ... markWritten takes the time the file has now, and what it was before *)
(* goes into the history.  edit_skill and edit_tool leave the mark alone.  *)
Written(t, p) ==
    /\ tool[t].pc = "written"
    /\ tool[t].path = << p >>
    /\ IF disk[p] = Absent \/ p \in SkillPaths THEN UNCHANGED << mark, misdated >>
       ELSE /\ mark' = [mark EXCEPT ![t][p] = "fresh"]
            /\ misdated' = [misdated EXCEPT ![t][p] = tool[t].stat # "fresh"]
    /\ Record(t, p, Capture(tool[t].was, tool[t].text))
    /\ Touch(t, p, tool[t].was)
    /\ tool' = [tool EXCEPT ![t] = NoCall]
    /\ UNCHANGED << disk, approved, calls, known >>

(* edit_file in mode remove: the file is moved to the store's trash. *)
RemoveToTrash(t, p) ==
    /\ Ready(t)
    /\ Resolve(t, p)
    /\ disk[p] # Absent
    /\ Take
    /\ Write(p, Absent)
    /\ mark' = Stale(p)
    /\ known' = KnownTo({}, p)
    /\ RecordDelete(t, p, disk[p])
    /\ Touch(t, p, disk[p])
    /\ tool' = Overtaken(p)
    /\ UNCHANGED << approved, misdated >>

-----------------------------------------------------------------------------
(* Restoring. *)

(* A row whose copy is gone can not be restored. *)
RestoreBlock(row) == row.action = "delete" /\ ~row.kept

(* The file is already what the row says. *)
NothingToDo(row) ==
    \/ row.action = "create" /\ disk[row.path] = Absent
    \/ row.action = "modify" /\ disk[row.path] = row.text

CallsAfter(row) == IF RestoreBlock(row) \/ NothingToDo(row) THEN tool
                   ELSE Overtaken(row.path)

(* One row is restored by task t: the file goes, or comes back as it was,  *)
(* and that is a change like any other.                                    *)
Restore(t, row) ==
    LET p == row.path
    IN IF RestoreBlock(row) \/ NothingToDo(row)
       THEN UNCHANGED << disk, hist, origin, mark, known, before, unkept >>
       ELSE /\ Write(p, IF row.action = "create" THEN Absent ELSE row.text)
            /\ mark' = Stale(p)
            /\ known' = KnownTo({}, p)
            /\ Touch(t, p, disk[p])
            /\ IF row.action = "create" THEN RecordDelete(t, p, disk[p])
               ELSE Record(t, p, Capture(disk[p], row.text))

(* edit_file in mode restore with a version: the state after a row is what *)
(* the next row of the file says was there before.                         *)
RestoreTo(t) ==
    /\ Ready(t)
    /\ \E i \in 1 .. Len(hist) :
          LET next == {j \in i + 1 .. Len(hist) : hist[j].path = hist[i].path}
          IN /\ next # {}
             /\ Restore(t, hist[Min(next)])
             /\ tool' = CallsAfter(hist[Min(next)])
    /\ Take
    /\ UNCHANGED << approved, misdated >>

(* The rows of a task, oldest first. *)
RowsOf(task, within) ==
    Pick(hist, {i \in DOMAIN hist : hist[i].task = task /\ hist[i].path \in within})

(* The row of an id, if it is in the table. *)
Found(id) == \E row \in Range(hist) : row.id = id
Get(id) == CHOOSE row \in Range(hist) : row.id = id

(* ... with a task's name: every file it touched, or the one asked for.    *)
(* The rows to restore are found first, and known by their ids from then.  *)
UndoStart(t) ==
    /\ Ready(t)
    /\ \E task \in Tasks, within \in {Paths} \cup {{p} : p \in Paths} :
          LET rows == RowsOf(task, within)
          IN /\ rows # << >>
             /\ tool' = [tool EXCEPT ![t] =
                   [NoCall EXCEPT !.pc = "undo",
                                  !.todo = [i \in 1 .. Len(rows) |-> rows[i].id]]]
    /\ Take
    /\ UNCHANGED << disk, hist, origin, mark, approved, known, misdated, before, unkept >>

(* Each is read again when its turn comes, and restored as it is by then:  *)
(* one that was pruned, or whose copy has gone, is reported as failed.     *)
Undo(t) ==
    LET id == tool[t].todo[1]
        rest == Tail(tool[t].todo)
        moved == IF Found(id) THEN CallsAfter(Get(id)) ELSE tool
    IN /\ tool[t].pc = "undo"
       /\ IF Found(id) THEN Restore(t, Get(id))
          ELSE UNCHANGED << disk, hist, origin, mark, known, before, unkept >>
       /\ tool' = [moved EXCEPT ![t] = IF rest = << >> THEN NoCall
                                       ELSE [@ EXCEPT !.todo = rest]]
       /\ UNCHANGED << approved, calls, misdated >>

-----------------------------------------------------------------------------
(* The run ends; the task may be resumed by another one, with an executor  *)
(* and origins of its own.                                                 *)
ClearTaskOrigin(t) ==
    /\ Ready(t)
    /\ \E p \in Paths : origin[t][p] # Nothing \/ mark[t][p] # "none"
    /\ Take
    /\ origin' = [origin EXCEPT ![t] = [p \in Paths |-> Nothing]]
    /\ mark' = [mark EXCEPT ![t] = [p \in Paths |-> "none"]]
    /\ UNCHANGED << disk, hist, approved, tool, known, misdated, before, unkept >>

(* A change no task's history hears of. *)
ByHand(p, text) ==
    /\ disk[p] # text
    /\ Take
    /\ Write(p, text)
    /\ mark' = Stale(p)
    /\ known' = KnownTo({}, p)
    /\ tool' = Overtaken(p)
    /\ UNCHANGED << hist, origin, approved, misdated, before, unkept >>

(* The user, or a program of theirs, changes a file... *)
UserEdit(p, text) == calls < MaxCalls /\ ByHand(p, text)

(* ... and so does run_command, in the paths it may write. *)
RunCommand(t, p, text) == Ready(t) /\ WriteBinds(t, {p}) /\ ByHand(p, text)

(* Every night: the oldest rows of a file go... *)
Prune ==
    LET newer(i) == {j \in i + 1 .. Len(hist) : hist[j].path = hist[i].path}
        keep == {i \in 1 .. Len(hist) : Cardinality(newer(i)) < KeepPerPath}
    IN /\ calls < MaxCalls
       /\ keep # 1 .. Len(hist)
       /\ Take
       /\ hist' = Pick(hist, keep)
       /\ unkept' = [t \in Tasks |-> [p \in Paths |->
                        unkept[t][p] \/ \E r \in Range(hist) \ Range(hist') :
                                            r.task = t /\ r.path = p]]
       /\ UNCHANGED << disk, origin, mark, approved, tool, known, misdated, before >>

(* ... and the copies in the trash that are old enough. *)
CleanStoreTemp ==
    /\ calls < MaxCalls
    /\ \E r \in Range(hist) : r.action = "delete" /\ r.kept
    /\ Take
    /\ hist' = [i \in 1 .. Len(hist) |->
                  [hist[i] EXCEPT !.kept = @ /\ hist[i].action # "delete"]]
    /\ UNCHANGED << disk, origin, mark, approved, tool, known, misdated, before, unkept >>

FilesNext ==
    \/ \E t \in Tasks, p \in Paths :
          \/ Grant(t, p) \/ ReadStat(t, p) \/ ReadContent(t, p)
          \/ WriteFile(t, p) \/ Written(t, p) \/ RemoveToTrash(t, p)
    \/ \E t \in Tasks, p \in Paths, text \in Texts :
          \/ WriteFileContent(t, p, text) \/ PatchFileTargets(t, p, text)
          \/ EditVariant(t, p, text) \/ RunCommand(t, p, text)
    \/ \E t \in Tasks : RestoreTo(t) \/ UndoStart(t) \/ Undo(t) \/ ClearTaskOrigin(t)
    \/ \E p \in Paths, text \in Texts : UserEdit(p, text)
    \/ Prune \/ CleanStoreTemp

FilesSpec == FilesInit /\ [][FilesNext]_filesVars

-----------------------------------------------------------------------------
(* What a task may overwrite it has seen: when the time it has on record   *)
(* is the file's, it has read or written what the file holds (requireFresh *)
(* in tools/file) - unless somebody else wrote the file just before the    *)
(* task looked at the time of its own write.                               *)
FreshIsSeen ==
    \A t \in Tasks, p \in Paths :
        disk[p] # Absent /\ mark[t][p] = "fresh" /\ ~misdated[t][p] => known[t][p]

(* Undoing a task gives each of its files back what it held before the     *)
(* task touched it first, whatever the task and others did to it since,    *)
(* undos and resumed runs of the task included (Undo in the store) -       *)
(* unless, by the time the undo comes to it, the row or the copy it needs  *)
(* is gone, or the row for that first touch was never written because the  *)
(* newest row held the same text, or has been pruned before.               *)
UndoStep ==
    \A t \in Tasks :
        LET id == tool[t].todo[1]  row == Get(id) IN
        tool[t].pc = "undo" /\ tool'[t] # tool[t] /\ Found(id) /\ ~RestoreBlock(row) =>
            unkept[row.task][row.path] \/ << disk'[row.path] >> = before[row.task][row.path]
=============================================================================
