---------------------------- MODULE MCWorkspace -----------------------------
(***************************************************************************)
(* What one session's work leaves behind, scene by scene: its history and  *)
(* memory, the files its tools change, the output of a background command, *)
(* the legs it sends out, the text that streams to the screen, the batches *)
(* of calls the model asks for, the confirmations in the browser, and the  *)
(* messages of a chat.  The scenes share no state, so an execution plays   *)
(* in one of them while the others stand still.                            *)
(***************************************************************************)
EXTENDS CommandWatch, TLC

CONSTANTS
    w1, w2, w3,                   \* writers of the history
    t1, t2, shared, skill,        \* tasks and files
    la, lb, lc, viewer, named, own, \* legs, a web page, sessions
    look, edit, drop, out, raw, secret, script, wrong, ask, mcp, everyTool, \* calls
    c1, c2, p1, p2,               \* confirmations and pages
    m1, m2, m3, ours, other, d1, d2 \* messages, chats, DELETE requests

VARIABLES
    scene,
    file, rows, startAt, log, mutex, saves, stale, there, clock, overtaken,
    summary, cursor, gen, job, commands, world, noise, adopted,
    disk, hist, origin, mark, approved, tool, calls, known, misdated, before, unkept,
    leg, run, onFile, subs, inbox, saved, written, blurred,
    text, read, lineEmitter, stream,
    mode, at, from, slots, batch, turn, granted, unmarked, cache, reply, allow, held, open,
    batches, ran, said, wanted,
    entry, expired, woken, emitter, outstanding, page, events, unseen,
    place, kind, listed, code, letter, album, timers, files, stage, answer, chat, erase, gone

history == << file, rows, startAt, log, mutex, saves, stale, there, clock, overtaken >>
memory == << summary, cursor, gen, job, commands, world, noise, adopted >>
fileVars == << disk, hist, origin, mark, approved, tool, calls, known, misdated, before, unkept >>
legs == << leg, run, onFile, subs, inbox, saved, written, blurred >>
shown == << text, read, lineEmitter, stream >>
asked == << mode, at, from, slots, batch, turn, granted, unmarked, cache, reply, allow, held,
            open, batches, ran, said, wanted >>
browser == << entry, expired, woken, emitter, outstanding, page, events, unseen >>
messages == << place, kind, listed, code, letter, album, timers, files, stage, answer,
               chat, erase, gone >>

-----------------------------------------------------------------------------
Writers == {w1, w2, w3}
MaxRecords == 5
KeepRecords == 3
MaxSecond == 2
TailLen == 4
ChunkLen == 1
M == INSTANCE SessionMemory

Plan(k1, k2, k3, old, rowsOf, sum, cmds, crons, decides) ==
    [kinds |-> (w1 :> k1 @@ w2 :> k2 @@ w3 :> k3), old |-> old, rowsOf |-> rowsOf,
     sum |-> sum, cmds |-> cmds, crons |-> crons, decides |-> decides]
Cmd(c, by) == [cmd |-> c, at |-> by]
T == "turn"
Old == << M!Rec(w1, "user"), M!Rec(w1, "assistant") >>
OldRows == {Old[1], Old[2]}
Plans ==
    { Plan(T, T, T, Old, {}, << >>, << Cmd("keep", "web") >>, 1, FALSE),
      Plan(T, T, "chatter", Old, {}, << >>, << Cmd("keep", "tui") >>, 0, TRUE),
      Plan(T, T, T, Old, OldRows, << >>,
           << Cmd("summary", "web"), Cmd("keep", "web") >>, 1, FALSE),
      Plan(T, T, "push", << >>, {}, << >>, << Cmd("compact", "web") >>, 0, FALSE),
      Plan(T, T, T, Old, {}, << {M!Rec(w1, "user")} >>, << Cmd("keep", "web") >>, 0, FALSE),
      Plan(T, T, "chatter", Old, OldRows, << >>, << Cmd("delete", "web") >>, 1, FALSE),
      Plan(T, T, T, Old, OldRows, << >>,
           << Cmd("compact", "tui"), Cmd("all", "tui") >>, 0, FALSE) }

MemoryStart(p) ==
    M!HistoryInit(p.kinds, p.old, p.rowsOf) /\ M!MemoryInit(p.cmds, p.sum, p.crons, p.decides)
MemoryStep == (M!HistoryNext /\ UNCHANGED memory) \/ M!MemoryNext

-----------------------------------------------------------------------------
Tasks == {t1, t2}
Paths == {shared, skill}
SkillPaths == {skill}
Guarded == {shared}
Texts == {"a", "b"}
KeepPerPath == 1
MaxCalls == 3
F == INSTANCE FileTools

-----------------------------------------------------------------------------
Legs == {la, lb, lc}
Sessions == {named, own}
SessionOf == [l \in Legs |-> IF l = lc THEN own ELSE named]
ParentOf == [l \in Legs |-> IF l = lc THEN << la >> ELSE << >>]
Background == {lb}
Viewers == {viewer}
NameOf == [l \in Legs |-> "report"]
Slots == 2
Buffer == 2
MaxTexts == [l \in Legs |-> IF l = la THEN 2 ELSE IF l = lb THEN 1 ELSE 0]
S == INSTANCE Subagent

-----------------------------------------------------------------------------
Atoms == {"word", "nl", "fence", "header", "think1", "think2", "close1", "close2",
          "ban1", "ban2", "leak1", "leak2"}
UpTo(A, n) == UNION {[1 .. k -> A] : k \in 0 .. n}
Answers ==
    UpTo(Atoms, 4) \cup
    {<< "think1", "think2" >> \o x \o << "close1", "close2" >> \o y :
        x \in UpTo(Atoms, 1), y \in UpTo({"word", "nl", "header"}, 2)}
L == INSTANCE StreamText

-----------------------------------------------------------------------------
Calls == {look, edit, drop, out, raw, secret, script, wrong, ask, mcp}
ReadOnly == {look, secret, out, ask}
Destructive == {drop}
Sensitive == {secret}
Outside == {out}
Unsandboxed == {raw}
Unseen == {script}
Broken == {wrong}
AskUser == ask
Beside == {look, mcp, secret}
Server == {mcp}
EveryTool == everyTool
Asks(a, x) == [allowAll |-> a, asks |-> x, foreground |-> x = "user" /\ ~a]
Modes == {Asks(FALSE, "user"), Asks(TRUE, "user"), Asks(FALSE, "nobody"),
          Asks(FALSE, "refused")}
Batches == {<< edit, drop >>, << secret, look >>, << script, wrong >>, << mcp >>,
            << script >>, << edit, ask >>, << out >>, << raw >>}
Shared == {edit}
MaxConcurrent == 1
MaxBatches == 2
B == INSTANCE ToolBatch

-----------------------------------------------------------------------------
Confirms == {c1, c2}
Pages == {p1, p2}
Queue == 1
Merged == 1
MaxDone == 1
MaxVisits == 2
W == INSTANCE WebConfirms

-----------------------------------------------------------------------------
Inputs == {m1, m2, m3}
Ours == ours
Other == other
Removers == {d1, d2}
MaxParts == [text |-> 1, photo |-> 1, file |-> 1, resume |-> 2, schedule |-> 2]
Most == 2
Attaching == {"photo", "file", "resume", "schedule"}
C == INSTANCE ChatMessages

Group(bot) == [bot |-> bot, group |-> TRUE]
Kinds(k1, k2, k3) == m1 :> k1 @@ m2 :> k2 @@ m3 :> k3
Listed(n) == ours :> n @@ other :> 1
ChatStart ==
    \/ \E bot \in {"telegram", "discord"} :
          C!ChatInit(Group(bot), Kinds("text", "text", "text"), Listed(0), Removers)
    \/ C!ChatInit(Group("telegram"), Kinds("file", "file", "file"), Listed(1), {})
    \/ C!ChatInit(Group("telegram"), Kinds("resume", "schedule", "file"), Listed(1), {})
    \/ C!ChatInit(Group("discord"), Kinds("photo", "text", "resume"), Listed(1), {})

-----------------------------------------------------------------------------
(* A scene that does not play keeps one state. *)
Still == "still"
MemoryStill ==
    /\ file = Still /\ rows = Still /\ startAt = Still /\ log = Still
    /\ mutex = Still /\ saves = Still /\ stale = Still /\ there = Still
    /\ clock = Still /\ overtaken = Still /\ summary = Still /\ cursor = Still
    /\ gen = Still /\ job = Still /\ commands = Still /\ world = Still
    /\ noise = Still /\ adopted = Still
FilesStill ==
    /\ disk = Still /\ hist = Still /\ origin = Still /\ mark = Still
    /\ approved = Still /\ tool = Still /\ calls = Still /\ known = Still
    /\ misdated = Still /\ before = Still /\ unkept = Still
WatchStill == WatchInit /\ agent = FALSE
LegsStill ==
    /\ leg = Still /\ run = Still /\ onFile = Still /\ subs = Still
    /\ inbox = Still /\ saved = Still /\ written = Still /\ blurred = Still
TextStill ==
    /\ text = Still /\ read = Still /\ lineEmitter = Still /\ stream = Still
BatchStill ==
    /\ mode = Still /\ at = Still /\ from = Still /\ slots = Still /\ batch = Still
    /\ turn = Still /\ granted = Still /\ unmarked = Still /\ cache = Still
    /\ reply = Still /\ allow = Still /\ held = Still /\ open = Still
    /\ batches = Still /\ ran = Still /\ said = Still /\ wanted = Still
WebStill ==
    /\ entry = Still /\ expired = Still /\ woken = Still /\ emitter = Still
    /\ outstanding = Still /\ page = Still /\ events = Still /\ unseen = Still
ChatStill ==
    /\ place = Still /\ kind = Still /\ listed = Still /\ code = Still
    /\ letter = Still /\ album = Still /\ timers = Still /\ files = Still
    /\ stage = Still /\ answer = Still /\ chat = Still /\ erase = Still /\ gone = Still

SceneInit(name) ==
    /\ scene = name
    /\ IF name = "memory" THEN \E p \in Plans : MemoryStart(p) ELSE MemoryStill
    /\ IF name = "files" THEN F!FilesInit ELSE FilesStill
    /\ IF name = "watch" THEN WatchInit ELSE WatchStill
    /\ IF name = "legs" THEN S!LegsInit ELSE LegsStill
    /\ IF name = "text" THEN L!StreamInit ELSE TextStill
    /\ IF name = "batch"
       THEN \E l \in {{}, {edit}}, o \in {{}, {"other"}, {"page"}} :
               B!BatchInit(l, o) /\ (o # {} => mode = Asks(FALSE, "user"))
       ELSE BatchStill
    /\ IF name = "web" THEN W!WebInit(Confirms, {p1}, 2) \/ W!WebInit({c1}, Pages, 1)
       ELSE WebStill
    /\ IF name = "chat" THEN ChatStart ELSE ChatStill

Init == \E name \in {"memory", "files", "watch", "legs", "text", "batch", "web", "chat"} :
           SceneInit(name)

Next ==
    \/ /\ scene = "memory" /\ MemoryStep
       /\ UNCHANGED << scene, fileVars, watchVars, legs, shown, asked, browser, messages >>
    \/ /\ scene = "files" /\ F!FilesNext
       /\ UNCHANGED << scene, history, memory, watchVars, legs, shown, asked, browser,
                       messages >>
    \/ /\ scene = "watch" /\ WatchNext
       /\ UNCHANGED << scene, history, memory, fileVars, legs, shown, asked, browser,
                       messages >>
    \/ /\ scene = "legs" /\ S!LegsNext
       /\ UNCHANGED << scene, history, memory, fileVars, watchVars, shown, asked, browser,
                       messages >>
    \/ /\ scene = "text" /\ L!ConsumeStream
       /\ UNCHANGED << scene, history, memory, fileVars, watchVars, legs, asked, browser,
                       messages >>
    \/ /\ scene = "batch" /\ B!BatchNext
       /\ UNCHANGED << scene, history, memory, fileVars, watchVars, legs, shown, browser,
                       messages >>
    \/ /\ scene = "web" /\ W!WebNext
       /\ UNCHANGED << scene, history, memory, fileVars, watchVars, legs, shown, asked,
                       messages >>
    \/ /\ scene = "chat" /\ C!ChatNext
       /\ UNCHANGED << scene, history, memory, fileVars, watchVars, legs, shown, asked,
                       browser >>

allVars == << scene, history, memory, fileVars, watchVars, legs, shown, asked, browser, messages >>
Spec == Init /\ [][Next]_allVars

-----------------------------------------------------------------------------
(* What the scenes' modules promise, each in its own scene; the watcher's  *)
(* NoErrorLost holds of one that stands still as well.                     *)

(* An append leaves what was on file followed by its own records, less the *)
(* oldest; once the store has rows, every record on file has one; and a    *)
(* compaction leaves no record out that was neither before the model nor   *)
(* has its row - as long as no reset, deletion or other process takes the  *)
(* history or its mutex away under a writer.  Of what a reset had read,    *)
(* each record is in the summary, noise, or behind its cursor; what is     *)
(* older, or saved meanwhile, it does not speak of (history.go, replace.go,*)
(* reset.go).                                                              *)
MemoryKept ==
    [][scene = "memory" =>
          M!AppendStep /\ M!ReplaceStep /\ M!ResetStep /\ M!RowsFollow']_allVars

(* An edit changes what its task has seen, and an undo gives back what was *)
(* there before the task's first change, unless the row or the copy it     *)
(* needs has gone by then (readFiles.go, fileRestore.go).                  *)
FilesKept == [][scene = "files" => F!UndoStep /\ F!FreshIsSeen']_allVars

(* A leg's report tells all its parent is to know (waitResume.go).         *)
ReportIsWhole == scene = "legs" => S!ReportIsWhole

(* What is shown as it streams begins what is shown of the whole answer,   *)
(* up to where it is cut off, and is all of it in the end (streamText.go). *)
StreamedAsWhole == scene = "text" => L!StreamedAsWhole

(* A call runs with leave only, and nothing is reported to a run that has  *)
(* closed its channel (toolCall.go, register.go).                          *)
BatchKept == scene = "batch" => B!RunsWithLeave /\ B!NothingAfterClose

(* A page shows what waits for its user, and is told of what it missed     *)
(* (confirm.go, multilog.go).                                              *)
PagesTold == scene = "web" => W!ConfirmsShown /\ W!TruncationTold

(* A file is handled once, a chat that did not get an answer was told so,  *)
(* and a chat that was removed is out (filegroup.go, reply.go, channel.go).*)
ChatKept == scene = "chat" => C!FilesOnce /\ C!AnswersTold /\ C!RemovedStaysOut
=============================================================================
