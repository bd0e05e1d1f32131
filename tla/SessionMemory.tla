--------------------------- MODULE SessionMemory ----------------------------
(***************************************************************************)
(* The long-term memory of a session: its summary and the cursor that says *)
(* up to which second the history has been summarised, the job that brings *)
(* them up to date (Generate, run by the cron every quarter of an hour and *)
(* by the user's commands) and the commands that take history away:        *)
(* compact by a model, reset with or without the summary, delete.          *)
(*                                                                         *)
(* A command comes from the web page, in the process that runs the turns,  *)
(* or from a terminal window, a process with a mutex map of its own.  A    *)
(* summary is the set of records merged into it.  The decision model may   *)
(* leave noise out of it; what it prunes from the summary as outdated      *)
(* still counts as covered.  Unreadable files, the choice of the model and *)
(* its fallbacks (Send) are left out: a call answers or fails.             *)
(***************************************************************************)
EXTENDS SessionHistory, Sublists

CONSTANTS
    TailLen,  \* MAX_HISTORY_MESSAGES: the records a summary is made from
    ChunkLen  \* SUMMARY_RUNES: the records one call summarises

VARIABLES
    summary,  \* summary.json: the records merged into it, NoSummary when missing
    cursor,   \* the summary's cursor, 0 when missing
    gen,      \* Generate, as the cron and as a command run it
    job,      \* the command under way
    commands, \* the commands still to come
    world,    \* bound: the cron's runs to come; whether a decision model is there
    noise,    \* ghost: what the decision model judged to be noise
    adopted   \* ghost: a Generate took the time of the last record over as
              \* the cursor of a summary that had none

memoryVars == << summary, cursor, gen, job, commands, world, noise,
                 adopted >>
sessionVars == << historyVars, memoryVars >>

NoSummary == << >>  \* no summary on file; else << the records in it >>
Jobs == {"cron", "command"}
Commands == {"summary", "compact", "keep", "all", "delete"}

NoGen == [pc |-> "idle", hist |-> << >>, base |-> {}, since |-> 0, from |-> 0,
          upto |-> 0, rest |-> << >>, chunk |-> << >>, raced |-> FALSE]
NoJob == [pc |-> "idle", cmd |-> "", at |-> "", old |-> << >>, lines |-> {}]

MemoryInit(cmds, old, crons, decides) ==
    /\ summary = old
    /\ cursor = 0
    /\ gen = [j \in Jobs |-> NoGen]
    /\ job = NoJob
    /\ commands = cmds
    /\ world = [crons |-> crons, decides |-> decides]
    /\ noise = {}
    /\ adopted = FALSE

Latest(s) == IF s = << >> THEN 0
             ELSE Max({TimeOf(r) : r \in Range(s)})

-----------------------------------------------------------------------------
(* What a Generate reads of the history: what is newer than the cursor. *)
SinceCursor(s) == IF cursor = 0 THEN s
                  ELSE Pick(s, {i \in 1 .. Len(s) : TimeOf(s[i]) > cursor})

(* A history without some records. *)
Without(s, out) == Pick(s, {i \in 1 .. Len(s) : s[i] \notin out})

(* The exchanges of a history: each from a user's record on, what comes    *)
(* before the first of them on its own.                                    *)
Exchanges(s) ==
    LET starts == {i \in 1 .. Len(s) : i = 1 \/ s[i].role = "user"}
        end(i) == IF \E k \in starts : k > i
                  THEN Min({k \in starts : k > i}) - 1 ELSE Len(s)
    IN {{s[k] : k \in i .. end(i)} : i \in starts}

(* Whoever writes the summary overtakes the others that have read it. *)
Race(g, j) == [k \in Jobs |-> IF k # j /\ g[k].pc # "idle"
                              THEN [g[k] EXCEPT !.raced = TRUE] ELSE g[k]]

End(j, pc) == [gen EXCEPT ![j] = [@ EXCEPT !.pc = pc, !.rest = << >>, !.chunk = << >>,
                                           !.base = {}, !.upto = 0, !.from = 0]]

(* Generate reads the summary (an empty one is written when there is none) *)
(* and the cursor.  A summary without a cursor gets the time of the last   *)
(* record as its cursor, and that is all.                                  *)
Read(j) ==
    LET base == IF summary = NoSummary THEN {} ELSE summary[1]
        since == SinceCursor(gen[j].hist)
        next == [gen EXCEPT ![j].pc = "decide", ![j].base = base,
                            ![j].since = cursor, ![j].from = cursor,
                            ![j].upto = Latest(since), ![j].rest = since]
    IN /\ gen[j].pc = "read"
       /\ summary' = << base >>
       /\ there' = (there \/ summary = NoSummary)
       /\ IF cursor = 0 /\ base # {}
          THEN /\ cursor' = Latest(gen[j].hist)
               /\ adopted' = TRUE
               /\ stale' = FALSE
               /\ gen' = Race(End(j, "ended"), j)
          ELSE /\ stale' = (stale /\ summary # NoSummary)
               /\ gen' = IF since = << >> THEN [End(j, "ended") EXCEPT ![j].since = cursor]
                         ELSE IF summary = NoSummary THEN Race(next, j) ELSE next
               /\ UNCHANGED << cursor, adopted >>
       /\ UNCHANGED << file, rows, startAt, log, mutex, saves, clock,
                       overtaken, job, commands, world, noise >>

(* The decision model, when there is one, leaves noise out.  When nothing  *)
(* else is left the cursor moves on over it.                               *)
Decide(j) ==
    /\ gen[j].pc = "decide"
    /\ \E dull \in SUBSET Exchanges(gen[j].rest) :
          LET kept == Without(gen[j].rest, UNION dull)
          IN /\ world.decides \/ dull = {}
             /\ noise' = noise \cup UNION dull
             /\ IF kept = << >>
                THEN /\ summary' = << gen[j].base >>
                     /\ cursor' = gen[j].upto
                     /\ stale' = FALSE
                     /\ there' = TRUE
                     /\ gen' = Race(End(j, "ended"), j)
                ELSE /\ gen' = [gen EXCEPT ![j].pc = "call", ![j].rest = kept]
                     /\ UNCHANGED << summary, cursor, stale, there >>
    /\ UNCHANGED << file, rows, startAt, log, mutex, saves, clock,
                    overtaken, job, commands, world, adopted >>

(* The next chunk: as many records as one call takes, and one more when    *)
(* the last of them is a user's.                                           *)
ChunkOf(s) ==
    LET n == Min({ChunkLen, Len(s)})
    IN SubSeq(s, 1, IF n < Len(s) /\ s[n].role = "user" THEN n + 1 ELSE n)

(* The model answers: the summary on file is what was read merged with the *)
(* chunk.                                                                  *)
Save(j) ==
    LET chunk == ChunkOf(gen[j].rest)
    IN /\ gen[j].pc = "call"
       /\ summary' = << gen[j].base \cup Range(chunk) >>
       /\ stale' = FALSE
       /\ there' = TRUE
       /\ gen' = Race([gen EXCEPT ![j].pc = "cursor", ![j].chunk = chunk,
                                  ![j].base = @ \cup Range(chunk)], j)
       /\ UNCHANGED << file, rows, startAt, log, mutex, saves, clock,
                       overtaken, cursor, job, commands, world, noise, adopted >>

(* Then the cursor follows, to the end of the chunk and, after the last    *)
(* one, to the end of what was read.                                       *)
SaveCursor(j) ==
    LET rest == SubSeq(gen[j].rest, Len(gen[j].chunk) + 1, Len(gen[j].rest))
        after == Max({gen[j].from, Latest(gen[j].chunk)})
    IN /\ gen[j].pc = "cursor"
       /\ IF rest = << >>
          THEN /\ cursor' = Max({after, gen[j].upto})
               /\ gen' = End(j, "ended")
          ELSE /\ cursor' = after
               /\ gen' = [gen EXCEPT ![j].pc = "call", ![j].rest = rest,
                                     ![j].chunk = << >>, ![j].from = after]
       /\ UNCHANGED << historyVars, summary, job, commands, world, noise, adopted >>

(* The model gives no usable answer: what is done stays, the rest is left. *)
CallFails(j) ==
    /\ gen[j].pc = "call"
    /\ gen' = End(j, "failed")
    /\ UNCHANGED << historyVars, summary, cursor, job, commands, world, noise, adopted >>

Generate(j) == Read(j) \/ Decide(j) \/ Save(j) \/ SaveCursor(j) \/ CallFails(j)

-----------------------------------------------------------------------------
(* The cron: a session whose history is newer than its summary gets one,   *)
(* from the last records.                                                  *)
CronStart ==
    /\ gen["cron"].pc = "idle"
    /\ file # << >>
    /\ stale
    /\ world.crons > 0
    /\ world' = [world EXCEPT !.crons = @ - 1]
    /\ gen' = [gen EXCEPT !["cron"] = [NoGen EXCEPT !.pc = "read",
                                                    !.hist = LastOf(file, TailLen)]]
    /\ UNCHANGED << historyVars, summary, cursor, job, commands, noise, adopted >>

CronEnd ==
    /\ gen["cron"].pc \in {"ended", "failed"}
    /\ gen' = [gen EXCEPT !["cron"] = NoGen]
    /\ UNCHANGED << historyVars, summary, cursor, job, commands, world, noise, adopted >>

(* A command begins: what it reads of the history it reads now. *)
Command ==
    /\ job.pc = "idle"
    /\ there
    /\ commands # << >>
    /\ commands' = Tail(commands)
    /\ LET cmd == commands[1].cmd
           hist == LastOf(file, TailLen)
           summarises == cmd \in {"summary", "keep"} /\ hist # << >>
       IN /\ job' = [NoJob EXCEPT
                        !.cmd = cmd, !.at = commands[1].at,
                        !.old = CASE cmd = "compact" -> file
                                  [] cmd = "keep" -> hist
                                  [] OTHER -> << >>,
                        !.pc = CASE summarises -> "summary"
                                 [] cmd = "compact" -> "compact"
                                 [] cmd = "keep" /\ ~summarises -> "check"
                                 [] cmd = "summary" /\ ~summarises -> "idle"
                                 [] cmd = "all" -> "remove"
                                 [] cmd = "delete" -> "delete"]
          /\ gen' = IF summarises
                    THEN [gen EXCEPT !["command"] = [NoGen EXCEPT !.pc = "read",
                                                                  !.hist = hist]]
                    ELSE gen
    /\ UNCHANGED << historyVars, summary, cursor, world, noise, adopted >>

EndJob == job' = NoJob /\ gen' = [gen EXCEPT !["command"] = NoGen]

(* The summary a command asked for is there or has failed: a failure stops *)
(* a reset.                                                                *)
SummaryDone ==
    /\ job.pc = "summary"
    /\ gen["command"].pc \in {"ended", "failed"}
    /\ IF job.cmd = "keep" /\ gen["command"].pc = "ended"
       THEN job' = [job EXCEPT !.pc = "check"] /\ gen' = gen
       ELSE EndJob
    /\ UNCHANGED << historyVars, summary, cursor, commands, world, noise, adopted >>

(* A reset that keeps the summary needs one. *)
Check ==
    /\ job.pc = "check"
    /\ IF summary = NoSummary THEN EndJob
       ELSE job' = [job EXCEPT !.pc = "remove"] /\ gen' = gen
    /\ UNCHANGED << historyVars, summary, cursor, commands, world, noise, adopted >>

(* session.Reset: the history's file goes, whoever may be writing it... *)
RemoveFile ==
    /\ job.pc = "remove"
    /\ file' = << >>
    /\ stale' = FALSE
    /\ overtaken' = (overtaken \/ SomebodySaves)
    /\ job' = [job EXCEPT !.pc = "clear"]
    /\ UNCHANGED << rows, startAt, log, mutex, saves, there, clock,
                    summary, cursor, gen, commands, world, noise, adopted >>

(* The mutex that is left in this process's map: a terminal window takes   *)
(* it out of its own. *)
MutexAfter == IF job.at = "web" THEN 0 ELSE mutex

(* ... then the rows, the log and the mutex, the summary unless it is kept.*)
Clear ==
    /\ job.pc = "clear"
    /\ rows' = {}
    /\ startAt' = 0
    /\ log' = {}
    /\ mutex' = MutexAfter
    /\ overtaken' = (overtaken \/ SomebodySaves)
    /\ IF job.cmd = "keep"
       THEN UNCHANGED << summary, cursor >> /\ gen' = [gen EXCEPT !["command"] = NoGen]
       ELSE /\ summary' = NoSummary
            /\ cursor' = 0
            /\ gen' = Race(gen, "command")
    /\ job' = NoJob
    /\ UNCHANGED << file, saves, there, clock, stale, commands, world, noise, adopted >>

(* DeleteSession: rows and mutex first, then the directory. *)
Delete ==
    /\ job.pc = "delete"
    /\ rows' = {}
    /\ startAt' = 0
    /\ mutex' = MutexAfter
    /\ overtaken' = (overtaken \/ SomebodySaves)
    /\ job' = [job EXCEPT !.pc = "rmdir"]
    /\ UNCHANGED << file, log, saves, there, clock, summary, cursor, stale, gen,
                    commands, world, noise, adopted >>

RemoveDir ==
    /\ job.pc = "rmdir"
    /\ file' = << >>
    /\ log' = {}
    /\ summary' = NoSummary
    /\ cursor' = 0
    /\ stale' = FALSE
    /\ there' = FALSE
    /\ overtaken' = (overtaken \/ SomebodySaves)
    /\ gen' = Race(gen, "command")
    /\ job' = NoJob
    /\ UNCHANGED << rows, startAt, mutex, saves, clock, commands, world, noise, adopted >>

(* A compaction by a model: of a history of four records and two exchanges *)
(* at least some exchanges go (the blank and the repeated ones, and those  *)
(* the model names); with them goes what comes before the first user's     *)
(* record.  Replace waits for the mutex of its own process.                *)
Replace ==
    LET users == {i \in 1 .. Len(job.old) : job.old[i].role = "user"}
        lead == IF users = {} THEN {} ELSE {job.old[i] : i \in 1 .. Min(users) - 1}
        all == {ex \in Exchanges(job.old) : \E r \in ex : r.role = "user"}
        enough == Len(job.old) >= 4 /\ Cardinality(users) >= 2
    IN /\ job.pc = "compact"
       /\ \E out \in SUBSET all :
             /\ enough \/ out = {}
             /\ LET kept == Without(job.old, lead \cup UNION out)
                IN IF out = {}
                   THEN /\ job' = [job EXCEPT !.pc = "sync"]
                        /\ UNCHANGED << file, stale, mutex, overtaken >>
                   ELSE /\ job.at = "web" => LoadOrStore \notin Held
                        /\ file' = kept
                        /\ stale' = TRUE
                        /\ mutex' = IF job.at = "web" THEN LoadOrStore ELSE mutex
                        /\ overtaken' = (overtaken \/ (job.at # "web" /\ SomebodySaves))
                        /\ job' = [job EXCEPT !.pc = "sync", !.old = kept]
       /\ UNCHANGED << rows, startAt, log, saves, there, clock, summary, cursor, gen,
                       commands, world, noise, adopted >>

(* The action log follows: it is read, and written back without the blocks *)
(* of the exchanges that are not kept.                                     *)
ReadLog ==
    /\ job.pc = "sync"
    /\ job' = IF log = {} THEN NoJob ELSE [job EXCEPT !.pc = "retain", !.lines = log]
    /\ UNCHANGED << historyVars, summary, cursor, gen, commands, world, noise, adopted >>

RetainExchanges ==
    /\ job.pc = "retain"
    /\ log' = {w \in job.lines : Rec(w, "user") \in Range(job.old)}
    /\ job' = NoJob
    /\ UNCHANGED << file, rows, startAt, mutex, saves, there, clock, overtaken,
                    summary, cursor, stale, gen, commands, world, noise, adopted >>

MemoryNext ==
    \/ \E j \in Jobs : Generate(j)
    \/ CronStart \/ CronEnd
    \/ Command \/ SummaryDone \/ Check \/ RemoveFile \/ Clear
    \/ Delete \/ RemoveDir
    \/ Replace \/ ReadLog \/ RetainExchanges

(* A session as a start of the program finds it: turns that are over, rows *)
(* for all of them or, from before there was a store, for none.            *)
SessionInit ==
    \E kinds \in [Writers -> WriterKinds], old \in Seq(Records), oldRows \in SUBSET Records,
       cmds \in Seq([cmd : Commands, at : {"web", "tui"}]),
       sum \in {NoSummary} \cup {<< x >> : x \in SUBSET Records},
       crons \in Nat, decides \in BOOLEAN :
          /\ oldRows = {} \/ Range(old) \subseteq oldRows
          /\ HistoryInit(kinds, old, oldRows)
          /\ MemoryInit(cmds, sum, crons, decides)
SessionNext == (HistoryNext /\ UNCHANGED memoryVars) \/ MemoryNext
SessionSpec == SessionInit /\ [][SessionNext]_sessionVars

-----------------------------------------------------------------------------
(* A reset that keeps the summary keeps what the session knows (Reset in   *)
(* agents/exec): when the history goes, each record the reset had read is  *)
(* in the summary on file, was judged to be noise, or was behind the       *)
(* cursor when the summary was made - unless another Generate wrote the    *)
(* summary meanwhile, or the summary had no cursor and took one over.      *)
ResetStep ==
    /\ job.pc = "remove" /\ job.cmd = "keep" /\ job'.pc = "clear"
    /\ ~gen["command"].raced /\ ~adopted
    => \A r \in Range(job.old) :
          \/ r \in (UNION Range(summary)) \cup noise
          \/ TimeOf(r) <= gen["command"].since

(* A compaction by a model loses what was saved since it read the history  *)
(* (Replace in session/history after the model's call), but not from the   *)
(* store: each record it leaves out was before the model, or has its row - *)
(* unless the history or its mutex was taken away under a writer.          *)
ReplaceStep ==
    job.pc = "compact" /\ job'.pc = "sync" /\ ~overtaken =>
        Range(file) \ Range(file') \subseteq Range(job.old) \cup rows'
=============================================================================
