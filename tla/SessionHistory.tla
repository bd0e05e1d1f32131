--------------------------- MODULE SessionHistory ---------------------------
(***************************************************************************)
(* The history of one session: history.json, which every turn rewrites     *)
(* under a mutex of the session, the rows of the SQLite store that follow  *)
(* it, and the session's action log.                                       *)
(*                                                                         *)
(* A writer is a turn of the session (Execute: the user's record is        *)
(* stamped when the turn starts, the assistant's when it is saved), a      *)
(* message a chat bot only overhears (one user record) or one it pushes    *)
(* into a chat (one assistant record).  The mutex of a session lives in a  *)
(* map: whoever resets or deletes the session takes it out, and the next   *)
(* writer makes a new one while an older holder goes on.                   *)
(*                                                                         *)
(* A record stands for its text; times are the seconds the summary         *)
(* compares, sizes are numbers of records.  Failed file writes, blank      *)
(* records, the size trim of the action log and the search index of the    *)
(* key-value store are left out.  The action log is the set of turns whose *)
(* block of lines it holds.                                                *)
(***************************************************************************)
EXTENDS Integers, FiniteSets, SequencesExt

CONSTANTS
    Writers,    \* what appends to the history, in this session
    MaxRecords, \* MAX_HISTORY_BYTES, in records
    KeepRecords,\* three quarters of it
    MaxSecond   \* bound: the last second of the clock

VARIABLES
    file,     \* history.json: the records in order
    rows,     \* the session's rows in the store
    startAt,  \* the store's start_at: what the pages show begins there
    log,      \* the action log: the turns with a block of lines in it
    mutex,    \* the mutex in muMap, 0 when there is none
    saves,    \* per writer: where it is
    stale,    \* history.json is newer than summary.json
    there,    \* the session's directory is there
    clock,    \* the second it is
    overtaken \* ghost: the history was replaced or removed, or its mutex
              \* taken out of the map, while a writer held or awaited it

historyVars == << file, rows, startAt, log, mutex, saves, stale,
                  there, clock, overtaken >>

WriterKinds == {"turn", "chatter", "push"}
Second == 1 .. MaxSecond
Rec(w, role) == [by |-> w, role |-> role]
Records == [by : Writers, role : {"user", "assistant"}]

-----------------------------------------------------------------------------
(* When a record was sent: a turn's user record carries the time the turn  *)
(* started, every other one the time it was saved.                         *)
TimeOf(rec) == IF rec.role = "user" THEN saves[rec.by].sent
                                    ELSE saves[rec.by].at

(* What a writer adds to the history. *)
Delta(w) ==
    CASE saves[w].kind = "turn"    -> << Rec(w, "user"), Rec(w, "assistant") >>
      [] saves[w].kind = "chatter" -> << Rec(w, "user") >>
      [] saves[w].kind = "push"    -> << Rec(w, "assistant") >>

(* The last n records. *)
LastOf(s, n) == IF Len(s) > n THEN SubSeq(s, Len(s) - n + 1, Len(s)) ELSE s

(* Where the size compaction cuts: enough records to come down to three    *)
(* quarters, and on until the record before the cut is an assistant's.     *)
Cut(s) ==
    LET need == Len(s) - KeepRecords
        ends == {i \in need .. Len(s) : s[i].role = "assistant"}
    IN IF Len(s) <= MaxRecords \/ Len(s) < 4 \/ ends = {} THEN 0
       ELSE LET i == CHOOSE j \in ends : \A k \in ends : j <= k
            IN IF i >= Len(s) THEN 0 ELSE i

-----------------------------------------------------------------------------
HistoryInit(kinds, old, oldRows) ==
    /\ saves = [w \in Writers |->
                   [kind |-> kinds[w], sent |-> 1, at |-> 1, mu |-> 0, latest |-> << >>,
                    pc |-> IF w \in {r.by : r \in Range(old)} THEN "done" ELSE "idle"]]
    /\ file = old
    /\ rows = oldRows
    /\ startAt = 0
    /\ log = {r.by : r \in Range(old)}
    /\ mutex = 0
    /\ stale = (old # << >>)
    /\ there = TRUE
    /\ clock = 1
    /\ overtaken = FALSE

(* A lock that is held, and who holds it. *)
Held == {saves[w].mu : w \in {v \in Writers : saves[v].pc = "write"}}
InUse == {saves[w].mu : w \in {v \in Writers : saves[v].pc \in {"lock", "write"}}}

(* The mutex the map gives: the one in it, or a new one. *)
LoadOrStore == IF mutex # 0 THEN mutex
               ELSE CHOOSE n \in 1 .. Cardinality(Writers) + 1 : n \notin InUse

(* A writer comes to its session: it has to be there, but for a bot that   *)
(* overhears a message, which makes it.                                    *)
Start(w) ==
    /\ saves[w].pc = "idle"
    /\ there \/ saves[w].kind = "chatter"
    /\ there' = TRUE
    /\ \E now \in {clock, clock + 1} \cap Second :
          /\ clock' = now
          /\ saves' = [saves EXCEPT ![w].pc = "running", ![w].sent = now]
    /\ log' = IF saves[w].kind = "turn" THEN log \cup {w} ELSE log
    /\ UNCHANGED << file, rows, startAt, mutex, stale, overtaken >>

(* saveNewHistory, or the bot's record: Append loads the mutex... *)
LoadMutex(w) ==
    /\ saves[w].pc = "running"
    /\ saves' = [saves EXCEPT ![w].pc = "lock", ![w].at = clock, ![w].mu = LoadOrStore]
    /\ mutex' = LoadOrStore
    /\ UNCHANGED << file, rows, startAt, log, stale, there, clock, overtaken >>

\* Variant for mutation checks: the history is read without the mutex.
LockAndReadFree(w) ==
    /\ saves[w].pc = "lock"
    /\ saves' = [saves EXCEPT ![w].pc = "write", ![w].latest = file]
    /\ UNCHANGED << file, rows, startAt, log, mutex, stale, there,
                   clock, overtaken >>

(* ... locks it and reads the file... *)
LockAndRead(w) ==
    /\ saves[w].pc = "lock"
    /\ saves[w].mu \notin Held
    /\ saves' = [saves EXCEPT ![w].pc = "write", ![w].latest = file]
    /\ UNCHANGED << file, rows, startAt, log, mutex, stale, there,
                   clock, overtaken >>

(* The rows after a save: all of the history when the store has none of    *)
(* this session yet, else what is new.                                     *)
NewRows(w) ==
    LET latest == saves[w].latest \o Delta(w)
    IN IF rows = {} THEN Range(latest) ELSE rows \cup Range(Delta(w))

(* ... writes it with the new records, the rows after it, and compacts it  *)
(* when it has grown too large; the mutex is released.                     *)
WriteAndUnlock(w) ==
    LET latest == saves[w].latest \o Delta(w)
        cut == Cut(latest)
        kept == SubSeq(latest, cut + 1, Len(latest))
    IN /\ saves[w].pc = "write"
       /\ file' = kept
       /\ rows' = NewRows(w)
       /\ startAt' = IF cut > 0 THEN TimeOf(kept[1]) ELSE startAt
       /\ saves' = [saves EXCEPT ![w].pc = "done", ![w].latest = << >>, ![w].mu = 0]
       /\ stale' = TRUE
       /\ there' = TRUE
       /\ UNCHANGED << log, mutex, clock, overtaken >>

HistoryNext == \E w \in Writers :
    \/ Start(w)
    \/ LoadMutex(w)
    \/ LockAndRead(w)
    \/ WriteAndUnlock(w)

-----------------------------------------------------------------------------
(* A writer that would put back what somebody else has just taken away. *)
SomebodySaves == \E w \in Writers : saves[w].pc \in {"lock", "write"}

(* An append is atomic: what is on file afterwards is what was on file     *)
(* before it followed by its own records, less the oldest ones when the    *)
(* history has grown too large (Append, compact in session/history), and   *)
(* never nothing.  Only a reset, a deletion or a replacement from another  *)
(* process, which do not wait for the writer that holds the mutex, may     *)
(* break this.                                                             *)
AppendStep ==
    \A w \in Writers :
        saves[w].pc = "write" /\ saves'[w].pc = "done" /\ ~overtaken =>
            /\ file' # << >>
            /\ IsSuffix(file', file \o Delta(w))
(* The store never has only a part of the history: once it has a row of    *)
(* the session it has every record on file, the ones from before the       *)
(* store was there included (Append's import of the whole history).        *)
RowsFollow == rows # {} /\ ~overtaken => Range(file) \subseteq rows
=============================================================================
