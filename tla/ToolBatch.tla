----------------------------- MODULE ToolBatch ------------------------------
(***************************************************************************)
(* What a run does with the tool calls of an answer (toolCall): it looks   *)
(* at all of them in turn, asks the user for leave where one needs it, and *)
(* then runs those that may run, some of them beside each other; and the   *)
(* allow lists a user adds to meanwhile, in this run or elsewhere.         *)
(*                                                                         *)
(* A call stands for a tool with its arguments, and for the entry an allow *)
(* list would hold for it; patterns a user writes into a list by hand, the *)
(* text of results, images and the unpacking of run_tool are left out.     *)
(* Whether anybody listens for prompts is fixed for a run here; the prompt *)
(* itself is the desk's (PendingRegistry), what a file tool does with a    *)
(* granted path FileTools', and what the loop does with the results        *)
(* TurnLoop's.                                                             *)
(***************************************************************************)
EXTENDS Integers, FiniteSets, SequencesExt

CONSTANTS
    Calls,       \* tool calls
    ReadOnly,    \* those that change nothing: tools, modes, GETs, commands
    Destructive, \* mode remove or restore, or a URL to open
    Sensitive,   \* a read of a sensitive file
    Outside,     \* calls that name a path outside the home directory
    Unsandboxed, \* commands that ask to run outside the sandbox
    Unseen,      \* calls of tools whose schema the model has not got yet
    Broken,      \* an unknown or excluded tool, or arguments that are missing
    AskUser,     \* ask_user
    Beside,      \* tools that may run beside others
    Server,      \* the calls of an MCP server's tools
    EveryTool,   \* the entry that stands for all of them
    Shared,      \* bound: calls that are remembered elsewhere
    Modes,       \* how a run is started: allowAll, and who can be asked
    Batches,     \* the calls an answer may make, as sequences
    MaxConcurrent, \* MAX_CONCURRENT_TOOLS
    MaxBatches   \* bound: answers of the run

VARIABLES
    mode,    \* the run's [allowAll, asks \in {"nobody", "user", "refused"},
             \* foreground: its origin is "cli-"]
    at,      \* where it is
    from,    \* the slots of earlier batches
    slots,   \* one for each call of this and earlier batches
    batch,   \* calls of the batch not looked at yet
    turn,    \* turnAllowAll
    granted, \* calls whose paths the session may use
    unmarked, \* exec.UnmarkedTools
    cache,   \* calls with a result in alreadyCall
    reply,   \* the user's answer to the prompt
    allow,   \* the allow lists: of the work directory, and the global one
    held,    \* per writer: the list it has read and is about to write back,
             \* or Later when it has yet to come
    open,    \* the run's events channel
    batches, \* bound: batches so far
    ran,     \* ghost: slots that have been run
    said,    \* ghost: the user's approvals, with the slot each was for
    wanted   \* ghost: entries some user has asked to be allowed

batchVars == << mode, at, from, slots, batch, turn, granted, unmarked, cache, reply,
                allow, held, open, batches, ran, said, wanted >>

Lists == {"project", "global"}
Writers == {"run", "other", "page"}
ListOf == [w \in Writers |-> IF w = "page" THEN "global" ELSE "project"]
NoReply == << >>
Idle == << >>
Later == << "not", "yet" >>
Slot(c, state) == [call |-> c, state |-> state, handler |-> "off", silent |-> FALSE]

BatchInit(listed, others) ==
    /\ mode \in Modes
    /\ at = "model"
    /\ from = 0
    /\ slots = << >>
    /\ batch = << >>
    /\ turn = FALSE
    /\ granted = {}
    /\ unmarked = Unseen
    /\ cache = {}
    /\ reply = NoReply
    /\ allow = [l \in Lists |-> IF l = "project" THEN listed ELSE {}]
    /\ held = [w \in Writers |-> IF w \in others THEN Later ELSE Idle]
    /\ open = TRUE
    /\ batches = 0
    /\ ran = {}
    /\ said = {}
    /\ wanted = IF EveryTool \in listed THEN listed \cup Server ELSE listed

lookVars == << turn, granted, reply, allow, held, said, wanted >>
looksOnly == << mode, from, open, batches, ran >>

-----------------------------------------------------------------------------
(* The allow lists: files that are read whole and written back whole.      *)

Load == allow["project"] \cup allow["global"]
Match(c) == c \in Load \/ (c \in Server /\ EveryTool \in Load)

(* "Remember" toggles: what is on the list already comes off it. *)
Toggle(list, c) == IF c \in list THEN list \ {c} ELSE list \cup {c}

(* The permission page of a server replaces the entries of its tools; all  *)
(* of them together become one entry.                                      *)
SyncAllRow(S) == IF S = Server THEN {EveryTool} ELSE S
ToggleMCP(list, S) == (list \ (Server \cup {EveryTool})) \cup SyncAllRow(S)

ReadList(w) == held' = [held EXCEPT ![w] = << allow[ListOf[w]] >>]
WriteList(w, list) ==
    /\ allow' = [allow EXCEPT ![ListOf[w]] = list]
    /\ held' = [held EXCEPT ![w] = Idle]

(* Somebody else: another run in the same directory remembers a call, or   *)
(* the page of the MCP server is saved, in the TUI or the browser.  While  *)
(* its calls run, the run looks at no list.                                *)
OtherReads(w) ==
    /\ held[w] = Later
    /\ at \notin {"run", "over"}
    /\ ReadList(w)
    /\ UNCHANGED << mode, at, from, slots, batch, turn, granted, unmarked, cache, reply,
                    allow, open, batches, ran, said, wanted >>

OtherWrites(c) ==
    /\ held["other"] \notin {Idle, Later}
    /\ at \notin {"run", "over"}
    /\ WriteList("other", Toggle(held["other"][1], c))
    /\ wanted' = wanted \cup {c}
    /\ UNCHANGED << mode, at, from, slots, batch, turn, granted, unmarked, cache, reply,
                    open, batches, ran, said >>

SetAllowlist(S) ==
    /\ held["page"] \notin {Idle, Later}
    /\ at \notin {"run", "over"}
    /\ WriteList("page", ToggleMCP(held["page"][1], S))
    /\ wanted' = wanted \cup S
    /\ UNCHANGED << mode, at, from, slots, batch, turn, granted, unmarked, cache, reply,
                    open, batches, ran, said >>

-----------------------------------------------------------------------------
(* Which calls need leave. *)

NeedsConfirmation(c) ==
    \/ c \in Sensitive
    \/ ~turn /\ (c \in Destructive \/ (c \notin ReadOnly /\ ~Match(c)))

Restricted(c) == c \in Unsandboxed \/ (c \in Outside /\ c \notin granted)

NeedsLeave(c) ==
    /\ ~mode.allowAll \/ c \in Unsandboxed
    /\ Restricted(c) \/ NeedsConfirmation(c)

(* The answer of the model comes in. *)
Answer(b) ==
    /\ at = "model"
    /\ batches < MaxBatches
    /\ at' = "look"
    /\ batch' = b
    /\ from' = Len(slots)
    /\ batches' = batches + 1
    /\ UNCHANGED << mode, slots, unmarked, cache, open, ran, lookVars >>

Judge(c, state) ==
    /\ slots' = Append(slots, Slot(c, state))
    /\ batch' = Tail(batch)

(* A call that has a result already, whose schema is only shown now, or    *)
(* that can not be made: it is answered and not run.                       *)
Answered(c) == c \in cache \cup unmarked \cup Broken
Shown(c) == \E k \in from + 1 .. Len(slots) : slots[k].call = c /\ slots[k].state = "marked"

LookAnswered ==
    /\ at = "look" /\ batch # << >>
    /\ LET c == batch[1]
       IN /\ Answered(c) \/ Shown(c)
          /\ Judge(c, CASE c \in cache -> "cached"
                        [] c \notin cache /\ (c \in unmarked \/ Shown(c)) -> "marked"
                        [] OTHER -> "failed")
          /\ unmarked' = IF c \in cache THEN unmarked ELSE unmarked \ {c}
    /\ UNCHANGED << at, cache, looksOnly, lookVars >>

(* A call that runs without asking, or - nobody listens - because nobody   *)
(* can be asked; out of the sandbox nothing runs without a password.       *)
LookFree ==
    /\ at = "look" /\ batch # << >>
    /\ LET c == batch[1]
       IN /\ ~Answered(c) /\ ~Shown(c)
          /\ NeedsLeave(c) => mode.asks = "nobody"
          /\ Judge(c, IF NeedsLeave(c) /\ c \in Unsandboxed THEN "skipped" ELSE "ready")
    /\ UNCHANGED << at, unmarked, cache, looksOnly, lookVars >>

(* A background leg may not ask. *)
LookRefused ==
    /\ at = "look" /\ batch # << >>
    /\ ~Answered(batch[1]) /\ ~Shown(batch[1])
    /\ NeedsLeave(batch[1]) /\ mode.asks = "refused"
    /\ Judge(batch[1], "skipped")
    /\ UNCHANGED << at, unmarked, cache, looksOnly, lookVars >>

LookAsks ==
    /\ at = "look" /\ batch # << >>
    /\ ~Answered(batch[1]) /\ ~Shown(batch[1])
    /\ NeedsLeave(batch[1]) /\ mode.asks = "user"
    /\ at' = "ask"
    /\ UNCHANGED << slots, batch, unmarked, cache, looksOnly, lookVars >>

-----------------------------------------------------------------------------
(* The prompt. *)

(* The user answers; a password only verifies what is restricted, on a     *)
(* channel that can ask for one.  The answer is a refusal, a leave for     *)
(* this call, or one that is also remembered or holds for the whole run.   *)
Replies == {"no", "yes", "remember", "turn"}

UserReplies(kind, verified) ==
    /\ at = "ask"
    /\ verified => kind # "no" /\ Restricted(batch[1])
    /\ reply' = << [kind |-> kind, verified |-> verified] >>
    /\ said' = IF kind = "no" THEN said
               ELSE said \cup {[at |-> Len(slots) + 1, verified |-> verified,
                                turn |-> kind = "turn"]}
    /\ at' = IF kind = "remember" THEN "read" ELSE "settle"
    /\ UNCHANGED << slots, batch, turn, granted, unmarked, cache, allow, held, wanted, looksOnly >>

Remember ==
    /\ IF at = "read"
       THEN /\ at' = "write" /\ ReadList("run") /\ UNCHANGED << allow, wanted >>
       ELSE /\ at = "write"
            /\ at' = "settle"
            /\ WriteList("run", Toggle(held["run"][1], batch[1]))
            /\ wanted' = wanted \cup {batch[1]}
    /\ UNCHANGED << slots, batch, turn, granted, unmarked, cache, reply, said, looksOnly >>

\* Variant for mutation checks: a leave without a password counts as well.
SettleUnverified ==
    /\ at = "settle"
    /\ LET c == batch[1]
       IN /\ Judge(c, IF reply[1].kind = "no" THEN "skipped" ELSE "ready")
          /\ granted' = IF reply[1].kind # "no" THEN granted \cup ({c} \cap Outside) ELSE granted
    /\ turn' = (turn \/ reply[1].kind = "turn")
    /\ at' = "look"
    /\ reply' = NoReply
    /\ UNCHANGED << unmarked, cache, allow, held, said, wanted, looksOnly >>

(* What is restricted needs a password that was verified; with it the      *)
(* paths are granted to the session.                                       *)
Settle ==
    /\ at = "settle"
    /\ LET c == batch[1]
           approved == reply[1].kind # "no" /\ (Restricted(c) => reply[1].verified)
       IN /\ Judge(c, IF approved THEN "ready" ELSE "skipped")
          /\ granted' = IF approved THEN granted \cup ({c} \cap Outside) ELSE granted
    /\ turn' = (turn \/ reply[1].kind = "turn")
    /\ at' = "look"
    /\ reply' = NoReply
    /\ UNCHANGED << unmarked, cache, allow, held, said, wanted, looksOnly >>

(* The prompt is canceled or runs out: the run stops, none of the batch's  *)
(* calls has run.                                                          *)
Unanswered ==
    /\ at = "ask"
    /\ at' = "over"
    /\ UNCHANGED << slots, batch, unmarked, cache, looksOnly, lookVars >>

-----------------------------------------------------------------------------
(* The calls that may run. *)

Now == from + 1 .. Len(slots)
In(state) == {k \in Now : slots[k].state = state}

(* An ask_user stops the run instead, with the results there are, except   *)
(* in the foreground, where it runs as any call.                           *)
AllLooked ==
    /\ at = "look" /\ batch = << >>
    /\ at' = IF ~mode.foreground /\ \E k \in In("ready") : slots[k].call = AskUser
             THEN "over" ELSE "run"
    /\ UNCHANGED << slots, batch, unmarked, cache, looksOnly, lookVars >>

Set(k, field, value) == slots' = [slots EXCEPT ![k] = [@ EXCEPT ![field] = value]]
runsOnly == << mode, at, from, batch, turn, granted, unmarked, cache, reply, allow, held,
               open, batches, said, wanted >>

(* Tools that may run beside others go as soon as there is room, the rest  *)
(* one after the other.                                                    *)
StartTool(k) ==
    /\ at = "run"
    /\ k \in In("ready")
    /\ LET busy == In("runs") \cup In("ends")
           alike == {j \in busy : (slots[j].call \in Beside) = (slots[k].call \in Beside)}
       IN IF slots[k].call \in Beside THEN Cardinality(alike) < MaxConcurrent
          ELSE /\ alike = {}
               /\ \A j \in In("ready") : slots[j].call \notin Beside => k <= j
    /\ slots' = [slots EXCEPT ![k].state = "runs", ![k].handler = "on"]
    /\ ran' = ran \cup {k}
    /\ UNCHANGED << runsOnly >>

(* A handler tells of its progress: it holds progressMu from the look at   *)
(* progressDone to the end of the send.                                    *)
Tell(k) ==
    /\ slots[k].handler = "on"
    /\ ~slots[k].silent
    /\ Set(k, "handler", "tells")
    /\ UNCHANGED << ran, runsOnly >>

Told(k) ==
    /\ slots[k].handler = "tells"
    /\ Set(k, "handler", "on")
    /\ UNCHANGED << ran, runsOnly >>

HandlerEnds(k) ==
    /\ slots[k].state = "runs" /\ slots[k].handler = "on"
    /\ slots' = [slots EXCEPT ![k].state = "ends", ![k].handler = "off"]
    /\ UNCHANGED << ran, runsOnly >>

(* Its deadline, or the run's end: the handler is left to itself, and may  *)
(* never return.                                                           *)
Abandon(k) ==
    /\ slots[k].state = "runs"
    /\ Set(k, "state", "ends")
    /\ UNCHANGED << ran, runsOnly >>

(* The call is over: it takes progressMu, sets progressDone and tells.     *)
ToolEnds(k) ==
    /\ slots[k].state = "ends"
    /\ slots[k].handler # "tells"
    /\ slots' = [slots EXCEPT ![k].state = "done", ![k].silent = TRUE]
    /\ UNCHANGED << ran, runsOnly >>

(* All calls are over: their results go to the model, and into the cache - *)
(* or nowhere, when the run has been canceled meanwhile.                   *)
Gather ==
    /\ at = "run"
    /\ In("ready") \cup In("runs") \cup In("ends") = {}
    /\ \/ at' = "over" /\ UNCHANGED cache
       \/ at' = "model" /\ cache' = cache \cup {slots[k].call : k \in In("done")}
    /\ UNCHANGED << slots, batch, unmarked, looksOnly, lookVars >>

(* The run ends here or elsewhere in the loop: its channel is closed. *)
Close ==
    /\ at = "over" \/ (at = "model" /\ batches > 0)
    /\ open
    /\ at' = "over"
    /\ open' = FALSE
    /\ UNCHANGED << mode, from, slots, batch, unmarked, cache, batches, ran, lookVars >>

BatchNext ==
    \/ \E b \in Batches : Answer(b)
    \/ LookAnswered \/ LookFree \/ LookRefused \/ LookAsks
    \/ \E kind \in Replies, verified \in BOOLEAN : UserReplies(kind, verified)
    \/ Remember \/ Settle \/ Unanswered \/ AllLooked
    \/ \E k \in DOMAIN slots :
          \/ StartTool(k) \/ Tell(k) \/ Told(k) \/ HandlerEnds(k) \/ Abandon(k) \/ ToolEnds(k)
    \/ Gather \/ Close
    \/ \E w \in Writers : OtherReads(w)
    \/ \E c \in Shared : OtherWrites(c)
    \/ \E S \in SUBSET Server : SetAllowlist(S)

BatchSpec(listed, others) == BatchInit(listed, others) /\ [][BatchNext]_batchVars

-----------------------------------------------------------------------------
(* No call runs without leave (toolCall): out of the sandbox only with a   *)
(* password verified for this very call, whatever the run was allowed; and *)
(* what changes something or reads what is sensitive only if the run may   *)
(* do all, nobody can be asked, the user approved this call or - for what  *)
(* is neither - the whole run before, or some user has asked to remember   *)
(* the call.  A path outside the home directory is granted to a session    *)
(* only with a password that was verified for it.                          *)
Approved(k) == \E s \in said : s.at = k
Verified(c) == \E s \in said : s.verified /\ s.at \in DOMAIN slots /\ slots[s.at].call = c
Harmless(c) == c \in ReadOnly \ (Destructive \cup Sensitive \cup Outside \cup Unsandboxed)
HadLeave(k) ==
    LET c == slots[k].call
    IN /\ c \in Unsandboxed => \E s \in said : s.at = k /\ s.verified
       /\ \/ mode.allowAll \/ mode.asks = "nobody" \/ Harmless(c) \/ Approved(k)
          \/ c \in Outside /\ Verified(c)
          \/ c \notin Sensitive \cup Outside /\ \E s \in said : s.turn /\ s.at < k
          \/ c \notin Sensitive \cup Outside \cup Destructive /\ c \in wanted
RunsWithLeave == (\A k \in ran : HadLeave(k)) /\ \A c \in granted : Verified(c)

(* A handler that outlives its call or the run tells no more of its        *)
(* progress: nothing is sent on the channel after it is closed.            *)
NothingAfterClose == ~open => \A k \in DOMAIN slots : slots[k].handler # "tells"
=============================================================================
