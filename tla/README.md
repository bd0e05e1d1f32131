# Agenvoy: a TLA+ model of its concurrent core

Agenvoy is a daemon that runs language-model agents for sessions of several front
ends: a terminal UI, a web page, Telegram and Discord. Runs of one session compete
for slots, call tools that may need a confirmation, stop to ask their user a
question, start subagents and background legs, and are resumed from a file. This
directory holds TLA+ modules of the parts where goroutines, processes and files meet,
TLC runs that check them on small instances, and proofs that TLAPS checks for every
instance.

Paths below are relative to the root of the repository. `PROJECT.json` lists the
components, the runs, a mutant of the model for every property, the source lines
behind every definition (`map`), the hazards and the theorems.

## 1. The system's parts

| component | state | operations | who it meets |
|---|---|---|---|
| pending registry, `internal/runtime/pending.go` | `entries` (one per open prompt, with `claimed`, a reply channel or a callback), the listeners and their one-token `notify` channels | `Ask`, `AskUser`, `Resolve`, `DropTask`, `PickNextMatch` | runs that ask; listeners of chats, web, TUI |
| chat prompt listener, `internal/runtime/listener.go` | `cur` (the prompt each chat waits on) under `l.mu`, `wakeup`, the prompt's own fields | the loop, `OnCallback`, `OnText`, `finalize`, reload of the bot | the registry, a handler goroutine per tap |
| TUI prompts, `runtime/ipc`, `runtime/tui` | a connection's runs and prompts; the window's queues, popup and login | frames, pick, answer, cancel, disconnect, reconnection | the registry, the runs |
| web prompts, `runtime/routes/handler` | prompts a page shows, its subscription | pick, publish, snapshot, answer | the registry, pubsub |
| session concurrency, `internal/session/concurrent.go` | `concurrentSlots` (a channel per session), `concurrentMap` (idle claims) | `ClaimIdle`, `AddConcurrent`, `RemoveConcurrent`, `FindTemp` | every run |
| running marks and steer, `internal/agents/exec/steerWait.go` | `runningMap` with counts, `steerMap` with lists | `markRunning`, `IsRunning`, `AppendSteer`, `getSteer`, `ClearSteer` | every run, whoever sends a message |
| execution loop, `internal/agents/exec` | the tool history, counters, the pool of models | send, tool batch, retry, fallback, compaction | nearly everything |
| subagents, `internal/agents/exec/subagent` | slots, report names, a subscription | `Exec`, `waitResume`, `saveReport` | session concurrency, pubsub, the pending file |
| pending file and online marks, `internal/tools/interactive` | one JSON file per task under `pendingMu`; marks with a time to live | create, finalize, clean up, claim, resume | the loop, background legs |
| background legs, `interactive/background*.go`, `app/deliverBackground.go`, `tools/watchOutput.go` | slots, cancel functions and flags, reports in the pending file; the watch buffer of a command | start, update, deliver, stop; take, judge, report | runs, resumes |
| scheduler, `internal/runtime/{scheduler,task,cron}.go` | `tasks.json`, `crons.json`, the skills' directories; timers under `state.mu` | add, patch, remove, bind, reload, fire | tools, handlers, the TUI, runs |
| MCP client, `internal/runtime/mcp` | clients under `mu`, the tool registry, `toolsSum`; `mcp.json`, tokens in the keychain | poll, call, notification, reconnect, remove; login, refresh | calls, the wizards, the web page |
| configuration, `internal/session/config`, `internal/agents/host.go`, `internal/app` | `config.json`, the agent registry of each process, the bots | edit, reload, restart of a bot | the TUI, the handlers, two watchers |
| chat bots, `internal/runtime/chatbot` | verified chats, codes, albums, answers in parts | message, code, removal, push | runs, the web page |
| history and memory, `internal/session/history`, `summary` | `history.json`, rows, the action log, the summary and its cursor | append, compact, generate, reset, delete | every run, the cron, commands |
| file tools, `internal/tools/file`, `runtime/store` | files, freshness marks, the file history | read, edit, remove, undo, restore, prune | tasks of several sessions, the user |

The parts left out, wholly or in part, are listed with their reasons in
`PROJECT.json` under `components`; section 5 sums them up.

### What is hard

* **Wake-ups.** A chat listener sleeps on two channels of capacity one; every event
  that frees a chat or queues a prompt must leave a token, or be seen by the pass of
  the loop that is under way.
* **Claims.** `PickNextMatch` sets `claimed` and nothing resets it: a claim that its
  holder forgets blocks its caller until the context ends, or for ever.
* **Unlocked state.** Taps are handled by one goroutine each; only the look at `cur` is
  under `l.mu`.
* **Expiry, drops and reloads** remove entries under the feet of a loop that is
  sending or a handler that is answering.
* **Slots** are tokens in a Go channel: taken under a lock or by a blocking select,
  handed to a waiter by whoever receives, while contexts end.
* **Maps keyed by session** are changed by all runs of the session, each clearing what
  another may have just set.
* **A file that is read, used and rewritten later**: the pending file across a resume,
  `tasks.json`, `config.json`, `history.json`, the summary, the allow list, the list of
  verified chats. Some are locked for the rewrite, none for the whole use.
* **Histories cut by position.** Summaries, pruned steps and trims shorten a list in
  which providers insist that each call is followed by its results.
* **Sessions that end under their users.** MCP sessions are renewed by whoever notices,
  while users reconnect and remove the server.
* **Bounded subscriptions** drop events, terminal ones too.
* **One popup for all.** Pages, prompts, logins and lists of models arrive in any order
  at a window that shows one page at a time.

The full list, with the line where each bites and the properties that cover it, is
in `PROJECT.json` under `hazards`.

## 2. Modules

| module | models |
|---|---|
| `PendingRegistry` | `pending.go`. One request of `Reqs` is one call of `Ask` or `AskUser`; `asker` is the caller's program counter, `entry` presence and the `claimed` flag, `replyCh` the reply channel. |
| `ChatListener` | `listener.go` and the bot's `New`/`Close`, over `PendingRegistry`. One loop per listener object, one handler goroutine per tap or text; a step another goroutine can observe or overtake is an action. |
| `PromptDesk` | The abstract specification of the two: a request queues, is opened when its window is free, ends once with one result. `ChatListener` implements it under the mapping `PhaseOf`. |
| `SessionGate` | `concurrent.go`, `steerWait.go` and the order in which `Execute` and `ensureSession` call them. `slot[s]` is the length of the channel, `waitq[s]` the goroutines blocked on it. |
| `Scheduler` | `scheduler.go`, `task.go`, `cron.go` and their callers: files, skill directories, the watcher's events and debounce, reloads, timers with their callbacks, restarts. |
| `PendingTask` | The life of one task: its pending file, the online mark, the runs that claim and resume it, its background legs with their slots and reports, the goroutine that resumes it, stops and restarts. |
| `Sublists`, `Transcript` | What a loop over a slice keeps (used by `Transcript`, `ConfigFile`, `SessionMemory`, `FileTools` and `TuiWindow`); the tool history with the operations that shorten it (`exec/todo`, `exec/compact`). |
| `TurnLoop` | One `Execute`: sends, batches, the result cache, retries, reasoning levels, switches, compactions, trims, steers, the summary at the limit. Over `Transcript`. |
| `McpClients` | The MCP manager: poll, calls with renewal, notifications, users who reconnect and remove; the registry of tools. |
| `Ipc`, `TuiWindow` | The daemon's socket with one window; the window itself, whose `Update` takes one message at a time. |
| `Popups`, `ModelWizard`, `McpWizard`, `McpOAuth`, `Dialogs` | The one popup; `/model add`; `/mcp`; logins with OAuth in two processes; and their composition. |
| `ConfigFile`, `HostReload`, `ChannelBots` | `config.json` and its edits; what two processes load from it; the chat bot that is restarted by it. Each extends the one before. |
| `SessionHistory`, `SessionMemory` | `history.json`, its rows and the action log; the summary, its job and the commands that take history away. |
| `FileTools` | read, edit, remove, undo, restore and prune with freshness marks and the file history. |
| `CommandWatch` | The output of a background command and its watcher. |
| `Subagent` | Legs: session, slot, questions, resume, and the report read from a lossy subscription. |
| `StreamText` | The provider's pieces through the line emitter. |
| `ToolBatch` | A batch of calls: leave, allow lists, cache, deadlines. |
| `WebConfirms` | Confirmations that wait on web pages. |
| `ChatMessages` | A chat's messages, codes, albums, answers, pushes and removals. |
| `ChatListenerProofs`, `SessionGateProofs`, `SchedulerProofs`, `PendingTaskProofs`, `TurnLoopProofs`, `SublistsProofs`, `McpClientsProofs`, `ChannelBotsProofs` | Theorems and lemmas (section 4). |
| `MC*` | Constants for TLC. `MCWorkspace` also puts the modules that share no state side by side, one to a scene: an execution plays in one scene and leaves the others still. |

Definitions called "Variant for mutation checks" are plausible wrong versions of the
definition that follows them. No specification uses them: each run's properties are
known to fail when one is put in its place (`PROJECT.json`, `mutants`).

### Abstractions

The header of each module says what it leaves out. What matters for several:

* Names, texts, keyboards and payloads are model values. What a property needs of a
  text is kept: the question an answer was given to (`ChatListener`), what a report
  tells (`PendingTask`), what a user message of the history tells (`Transcript`), the
  atoms of a stream that may be cut (`StreamText`).
* A write of a file by the library that replaces it is one step; a read, a use and a
  write are three. Calls whose I/O fails, or whose process ends, stop between two steps
  where the code has an error path of its own.
* Time is order: a timer may fire late, a deadline may pass at any moment, a debounce
  window may end at any moment. The seconds that the summary's cursor compares are
  numbers, since equal ones matter.
* What a model, an agent or a user decides is a choice. Thresholds and token counts of
  the compaction are choices as well: any request may be found too long.
* A clock that stamps `EnqueueAt` never ties; where Go's map order decides, any order.
* Ghost variables (`missed`, `blurred`, `misdated`, `overtaken`, `overlapped`, `noise`, `loose`,
  `crossed`, `givenUp` and the like) record that the code went through one of the gaps of section 6.
  No guard reads them, but for those that bound an instance; properties use them to say
  exactly after what a promise no longer holds.

## 3. Runs

| run | instance | shows |
|---|---|---|
| `chat_taps` | a confirm that may expire and an ask of two questions that a resume may drop, in one chat; two listener objects, two handlers whose taps may overlap | only what a closed bot's listener had claimed is left behind, one prompt is on the screen, each answer belongs to its question unless two taps on that prompt overlapped, and the whole implements `PromptDesk` |
| `chat_fair` | two prompts of one question, no expiry, two handlers, fairness, deadlock checked | every prompt is shown and settled |
| `gate_runs` | two runs of a session, one subagent, two temp sessions, one slot each, one message, fairness | slots accounted for, idle means idle, nothing injected twice, who waits is admitted or gives up |
| `sched_files` | one skill, a task time and a cron expression; two editors that make two calls of any kind; one restart; fairness | a watcher that has caught up has the files' timers and crons; a task fires unless the watcher missed its write |
| `task_life` | three runs, one leg, one update, two events of any of the kinds in `Events`; fairness | claims exclude each other, a leg's result is told once and in the end, the file waits for no leg that has gone |
| `turn_loop` | four turns, four models of which one tagged pass, plans, reads, edits and patches, a steer, two old messages | requests pair calls and results; the plan and what the run was told survive; cached reads are fresh; no provider is tried twice |
| `mcp_tools` | poll, one call, one notification, one user; three sessions, two catalogues, one fault; fairness | registry and manager agree; a removed server stays away; a renewal replaces its own session; the server's list is followed |
| `tui_prompts`, `tui_fair` | a run of the window and one the daemon resumed, one or two prompts, two events, a restart, a cancel, a menu, a paste | prompts are never mislaid; for a user who answers what is shown every prompt settles and the window becomes idle |
| `settings` | TUI, web page and bot edit one file; two models, two tokens, two edits, one retry | the file and what both processes serve stay consistent; the bot has one connection and follows its setting |
| `dialogs` | the two wizards with esc, a prompt, two lists, two logins | no page outlives its draft; models are saved under the prefix that lists them, a server as it was chosen; the newest token stays |
| `workspace` | eight scenes: memory, files, watch, legs, text, batch, web, chat | one property for each scene, see below |

The scenes of `workspace`: three writers, a summary, a compaction, a reset and a
deletion of a session (`MemoryKept`); two tasks and the user on two files with undo and
prune (`FilesKept`); six lines of output over a buffer of three (`NoErrorLost`); three
legs in two sessions over buffers of two (`ReportIsWhole`); answers cut anywhere
(`StreamedAsWhole`); two batches of a call or two under three modes (`BatchKept`); two
confirmations on two pages with a queue of one (`PagesTold`); three messages of two chats
with two removals (`ChatKept`).

**Bounds.** The properties speak of pairs: two prompts of a chat, two runs of a session,
two overlapping edits of a file, an old session and the new one that replaces it. Every
instance has at least such a pair with a third party where one can disturb it, and the
counters (events, edits, faults, restarts, retries, turns) are large enough for each
action to happen after each other one. Two requests in one chat are what every chat
property speaks of; more chats do not interact, since `cur` is per chat. One slot with
three runs makes runs wait, be handed a slot and be overtaken, if that were possible. In
`Scheduler` two calls give every overlap of two reads and writes with a reload and a
callback. In `task_life` the two events may be any two of a resume, a follow-up, an
answer, a pause or cancel, a question, an update, a failure, a lapsed mark and a restart.
In `turn_loop` four turns allow a compaction, a switch and a trim in one run, in any
order. `CONSTRAINT Uncrossed` of `mcp_tools` drops the states after two replacements of
one server overlapped (`crossed`), since every property there promises something only
until then; `CONSTRAINT OverlapOrReload` of `chat_taps` leaves out runs that have both two
overlapping taps on a prompt and a reload of the bot, only to bound the states. The theorems
need neither. `chat_fair` asks one question per prompt, since two taps at once on a prompt of
two can end the daemon (section 6). Of the safety properties
in section 4 the proofs cover every size. Symmetry is used in `chat_taps` only, over
listener objects and over handlers, which are alike.

**Fairness.** Weak fairness of each goroutine's own steps: the Go scheduler runs what
can run, and locks are held for a few instructions. A deadline passes, a transport or
model call returns because each has a timeout, a login ends after ten minutes at most, a
mark lapses when no run renews it. `ResumeClaim` of `PendingTask` has strong fairness: the
goroutine tries again after each run that kept it out. In `ChatListener` the users of a
chat answer a prompt that its caller still waits for, and need not touch one its caller
has given up; in `TuiWindow` the user answers what is on the screen. Runs of a window need
not end, nothing makes a run start or be cancelled, and nothing is asked of editors. In
`McpClients` the poll's ticker and the goroutines go on; the server may change its list or
lose a session as often as the instance allows.

**Deadlock** is checked in `chat_fair`, where all ends in `Quiet`, and in `turn_loop`,
which stutters when a run is over (`Done`). The other runs switch the check off because
their systems may stop: a panic ends the daemon, a prompt may stay open when nobody is
made to answer, runs and scenes simply end, and edits, events and restarts are bounded.

## 4. Proofs

The theorems hold for every value of the constants that the modules' named assumptions
admit (`RegistryAssumption`, `ChatAssumption`, `GateAssumption`, ...): these say that sets
are disjoint, finite or not empty, and that bounds are natural numbers, and TLC evaluates
each of them in a run.

**`ChatListenerProofs`** (any requests, chats, listeners, handlers). `SafetyInv` is built
in layers. `TypeInv` adds to the types what a loop or handler in a given state works on
(`TypeCorrect`). `ResultInv` ties a caller's result to its program counter and its entry:
without it, a callback could run for an entry that is still in the map (`OneResult`).
`HoldInv` says that a request is held by at most one loop and that its state fits its
entry; `ClaimInv` follows a claim from the pick to the reply, because a tap may act on a
prompt whose entry has gone and whose chat shows another (`ClaimsNotStranded`,
`OneAtATime`). For the refinement `PromptsKeepTheDesk`, `ReplyInv` and `GoneInv` add that a
reply channel is filled once and that a caller that has returned has left no entry; each
action then moves every request along a table of transitions (`DeskStep`), and at most
one of them. `AnswersPaired` holds for any number of taps at once. It speaks of the prompts no two
taps of which overlapped: `overlapped` marks a prompt when a second handler is past the look at
the chat's message, where the code lets both go on with the prompt's unlocked fields
(section 6). Its invariant `AnswerInv` says that such a prompt has one handler at most
(`SoleInv`), counts its answers against the question it stands at (`ProgressInv`), fits that to
a handler between two of its steps (`StageInv`) and to the chat's prompt (`PlaceInv`).

The same module has the theorems on `Dialogs` (any wizards, texts, requests and models).
`TokenInv`: a dialog's token is never above the newest, and equal to it only for the last
one opened (`TokenStaysNewest`). `StackInv` reads the window's pages as a stack: the page
shown, the pages behind it. `WizardInv` says three things of every page of the MCP wizard,
shown or behind. `Ordered` says which page may follow which; `Drafted`, that the draft
the page is about to touch is there; `Agrees`, that the draft holds what was chosen on the
pages before. With these `finalizeMcpAdd` writes what the pages showed (the lemmas
`HttpPath` and `StdioPath`, one for each transport): `WizardsKeepChoices`. `ModelInv`, for
the pages of the model wizard, needs that there is one login at most and that its popup is
on the screen. It holds until a login ends while another wizard's pages are shown
(`crossed`, section 6), so the invariant of `PagesHaveDrafts` is `crossed \/ ModelInv`.

**`SessionGateProofs`** (any finite set of runs, any sessions, any `MaxTasks > 0`).
`SlotsAccounted` is not inductive alone: the hand-over in `Receive` keeps the count only if
the head of the queue waits for this session and holds nothing, which `InQueue` says
(`SlotsMatchHolders`, `WaitersHaveCause`). `SteerInv`: the messages in the lists and in the
histories are all different, and their senders have done with them (`SteerInjectedOnce`). `IdleInv`: who is
queued is listed, and a run that has not been placed has no session (`FoundSessionIdle`,
an action property). The same module has the two theorems on `ToolBatch`, for any calls,
batches and lists. `ListsInv`: what a list holds, or a copy of it that somebody is about to
write back, some user has asked for. With it `LeaveInv` says of each call that may run, and
of the reply in hand, where the leave comes from (`CallsHaveLeave`, which is
`RunsWithLeave`); leave once given stays, although `allow` may lose entries, because it is
stated with what was ever asked for. `SilentInv`: only a call of the batch that runs has a
handler that tells (`ClosedIsSilent`, which is `NothingAfterClose`). The two need of the
constants that batches are sequences of calls and that the entry for all tools of a server is
no call (`BatchConstants`).
It has the theorem on `StreamText` too, for any answers made of its atoms
(`StreamConstants`). The fold over the atoms is given by equations (`FoldEmpty`, `FoldAppend`,
`FoldConcat`), and an induction over texts is stated with the set of the texts that have the
property (`TextInduction`, `ByInduction`), since the library's takes an operator. Where the
header ends depends on the text alone (`HeaderCut`), so an emitter shows what one that was
given its text at once shows; feeding keeps this (`FeedMore`) and what is shown only grows
(`FedGrows`). Whether a text opens with thoughts is settled once it is decided (`AfterMore`,
`VisibleMore`). `Reading` says what an emitter that was not stopped knows of the text it has
read: undecided, inside the thoughts, or all shown but the end that may begin a tag. Each
write keeps it (`WriteIs`), and `StreamInv`, with `CloseSame` for the end of the stream, gives
`StreamsAsWhole`, which is `StreamedAsWhole`. Two things cut a text off (`Stops`): the tag of a
refusal, before the tag, and the marker of a leaked summary, before the marker's end only,
since `holdLen` does not hold a marker back. Where a text is cut off does not change as it
grows (`LeakEndsIs`, `CleanIs`), so the pieces and the whole text agree there too.

**`SchedulerProofs`** (any skills, sessions, editors, timer names, clock). `FutureInv`: a
callback runs only for a task whose time has come, since it drops the timer of its key
whichever that is (`FutureTimers`). `FilesInv`: what a reload has read is what the files
hold, or a write since is an event to come or a missed one (`ReadIsFile`; the lemma
`WriteNotQuiet` says that a write always leaves one of the two); `FilesAndTimers`.
Editors' steps are handled once for all (`EditorKeepsDaemon`).

`SchedulerProofs` also has the theorems on `SessionMemory` (any writers, sizes, lengths and
clock: `MemoryConstants`), from one inductive invariant, `SessionInv`. `DoneInv`: the records
on file, read or worked on are of writers that have done, so that their times no longer
change. `MutexInv`: unless the history was taken away (`overtaken`), a writer that awaits or
holds the mutex has the one in the map, and one at most holds it; therefore `LatestInv`: what
the holder has read is what is on file (`AppendsAreAtomic`, an action property; `SuffixIs` is
its lemma). `RowsInv`: a compaction under way puts back only what the store has rows of
(`RowsFollowTheFile`), and while the store has no row at all nothing was saved since it read
the history; so what the history put back leaves out was before the model or has its row
(`ReplacesLeaveRows`, an action property). `CoverInv` follows a reset through the summary it asks for: each record
it had read is in the summary, noise, behind the cursor, or still to be merged (`Left`),
unless another job wrote the summary meanwhile (`ResetsKeepTheMemory`, an action property). It
says nothing of records saved after the reset had read the history: those go with it, in no
summary (section 6).
Each step of a Generate has a lemma that says what it returns (`ReadIs`, `DecideIs`, `SaveIs`,
`SaveCursorIs`), and `JobKeeps` collects what the steps of a command leave alone. The four
together are `MemoryKept`.

**`PendingTaskProofs`** (any runs, legs, updates, slots, events). `ClaimInv`: a live run
means a mark, and two live runs are one, until an answer, a lapse or a cleanup lets
another in (`ClaimsExclude`). `StopInv`: only a stop leaves a cancel flag behind or
cancels a run. `LegInv`: until then a leg the file calls running has its goroutine, and what
a run stages goes into a file that is there (`LegsAccounted`). `ToldInv`: a result that the
file, a record read for a resume or a staged report holds belongs to a leg that has ended
and has not been told (`ResultsToldOnce`). `KeptInv`: a leg at work is in the file, and one
that has ended has its result there or in the history (`ResultsStay`, `ResultsCount`). The same module has `ErrorsKept` about
`CommandWatch`, from `WatchShape`: the lines a result shows reach back at least as far as
the watch buffer. And two about `WebConfirms`, for any confirmations, pages and buffers. `EventInv`:
what a box carries is in the order of the session's events and complete, up to what was
merged into a loss the page is still to be told of (`LossesAreTold`, which is `TruncationTold`). `TrackInv`:
a confirmation that waits is outstanding, unless the loop has still to track it or its answer
is on the way; with it `ShownInv` says where a confirmation that waits is on its way to each page
(`ConfirmsAreShown`, which is `ConfirmsShown`). Of the constants they need that the mark of a
run's end is no confirmation (`WebConstants`).

**`TurnLoopProofs`, `SublistsProofs`** (any tools, models, batches, bounds). `PoolInv` for the pool of models
(`ProvidersTriedOnce`), `CacheInv` for the cache (`CachedReadsFresh`), `RetriesBounded`. The two
theorems on the history, `RequestsStayPaired` and `NothingGetsLost`, rest on `HistInv` (in
the history results follow their calls, no call twice, and calls are named by the turns that
asked for them, none of which is still to come) and on a lemma for each operation of `Transcript` that says what it
keeps; `StepKeeps` collects them for each action. An operation that drops elements is
written with `Pick`, the elements at a set of positions in their order, rather than
`SelectSeq`, and `SublistsProofs` proves what `Pick` and `Rank` return by induction on the
set of positions (`ByInduction`), with first-order facts only.

`TurnLoopProofs` also has the theorem on `Subagent` (any legs, sessions, viewers, names and
buffers). `Early`: a leg is no subscriber before it waits, and has collected what its run
wrote. `Whole`, for a leg that is not `blurred`: what it has got is what was written, and
while it waits what it has got and what its inbox still holds are, with an end of the run
after the last text at most (`Follows`). `NameInv`: a report that is written stays, because
nobody is about to write to its name who was not when it was. Together they are
`ReportsAreWhole`; `LegsConstants` says that viewers are no legs and buffers are natural numbers. What a send
of a `Pub` does to one inbox (`SendIs`, `DeliverStep`) and what the list of subscribers keeps
while it is shifted (`ShiftedStays`, `UnsubStays`) are lemmas of their own.

**`McpClientsProofs`** (any goroutines, sessions, catalogues). `ToolsInv`: while no two
replacements have overlapped, one goroutine at most replaces, and between a removal of the
tools and their registration the manager has no client (`RegistryAgrees`,
`NoSessionForgotten`). `RemovalInv`: who would put a client back looks up the
configuration first (`RemovalLasts`). `RenewInv`, `RenewingInv`: a renewal holds the client it
failed on (`RenewalsOwn`, an action property). The hypothesis `~crossed` is in the properties.

`McpClientsProofs` also has the three theorems on `ChatMessages` (any messages, chats and
removals; of the constants that the parts of an answer are bounded, `ChatConstants`).
`AlbumInv`: a file that waits is in its group once and nobody holds it, and one that no longer
waits has exactly one handler (`FilesHandledOnce`). `AnswerInv`: the parts of an answer are
shown in their order and not before its run ends, and what is missing of them is matched by a
notice, shown or lost (`AnswersAreTold`). `OffListInv`: a removal that none overtook has read
the file without the chats that are off the list (`RemovedStayOut`). Together they are
`ChatKept`.

**`ChannelBotsProofs`** (any models, tokens, writers, chains of retries). `ConnInv` says who
holds the mutex and where the daemon's watcher is (`MutexHeld`), `ConnectionInv` that the
connection is the one the variable can close (`OneConnectionOnly`). `FollowInv`: an attempt
that is under way or has been given up explains every difference between the bot and the
pair that was last acted on (`AttemptInv`, `GivenUpInv`, `RunsAsLast`), and a reload that is coming every difference
between that pair and the file (`LastIsCurrent`, `Coming`): `SettingFollowed`. `ListInv`: a
list that is built is the file's, or an event is still to come or was dropped, or two
reloads overlapped (`FileServed`). `RoutingInv`: every
copy an edit holds is itself proper, so that whichever save comes last leaves a proper
file, although saves take back each other's changes (`FileConsistent`). `ReadInv` types
what a reload has read (`RegistryConsistent`). `SettingsKept` has them together.

`ChannelBotsProofs` also has the two theorems on `FileTools` (any tasks, files and texts,
one text at least: `FilesConstants`). `SeenInv` needs a call's own write: its time is the file's until somebody
else writes, and until then the task knows what the file holds (`FreshFilesSeen`, which is
`FreshIsSeen`). `TableInv`: a row of the history says what its file was before its task
touched it first, and every file a task has touched has one, but for rows known to be missing
or of the wrong time (`unkept`: written over by a resumed run, dropped by a prune). An undo
holds the ids of rows only and reads each row again when its turn comes, as `restore` does, so
`TableInv` says what it gives back; a row pruned meanwhile, or whose copy in the trash has gone,
counts as failed and its file stays as it is. That is `UndosGiveBack` (`UndoStep`, an action property).

And it has the two theorems on `TuiWindow` (any runs, prompts, events and restarts:
`WindowHolds`, and `WindowMislaysNothing`, which is `NothingMislaid`). A prompt and an event pass
through several places on their way, some of which are emptied at once, so neither half of the
property is inductive alone. `LinkInv`: a connection that is up is served until the window
closes, and one that is gone asks nothing and has no run of the window that goes on.
`AskedInv`: what is asked, or about to be, was asked by a run that has begun. `ScreenInv`: the
events that wait behind a popup continue those that are shown, and wait only while there is
one. `StartInv`: a run that was not called yet has nothing on the way. `SocketInv` counts: the
channel of a run holds the events after those fetched (`Fetched`: shown, behind the popup or in
hand), and while the run waits the socket holds those after the ones received (`Received`), in
order and each once, and, when it is up, all of them to the last one sent.

TLC checked these strengthened invariants, all but `WatchShape` and `StreamInv`, on the instances of the runs
before they were proved.

**Only model-checked.** Liveness, since the prover has no ENABLED: `EveryPromptShown`,
`EveryPromptSettled`, `EveryRunAdmitted`, `TasksFireOrMissed`, `ResultsReported`,
`CatalogFollowed`, `EveryPromptSettles`, `RunsSettle`. Of the workspace's properties `BatchKept`, `PagesTold`, `FilesKept`, `MemoryKept`
and `ChatKept` are the conjunctions of what is proved of `ToolBatch`, `WebConfirms`,
`FileTools`, `SessionMemory` and `ChatMessages`.

## 5. Not modelled

* Providers, transports, HTTP routing, rendering, the page's JavaScript, start-up and the
  services of the operating system: I/O and text.
* Listings and queries of the stores, search, uploads, names of sessions.
* In the modelled parts: images and client tools, the search index of the history and its
  size limits, directories and the matching inside `patch_file`, several windows at once,
  the chat page's own form for questions, the MCP server agenvoy itself offers, the split of
  a long text inside HTML tags, cooldowns of models (only what a run starts with), a leg's
  `unsub` while `Pub` walks the list (a page's is modelled).

## 6. Behaviours the model shows

What follows are ways in which the code departs from what one might expect. The
properties name them as exceptions or the ghost variables record them; none is hidden
by a guard the code does not have.

* *Chat prompts.* Two taps on one prompt of several questions race on unlocked fields
  (`listener.go:282`): an answer may go to another question, or `askNext` index past the end
  (`listener.go:218`). `Ask`'s deferred delete wakes no listener, so a prompt behind an
  expired confirm waits for another event (`pending.go:162`).
* *Session gate.* A running mark may be lost (`steerWait.go:30`), a message appended just
  before `ClearSteer` goes with the list (`steerWait.go:86`), a run that ends clears any
  claim of its session (`concurrent.go:70`), one that fails before `Execute` leaves its claim
  (`run.go:92`), and `clean.go:33` removes a claimed session by its age.
* *Scheduler.* A reload between the end of a task's run and its removal arms it again
  (`scheduler.go:227`); a skill may go to the trash although a task bound since the check needs it
  (`:236`); events within 200 ms of a reload are dropped (`:329`); the watcher starts after
  the first reload (`daemon.go:165`).
* *Tasks.* The mark is released before `CleanupPending` (`askUser.go:406`); answers resume
  without a claim, and a mark lapses while a resumed run waits for a slot; a leg is on file before its
  cancel function is registered (`backgroundStart.go:60`).
* *Execution loop.* Compacted findings and steers do not survive a switch of models, nor the
  plan a second switch in a row (`rawToolFallback.go:44`); `TrimFallback` drops the plan
  first after a compaction; a read beside an edit in one batch is cached stale
  (`toolCall.go:711`), as is a failing result (`:717`); a steer's continuation saves all
  raw histories again (`saveHistory.go:20`).
* *MCP.* `RegisterAll` removes nothing first: two reconnections whose registrations follow
  each other leave tools that are no longer listed; overlapping `ReconnectServers` leak a
  session; after a failed renewal the poll does not try again; the poll compares a signature
  and not the registry (`poll.go:88`).
* *Window.* A login that ends closes whatever popup is open and leaves the queue
  (`commandMcpLogin.go:173`); a confirmed cancel may be lost behind a popup (`update.go:71`);
  a list of models that comes late is shown under another provider's prefix
  (`commandModelAdd.go:837`); prompts picked after a disconnect make a resumed run wait.
* *Settings.* A whole-file save takes back what another wrote; overlapping reloads may
  leave the older registry; a pair tried in vain and then set back is taken for one that
  has been seen, so the bot stays off (`reloadDiscord.go:31`); the page's dispatcher is not
  looked up again; `SummaryModel` may name a model taken off the list.
* *History.* Records saved during the model's call of a compaction or a reset are lost or go unsummarised;
  `ClearMutex` under a held lock lets two appends overlap; the terminal's mutex is its own
  process's; a removed history comes back with an `Append` that had read it; records with
  the second of the cursor are skipped after a failed chunk.
* *Files.* A write by another between a task's write and its `Stat` counts as read; one
  between `Stat` and write is overwritten; an edit back to an earlier text is not recorded.
  An undo lists its rows once and reports as failed those pruned, or whose copy in the trash was
  cleaned up, before it came to them (`fileRestore.go:22`).
* *Streams.* Only the tag of a refusal is held back (`partialMarkers`, `streamText.go:16`): of a
  leaked summary's marker that is cut in two the first half is shown (`:211`).
* *Legs and watch.* Text beside `ask_user` makes a leg report that text and drop its
  questions (`exec.go:272`); `waitResume` subscribes after it looked for questions; a full buffer
  drops the end of a run; events of another run in the named session count as the leg's;
  a flag set for a line already taken makes a report of plain lines only.
* *Batches.* "Remember" toggles, so the second one forgets; allow files are rewritten
  without a lock; without a listener calls run unasked; an expired prompt drops the approved
  calls of its batch; a handler goes on after its deadline.
* *Web.* A confirmation published between snapshot and subscription (`multilog.go:135`,
  `:152`) is shown when the page reconnects; a lost `Done` is told with the next one.
* *Chats.* Two messages of an unverified chat each make a code and the later one counts; two
  removals that overlap bring a chat back, and an authorisation between a removal's read and
  write is lost; pushes and running replies still reach a removed chat; a late file of an album is chatter.
