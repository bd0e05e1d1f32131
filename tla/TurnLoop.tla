------------------------------ MODULE TurnLoop ------------------------------
(***************************************************************************)
(* One run of the execution loop (exec.Execute): it sends the history to a *)
(* model, runs the tools the answer asks for, shortens the history when it *)
(* grows too long, and on a failed send retries, lowers the reasoning      *)
(* level or switches to another model, until there is a reply.             *)
(*                                                                         *)
(* The text of messages is left out.  A tool stands for a tool name with   *)
(* one set of arguments, which is what the result cache (alreadyCall) is   *)
(* keyed by.                                                               *)
(***************************************************************************)
EXTENDS Transcript, Integers

CONSTANTS
    Read, Edit,      \* read_files and edit_file, of the same path
    Script, Patch,   \* a script_* tool, and edit_tool of that script
    Skill,           \* run_skill, whose call a skill run starts with
    Batches,         \* the tool calls an answer may make, sequences of tools
    Talking,         \* those of them that come with text
    MayFail,         \* the tools whose calls may be refused or fail
    Models, Provider,\* the registered models, and the provider of each
    Order,           \* their order of priority
    Pass,            \* models tagged pass
    Shaky,           \* models that may be cooling down or dead when the run starts
    Assigned,        \* the model the session is set to, or None
    MaxTurns,        \* MAX_TOOL_ITERATIONS
    MaxRetry,        \* MAX_RETRY_TIMES
    RateTries,       \* the length of RETRY_INTERVALS
    Medium, Highest, \* reasoning levels; the lowest is 0
    Levels,          \* those a run starts with
    SkillRun,        \* whether the run was started with a skill
    OldMessages,     \* how many messages of earlier runs the history starts with
    MaxSteers        \* how many steers arrive

ASSUME ModelAssumption ==
    /\ Provider \in [Models -> STRING]
    /\ Order \in Seq(Models) /\ Range(Order) = Models
    /\ Pass \cup Shaky \subseteq Models /\ Assigned \in Models \cup {None}

ASSUME ToolAssumption ==
    /\ Read \notin {Edit, Script, Patch} /\ None \notin (0..MaxTurns) \X Nat
    /\ \A b \in Batches : b \in Seq(Range(b))

ASSUME BoundAssumption ==
    /\ {MaxTurns, MaxRetry, RateTries, Medium, Highest, OldMessages, MaxSteers} \subseteq Nat
    /\ Medium <= Highest /\ Levels \subseteq 0..Highest
    /\ Talking \subseteq Batches /\ SkillRun \in BOOLEAN

VARIABLES
    pc,          \* where the loop is: "turn", "compact", "send", "summary" or "over"
    turns,       \* iterations begun
    hist,        \* session.ToolHistories
    old,         \* how many messages session.ContextHistories has
    first,       \* firstAttempt
    tokens,      \* lastInputTokens: "none", "under" or "over" the threshold
    extracted,   \* oldHistoriesCompacted
    stuck,       \* compactFailed
    waiting, taken,  \* steers queued for the session, and steers got so far
    model,       \* data.Agent
    pool,        \* RetryState.Agents
    level, dir, lowered,      \* reasoning, reasoningDir, reasoningRetryCount
    timeouts, limited, trims, \* timeoutRetryCount, rateLimitRetryCount, sendFailCount
    empties,     \* emptyCount
    cache,       \* alreadyCall: the entry of each tool
    served,      \* history: the tools the last batch answered from the cache
    left         \* history: the models switched away from

loopVars == <<pc, turns, first>>
histVars == <<hist, old, tokens, extracted, stuck>>
steerVars == <<waiting, taken>>
modelVars == <<model, pool, left>>
levelVars == <<level, dir, lowered>>
retryVars == <<timeouts, limited, trims, empties>>
toolVars == <<cache, served>>
vars == <<loopVars, histVars, steerVars, modelVars, levelVars, retryVars, toolVars>>

Tools == {Skill} \cup UNION { Range(b) : b \in Batches }

\* What is known of a cached result: did the call succeed, would the call return the
\* same now, and did an edit of the same batch run beside it.
Entry == [ok : BOOLEAN, fresh : BOOLEAN, beside : BOOLEAN]

NoEntries == [t \in {} |-> t]

Ids == (0..MaxTurns) \X Nat

TypeOK ==
    /\ pc \in {"turn", "compact", "send", "summary", "over"}
    /\ turns \in 0..MaxTurns /\ first \in BOOLEAN
    /\ hist \in Seq([role : {"assistant", "tool", "user"},
                     calls : Seq([id : Ids, tool : Tools]),
                     of : Ids \cup {None}, says : BOOLEAN, tells : SUBSET Ids])
    /\ old \in 0..OldMessages /\ tokens \in {"none", "under", "over"} /\ {extracted, stuck} \subseteq BOOLEAN
    /\ waiting \in 0..MaxSteers /\ taken \in 0..MaxSteers /\ waiting + taken <= MaxSteers
    /\ model \in Models /\ pool \subseteq Models /\ left \subseteq Models
    /\ level \in 0..Highest /\ dir \in {-1, 0, 1} /\ lowered \in 0..MaxRetry
    /\ timeouts \in 0..MaxRetry /\ limited \in 0..RateTries /\ empties \in 0..MaxRetry
    /\ trims \in Nat
    /\ DOMAIN cache \subseteq Tools /\ Range(cache) \subseteq Entry /\ served \subseteq Tools
-----------------------------------------------------------------------------
(* The model a run starts with and its fallbacks (Route, selectModel) *)

\* The models that may follow, those tagged pass or found dead left out.
Fallbacks(dead) == Models \ (Pass \cup dead)

FirstOf(ms) == Order[CHOOSE i \in DOMAIN Order : Order[i] \in ms
                            /\ \A j \in DOMAIN Order : Order[j] \in ms => i <= j]

\* The pairs of a first model and the agents of its RetryState, itself among them.
Routes ==
    IF Assigned # None THEN {<<Assigned, {Assigned}>>}
    ELSE UNION { LET rest == Fallbacks(dead)
                     able == rest \ cooling
                 IN IF able # {} THEN { <<head, rest>> : head \in able }
                    ELSE IF rest = {} THEN {}
                    ELSE {<<FirstOf(rest), rest>>} :
                 cooling \in SUBSET Shaky, dead \in SUBSET (Shaky \ Pass) }

SkillCall == <<Asking(<<[id |-> <<0, 0>>, tool |-> Skill]>>, FALSE), Answer(<<0, 0>>)>>

Init ==
    /\ pc = "turn" /\ turns = 0 /\ first = TRUE
    /\ hist = (IF SkillRun THEN SkillCall ELSE <<>>) /\ old = OldMessages
    /\ tokens = "none" /\ extracted = FALSE /\ stuck = FALSE
    /\ waiting = 0 /\ taken = 0
    /\ \E route \in Routes : model = route[1] /\ pool = route[2]
    /\ left = {}
    /\ level \in Levels /\ dir = 0 /\ lowered = 0
    /\ timeouts = 0 /\ limited = 0 /\ trims = 0 /\ empties = 0
    /\ cache = NoEntries /\ served = {}

-----------------------------------------------------------------------------
(* The top of an iteration *)

Steered(msgs) == IF waiting = 0 THEN msgs
                 ELSE Append(msgs, Note({ <<0, n>> : n \in (taken + 1)..(taken + waiting) }))

TakeSteers ==
    /\ taken' = taken + waiting
    /\ waiting' = 0

\* The text of a user arrives while the run goes on.
Steer ==
    /\ pc # "over" /\ waiting + taken < MaxSteers
    /\ waiting' = waiting + 1
    /\ UNCHANGED <<loopVars, histVars, taken, modelVars, levelVars, retryVars, toolVars>>

Iterate ==
    /\ pc = "turn" /\ turns < MaxTurns
    /\ pc' = IF ~first /\ ~stuck /\ tokens = "over" THEN "compact" ELSE "send"
    /\ turns' = turns + 1 /\ first' = FALSE
    /\ hist' = Steered(hist) /\ TakeSteers
    /\ served' = {}
    /\ UNCHANGED <<old, tokens, extracted, stuck, modelVars, levelVars, retryVars, cache>>

\* compactHistory: a summary of the old messages, once a run; without one, a summary of
\* the older tool calls; without that, no more tries on this model.
SummariseOld ==
    /\ ~extracted /\ old > 0
    /\ old' = 1 /\ tokens' = "none"
    /\ UNCHANGED <<hist, stuck>>

SummariseTools ==
    /\ CanCompact(hist)
    /\ hist' = Compacted(hist) /\ old' = 0 /\ tokens' = "none"
    /\ UNCHANGED stuck

NoSummary ==
    /\ stuck' = TRUE
    /\ UNCHANGED <<hist, old, tokens>>

Compact ==
    /\ pc = "compact" /\ pc' = "send"
    /\ extracted' = TRUE
    /\ SummariseOld \/ SummariseTools \/ NoSummary
    /\ UNCHANGED <<turns, first, steerVars, modelVars, levelVars, retryVars, toolVars>>

-----------------------------------------------------------------------------
(* A failed send.  An error that looks like several kinds is met as the first of    *)
(* them that still has a remedy: what follows is what follows one of that kind.    *)
Kinds == {"reasoning", "context", "timeout", "rate", "other"}

\* stepReasoning: the level moves one way only, up from below Medium.
Direction == IF dir # 0 THEN dir ELSE IF level < Medium THEN 1 ELSE -1

CanLower == lowered < MaxRetry /\ level + Direction \in 0..Highest

FailedSend == pc = "send" /\ pc' = "turn"

StepReasoning(err) ==
    /\ FailedSend /\ err = "reasoning" /\ CanLower
    /\ level' = level + Direction /\ dir' = Direction /\ lowered' = lowered + 1
    /\ UNCHANGED <<turns, first, histVars, steerVars, modelVars, timeouts, limited, trims,
                   empties, toolVars>>

TooLong(err) ==
    /\ pc = "send" /\ err = "context"
    /\ old > 0 \/ hist # <<>>
    /\ \E both \in Trims(old, hist) : old' = both[1] /\ hist' = both[2]
    /\ pc' = "turn" /\ tokens' = "none" /\ trims' = trims + 1
    /\ UNCHANGED <<turns, first, extracted, stuck, steerVars, modelVars, levelVars, timeouts,
                   limited, empties, toolVars>>

RetryTimeout(err) ==
    /\ FailedSend /\ err = "timeout" /\ timeouts < MaxRetry
    /\ timeouts' = timeouts + 1
    /\ UNCHANGED <<turns, first, histVars, steerVars, modelVars, levelVars, limited, trims,
                   empties, toolVars>>

RetryLimited(err) ==
    /\ FailedSend /\ err = "rate" /\ limited < RateTries
    /\ limited' = limited + 1
    /\ UNCHANGED <<turns, first, histVars, steerVars, modelVars, levelVars, timeouts, trims,
                   empties, toolVars>>

\* No retry on this model is left.
GivesUp(err) ==
    /\ pc = "send" /\ err # "context"
    /\ err = "reasoning" => ~CanLower
    /\ err = "timeout" => timeouts = MaxRetry
    /\ err = "rate" => limited = RateTries

\* Next: the agents of other providers stay in the pool.  It is walked in order of priority
\* and any of them may be the first that answers a health check, or none does.
Remaining == { e \in pool : Provider[e] # Provider[model] }

\* Variant for mutation checks: the filtered pool is not kept for the next switch.
SwitchModelAgain(err) ==
    /\ GivesUp(err) /\ Assigned = None
    /\ model' \in Remaining
    /\ left' = left \cup {model}
    /\ IF HasRaw(hist) THEN hist' = RawKept(hist) /\ old' = 0
                       ELSE hist' = <<>> /\ old' = old
    /\ tokens' \in IF tokens = "none" THEN {"none"} ELSE {"under", "over"}
    /\ stuck' = FALSE /\ cache' = NoEntries
    /\ trims' = 0 /\ timeouts' = 0 /\ limited' = 0 /\ empties' = 0
    /\ pc' = "turn"
    /\ UNCHANGED <<turns, first, extracted, steerVars, levelVars, served, pool>>

SwitchModel(err) ==
    /\ GivesUp(err) /\ Assigned = None
    /\ pool' = Remaining
    /\ model' \in Remaining
    /\ left' = left \cup {model}
    /\ IF HasRaw(hist) THEN hist' = RawKept(hist) /\ old' = 0
                       ELSE hist' = <<>> /\ old' = old
    /\ tokens' \in IF tokens = "none" THEN {"none"} ELSE {"under", "over"}
    /\ stuck' = FALSE /\ cache' = NoEntries
    /\ trims' = 0 /\ timeouts' = 0 /\ limited' = 0 /\ empties' = 0
    /\ pc' = "turn"
    /\ UNCHANGED <<turns, first, extracted, steerVars, levelVars, served>>

\* The run ends, and the loop's variables with it.
Over ==
    /\ pc' = "over" /\ turns' = 0 /\ first' = FALSE
    /\ hist' = <<>> /\ old' = 0 /\ tokens' = "none" /\ extracted' = FALSE /\ stuck' = FALSE
    /\ waiting' = 0 /\ taken' = 0
    /\ model' = model /\ pool' = {} /\ left' = {}
    /\ level' = 0 /\ dir' = 0 /\ lowered' = 0
    /\ timeouts' = 0 /\ limited' = 0 /\ trims' = 0 /\ empties' = 0
    /\ cache' = NoEntries /\ served' = {}

NothingLeft(err) == pc = "send" /\ err = "context" /\ old = 0 /\ hist = <<>> /\ Over

NoFallback(err) == GivesUp(err) /\ Over

Cancel == pc # "over" /\ Over

Fail ==
    \E err \in Kinds :
        \/ StepReasoning(err) \/ TooLong(err) \/ NothingLeft(err)
        \/ RetryTimeout(err) \/ RetryLimited(err)
        \/ SwitchModel(err) \/ NoFallback(err)

-----------------------------------------------------------------------------
(* An answer *)

\* Every answer clears the retry counters but those of the reasoning level.
Answered ==
    /\ pc = "send"
    /\ timeouts' = 0 /\ limited' = 0 /\ trims' = 0
    /\ tokens' \in {"under", "over"}

\* emptyRetryExhausted
EmptyAnswer ==
    /\ Answered
    /\ empties < MaxRetry /\ empties' = empties + 1 /\ pc' = "turn"
    /\ UNCHANGED <<turns, first, hist, old, extracted, stuck, steerVars, modelVars, levelVars,
                   toolVars>>

TooManyEmpty == pc = "send" /\ empties = MaxRetry /\ Over

\* A text is the reply.  The run goes on for steers that came meanwhile.
Reply ==
    /\ Answered /\ empties' = 0
    /\ waiting > 0 /\ pc' = "turn"
    /\ hist' = Steered(Append(hist, Text)) /\ TakeSteers
    /\ UNCHANGED <<turns, first, old, extracted, stuck, modelVars, levelVars, toolVars>>

\* It ends without them, and with a banned text, calls of the client's own tools or a
\* question outside the foreground, from which a later run goes on.
Finish == pc = "send" /\ Over

-----------------------------------------------------------------------------
(* A batch of tool calls (toolCall).  result[i] says what becomes of the i-th  *)
(* call: answered from the cache, refused (declined, without its schema yet,   *)
(* invalid), run and well, run and failed.                                     *)

WriteLike == {Edit, Patch}

Outcomes(b) ==
    { r \in [DOMAIN b -> {"cached", "refused", "ok", "failed"}] :
        \A i \in DOMAIN b : /\ r[i] = "cached" <=> b[i] \in DOMAIN cache
                            /\ r[i] \in {"refused", "failed"} => b[i] \in MayFail }

At(b, r, tool, ends) == { i \in DOMAIN b : b[i] = tool /\ r[i] \in ends }

\* Every result is stored, one of a writing tool only when it went well.
Stored(b, r) ==
    { i \in DOMAIN b : r[i] = "ok" \/ (r[i] = "failed" /\ b[i] \notin WriteLike) }

\* Variant for mutation checks: reads are never dropped.
DroppedNever(b, r) == {}

\* An edit drops the reads of its path.  Results are handled in call order: a read that
\* comes later in the batch is stored after that.
Dropped(b, r) ==
    IF \E e \in At(b, r, Edit, {"ok"}) : \A i \in At(b, r, Read, {"ok", "failed"}) : i < e
    THEN {Read} ELSE {}

\* Reads start together before the writing tools run, one after the other: saw says
\* whether the read came after the edit all the same.
EntryOf(b, r, i, saw) ==
    LET edited == At(b, r, Edit, {"ok"}) # {}
    IN [ok     |-> r[i] = "ok",
        fresh  |-> CASE b[i] = Read   -> edited => saw
                     [] b[i] = Script -> \A p \in At(b, r, Patch, {"ok"}) : p < i
                     [] OTHER         -> TRUE,
        beside |-> b[i] = Read /\ edited]

\* What an entry that stays is worth after the batch.
Aged(b, r, t) ==
    [cache[t] EXCEPT !.fresh = @ /\ ~(t = Script /\ At(b, r, Patch, {"ok"}) # {})
                                /\ ~(t = Read /\ At(b, r, Edit, {"ok"}) # {})]

Cached(b, r, saw) ==
    LET new == { b[i] : i \in Stored(b, r) }
    IN [t \in (DOMAIN cache \cup new) \ Dropped(b, r) |->
            IF t \in new THEN EntryOf(b, r, CHOOSE i \in Stored(b, r) : b[i] = t, saw)
            ELSE Aged(b, r, t)]

CallsOf(b) == [i \in DOMAIN b |-> [id |-> <<turns, i>>, tool |-> b[i]]]
AnswersTo(b) == [i \in DOMAIN b |-> Answer(<<turns, i>>)]

ToolCall(b) ==
    /\ Answered /\ empties' = 0 /\ pc' = "turn"
    /\ hist' = hist \o <<Asking(CallsOf(b), b \in Talking)>> \o AnswersTo(b)
    /\ \E r \in Outcomes(b), saw \in BOOLEAN :
         /\ cache' = Cached(b, r, saw)
         /\ served' = { b[i] : i \in { j \in DOMAIN b : r[j] = "cached" } }
    /\ UNCHANGED <<turns, first, old, extracted, stuck, steerVars, modelVars, levelVars>>

-----------------------------------------------------------------------------
\* No iteration is left: one more answer, without tools, whatever it is.
Exhaust ==
    /\ pc = "turn" /\ turns = MaxTurns /\ pc' = "summary"
    /\ UNCHANGED <<turns, first, histVars, steerVars, modelVars, levelVars, retryVars, toolVars>>

Summarise == pc = "summary" /\ Over

Done == pc = "over" /\ UNCHANGED vars

Next ==
    \/ Iterate \/ Compact \/ Fail
    \/ EmptyAnswer \/ TooManyEmpty \/ Reply \/ Finish \/ (\E b \in Batches : ToolCall(b))
    \/ Exhaust \/ Summarise
    \/ Steer \/ Cancel \/ Done

Spec == Init /\ [][Next]_vars

-----------------------------------------------------------------------------
\* Every request pairs its calls with their results, whatever compaction, pruning,
\* trimming and model switches made of the history before it.
RequestsPaired == pc \in {"send", "summary"} => WellPaired(hist)

\* The plan a model works by.
Plan(msgs) == LET pair == LastPair(msgs) IN IF pair = <<>> THEN None ELSE pair[1].calls[1].id

\* A plan (the last answered write_todo) is given up for a newer one only, except in two
\* cases: a trim may drop it, oldest first, and a switch drops a history that has no
\* results but those of plans.
PlanStep ==
    \/ pc' = "over" \/ hist' = hist
    \/ Plan(hist) \in {None, Plan(hist')}
    \/ Plan(hist') # None /\ Plan(hist')[1] = turns /\ pc = "send"
    \/ trims' > trims
    \/ model' # model /\ ~HasRaw(hist)

\* Nothing a run was told gets lost on the way: a result or a steer in the history stays
\* there, or is told by the summary that takes its place, until a trim drops it or the
\* run switches models, where only the results kept as such are carried over.
TellStep ==
    \/ pc' = "over" \/ hist' = hist \/ trims' > trims
    \/ Told(Strip(hist)) \subseteq Told(hist')
    \/ model' # model /\ ResultsIn(Strip(hist)) \subseteq Told(hist')

NothingLost == [][PlanStep /\ TellStep]_vars

\* A provider that was given up on is not asked again in this run, and neither is a model
\* tagged pass that nobody chose.
ProvidersOnce ==
    /\ \A m \in left : Provider[m] # Provider[model]
    /\ model \in Pass => model = Assigned

\* A read answered from the cache is what the file holds now, unless an edit of the same
\* batch ran beside the read that was kept.
ReadsFresh ==
    [][ (Read \in served' \ served) => cache[Read].fresh \/ cache[Read].beside ]_vars
=============================================================================
