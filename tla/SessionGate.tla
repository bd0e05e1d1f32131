------------------------------ MODULE SessionGate ------------------------------
(***************************************************************************)
(* The runs of a session: how a subagent finds an idle temp session        *)
(* (FindTemp, ClaimIdle), how a run takes and frees one of the session's    *)
(* slots (AddConcurrent, RemoveConcurrent), how it says that it is running  *)
(* (markRunning, IsRunning), and how a message sent to a running session    *)
(* reaches its run as steer (AppendSteer, getSteer, ClearSteer).            *)
(***************************************************************************)
EXTENDS Integers, Sequences, FiniteSets

CONSTANTS
    Runs,        \* the runs, each in one goroutine
    Subagents,   \* the runs that look for a temp session of their own
    Sessions,
    Temps,       \* the sessions named temp-...
    OldTemps,    \* the temp sessions that exist at the start
    SessionOf,   \* the session of a run that names one
    MaxTasks,    \* MAX_SESSION_TASKS
    MaxTurns,    \* MAX_TOOL_ITERATIONS
    Texts,       \* messages sent while a session may be running
    SentTo,      \* the session of each message
    None

ASSUME GateAssumption ==
    /\ IsFiniteSet(Runs) /\ Subagents \subseteq Runs
    /\ Temps \subseteq Sessions /\ OldTemps \subseteq Temps
    /\ SessionOf \in [Runs \ Subagents -> Sessions]
    /\ MaxTasks \in Nat \ {0} /\ MaxTurns \in Nat
    /\ SentTo \in [Texts -> Sessions]
    /\ None \notin Runs \cup Sessions \cup Texts

VARIABLES
    dirs,        \* the temp sessions that have a directory
    todo,        \* the directories a subagent's FindTemp has yet to try
    claim,       \* concurrentMap: sessions claimed as idle
    slot,        \* len(concurrentSlots[s]), a channel of capacity MaxTasks
    waitq,       \* the goroutines blocked on a send to that channel, in order
    pc, sess,    \* of each run
    canceled,    \* the runs whose context is canceled
    turns,       \* iterations of the loop of each run
    runMap,      \* runningMap: the runningEntry of a session, named by its maker
    count,       \* runningEntry.count
    mine,        \* the entry that the run's markRunning loaded or stored
    steerMap,    \* the steerEntry of a session, named by the text that made it
    list,        \* steerEntry.list
    tpc, tentry, \* the goroutine that delivers each text, the entry it holds
    history      \* the texts injected into each run's ToolHistories

slotVars == <<dirs, todo, claim, slot, waitq, sess, canceled>>
runVars == <<turns, runMap, count, mine>>
steerVars == <<steerMap, list, tpc, tentry, history>>
vars == <<slotVars, pc, runVars, steerVars>>

RunPCs == {"idle", "scan", "prepare", "full", "queued", "granted", "denied", "admitted",
           "marked", "turn", "reply", "last", "clear", "uncount", "unmark",
           "release", "receive", "done"}

\* The runs whose token is in the channel.
Holding == {"granted", "admitted", "marked", "turn", "reply", "last", "clear",
            "uncount", "unmark", "release", "receive"}
Holders(s) == {r \in Runs : sess[r] = s /\ pc[r] \in Holding}

TypeOK ==
    /\ dirs \subseteq Temps
    /\ todo \in [Runs -> SUBSET Temps]
    /\ claim \subseteq Sessions
    /\ slot \in [Sessions -> 0..MaxTasks]
    /\ waitq \in [Sessions -> Seq(Runs)]
    /\ pc \in [Runs -> RunPCs]
    /\ sess \in [Runs -> Sessions \cup {None}]
    /\ canceled \subseteq Runs
    /\ turns \in [Runs -> 0..MaxTurns]
    /\ runMap \in [Sessions -> Runs \cup {None}]
    /\ count \in [Runs -> Int]
    /\ mine \in [Runs -> Runs \cup {None}]
    /\ steerMap \in [Sessions -> Texts \cup {None}]
    /\ list \in [Texts -> Seq(Texts)]
    /\ tpc \in [Texts -> {"idle", "loaded", "steer", "append", "queued", "run"}]
    /\ tentry \in [Texts -> Runs \cup Texts \cup {None}]
    /\ history \in [Runs -> Seq(Texts)]

Init ==
    /\ dirs = OldTemps
    /\ todo = [r \in Runs |-> {}]
    /\ claim = {}
    /\ slot = [s \in Sessions |-> 0]
    /\ waitq = [s \in Sessions |-> <<>>]
    /\ pc = [r \in Runs |-> "idle"]
    /\ sess = [r \in Runs |-> None]
    /\ canceled = {}
    /\ turns = [r \in Runs |-> 0]
    /\ runMap = [s \in Sessions |-> None]
    /\ count = [r \in Runs |-> 0]
    /\ mine = [r \in Runs |-> None]
    /\ steerMap = [s \in Sessions |-> None]
    /\ list = [t \in Texts |-> <<>>]
    /\ tpc = [t \in Texts |-> "idle"]
    /\ tentry = [t \in Texts |-> None]
    /\ history = [r \in Runs |-> <<>>]

Go(r, from, to) == pc[r] = from /\ pc' = [pc EXCEPT ![r] = to]
GoText(t, from, to) == tpc[t] = from /\ tpc' = [tpc EXCEPT ![t] = to]

-----------------------------------------------------------------------------
(* A run gets its session.                                                  *)

Join(r) ==
    /\ r \notin Subagents
    /\ Go(r, "idle", "prepare")
    /\ sess' = [sess EXCEPT ![r] = SessionOf[r]]
    /\ UNCHANGED <<dirs, todo, claim, slot, waitq, canceled, runVars, steerVars>>

\* Variant for mutation checks: the slots are not looked at.
ClaimableUnflagged(s) == s \notin claim

Claimable(s) == s \notin claim /\ slot[s] = 0

\* FindTemp lists the directories once ...
ListTemps(r) ==
    /\ r \in Subagents
    /\ Go(r, "idle", "scan")
    /\ todo' = [todo EXCEPT ![r] = dirs]
    /\ UNCHANGED <<dirs, claim, slot, waitq, sess, canceled, runVars, steerVars>>

\* ... and tries ClaimIdle on one after the other, taking the first it grants.
TryClaim(r) ==
    /\ pc[r] = "scan"
    /\ \E s \in todo[r] :
          \/ /\ Claimable(s)
             /\ claim' = claim \cup {s}
             /\ sess' = [sess EXCEPT ![r] = s]
             /\ pc' = [pc EXCEPT ![r] = "prepare"]
             /\ UNCHANGED todo
          \/ /\ ~Claimable(s)
             /\ todo' = [todo EXCEPT ![r] = @ \ {s}]
             /\ UNCHANGED <<claim, sess, pc>>
    /\ UNCHANGED <<dirs, slot, waitq, canceled, runVars, steerVars>>

\* New("temp-") when ClaimIdle granted none; the new session is not claimed.
NewTemp(r) ==
    /\ Go(r, "scan", "prepare")
    /\ todo[r] = {}
    /\ \E s \in Temps \ dirs :
          /\ dirs' = dirs \cup {s}
          /\ sess' = [sess EXCEPT ![r] = s]
    /\ UNCHANGED <<todo, claim, slot, waitq, canceled, runVars, steerVars>>

\* Run fails before Execute (no skill, no model): the claim is left behind.
FailEarly(r) ==
    /\ Go(r, "prepare", "done")
    /\ UNCHANGED <<slotVars, runVars, steerVars>>

Cancel(r) ==
    /\ r \notin canceled
    /\ pc[r] \notin {"idle", "scan", "done"}
    /\ canceled' = canceled \cup {r}
    /\ UNCHANGED <<dirs, todo, claim, slot, waitq, sess, pc, runVars, steerVars>>

-----------------------------------------------------------------------------
(* AddConcurrent and RemoveConcurrent.                                      *)

\* The try under concurrentMu: it clears the session's claim, whoever made it.
TryEnter(r) ==
    LET s == sess[r] IN
    /\ pc[r] = "prepare"
    /\ IF slot[s] < MaxTasks
       THEN /\ slot' = [slot EXCEPT ![s] = @ + 1]
            /\ claim' = claim \ {s}
            /\ pc' = [pc EXCEPT ![r] = "admitted"]
       ELSE /\ pc' = [pc EXCEPT ![r] = "full"]
            /\ UNCHANGED <<slot, claim>>
    /\ UNCHANGED <<dirs, todo, waitq, sess, canceled, runVars, steerVars>>

\* The blocking select, without the lock: a slot freed since the try is taken,
\* else the goroutine waits in the channel's queue.
EnterOrWait(r) ==
    LET s == sess[r] IN
    /\ pc[r] = "full"
    /\ IF slot[s] < MaxTasks
       THEN /\ slot' = [slot EXCEPT ![s] = @ + 1]
            /\ pc' = [pc EXCEPT ![r] = "granted"]
            /\ UNCHANGED waitq
       ELSE /\ waitq' = [waitq EXCEPT ![s] = Append(@, r)]
            /\ pc' = [pc EXCEPT ![r] = "queued"]
            /\ UNCHANGED slot
    /\ UNCHANGED <<dirs, todo, claim, sess, canceled, runVars, steerVars>>

Dropped(q, i) == [j \in 1..(Len(q) - 1) |-> q[IF j < i THEN j ELSE j + 1]]

\* The select's other case: the context is canceled.
GiveUp(r) ==
    /\ r \in canceled
    /\ \/ pc[r] = "full" /\ UNCHANGED waitq
       \/ /\ pc[r] = "queued"
          /\ \E i \in DOMAIN waitq[sess[r]] :
                /\ waitq[sess[r]][i] = r
                /\ waitq' = [waitq EXCEPT ![sess[r]] = Dropped(@, i)]
    /\ pc' = [pc EXCEPT ![r] = "denied"]
    /\ UNCHANGED <<dirs, todo, claim, slot, sess, canceled, runVars, steerVars>>

\* The claim is cleared after the wait, taken or not.
Granted(r) ==
    /\ Go(r, "granted", "admitted")
    /\ claim' = claim \ {sess[r]}
    /\ UNCHANGED <<dirs, todo, slot, waitq, sess, canceled, runVars, steerVars>>

\* Variant for mutation checks: the deferred RemoveConcurrent runs here too.
DeniedReleases(r) ==
    /\ Go(r, "denied", "receive")
    /\ claim' = claim \ {sess[r]}
    /\ UNCHANGED <<dirs, todo, slot, waitq, sess, canceled, runVars, steerVars>>

Denied(r) ==
    /\ Go(r, "denied", "done")
    /\ claim' = claim \ {sess[r]}
    /\ UNCHANGED <<dirs, todo, slot, waitq, sess, canceled, runVars, steerVars>>

Release(r) ==
    /\ Go(r, "release", "receive")
    /\ claim' = claim \ {sess[r]}
    /\ UNCHANGED <<dirs, todo, slot, waitq, sess, canceled, runVars, steerVars>>

\* Variant for mutation checks: the token stays in the channel.
ReceiveNone(r) ==
    /\ Go(r, "receive", "done")
    /\ UNCHANGED <<slotVars, runVars, steerVars>>

\* The receive: the channel hands the slot to the first goroutine in its queue,
\* and never blocks.
Receive(r) ==
    LET s == sess[r] IN
    /\ pc[r] = "receive"
    /\ IF waitq[s] # <<>>
       THEN /\ waitq' = [waitq EXCEPT ![s] = Tail(@)]
            /\ pc' = [pc EXCEPT ![r] = "done", ![Head(waitq[s])] = "granted"]
            /\ UNCHANGED slot
       ELSE /\ slot' = [slot EXCEPT ![s] = IF @ > 0 THEN @ - 1 ELSE 0]
            /\ pc' = [pc EXCEPT ![r] = "done"]
            /\ UNCHANGED waitq
    /\ UNCHANGED <<dirs, todo, claim, sess, canceled, runVars, steerVars>>

-----------------------------------------------------------------------------
(* markRunning and its undo; the loop between them.                         *)

LoadMark(r) ==
    LET s == sess[r] IN
    /\ Go(r, "admitted", "marked")
    /\ runMap' = [runMap EXCEPT ![s] = IF @ = None THEN r ELSE @]
    /\ mine' = [mine EXCEPT ![r] = runMap'[s]]
    /\ UNCHANGED <<slotVars, turns, count, steerVars>>

CountUp(r) ==
    /\ Go(r, "marked", "turn")
    /\ count' = [count EXCEPT ![mine[r]] = @ + 1]
    /\ UNCHANGED <<slotVars, turns, runMap, mine, steerVars>>

\* Variant for mutation checks: the list is read and not reset.
CopySteer(r) ==
    LET e == steerMap[sess[r]] IN
    /\ history' = [history EXCEPT ![r] = IF e = None THEN @ ELSE @ \o list[e]]
    /\ UNCHANGED <<steerMap, list, tpc, tentry>>

\* getSteer: the list of the session's entry is taken whole.
TakeSteer(r) ==
    LET e == steerMap[sess[r]] IN
    /\ history' = [history EXCEPT ![r] = IF e = None THEN @ ELSE @ \o list[e]]
    /\ list' = IF e = None THEN list ELSE [list EXCEPT ![e] = <<>>]
    /\ UNCHANGED <<steerMap, tpc, tentry>>

SteerWaiting(r) == steerMap[sess[r]] # None /\ list[steerMap[sess[r]]] # <<>>

\* The top of the loop, up to `limit` times.
Turn(r) ==
    /\ turns[r] < MaxTurns
    /\ r \notin canceled
    /\ Go(r, "turn", "reply")
    /\ turns' = [turns EXCEPT ![r] = @ + 1]
    /\ TakeSteer(r)
    /\ UNCHANGED <<slotVars, runMap, count, mine>>

\* The model answers with tool calls or with the final text, or the run fails.
Reply(r) ==
    /\ pc[r] = "reply"
    /\ \E to \in {"turn", "last", "clear"} : pc' = [pc EXCEPT ![r] = to]
    /\ UNCHANGED <<slotVars, runVars, steerVars>>

\* After the final text: steer that came meanwhile goes to one more turn.
LastSteer(r) ==
    /\ Go(r, "last", IF SteerWaiting(r) THEN "turn" ELSE "clear")
    /\ TakeSteer(r)
    /\ UNCHANGED <<slotVars, runVars>>

\* The loop ends: canceled, or out of turns.
EndLoop(r) ==
    /\ r \in canceled \/ turns[r] = MaxTurns
    /\ Go(r, "turn", "clear")
    /\ UNCHANGED <<slotVars, runVars, steerVars>>

\* The deferred calls, last one first: ClearSteer, markRunning's undo, ...
ClearSteer(r) ==
    /\ Go(r, "clear", "uncount")
    /\ steerMap' = [steerMap EXCEPT ![sess[r]] = None]
    /\ UNCHANGED <<slotVars, runVars, list, tpc, tentry, history>>

CountDown(r) ==
    /\ Go(r, "uncount", IF count[mine[r]] > 1 THEN "release" ELSE "unmark")
    /\ count' = [count EXCEPT ![mine[r]] = @ - 1]
    /\ UNCHANGED <<slotVars, turns, runMap, mine, steerVars>>

\* The delete by key, outside runningMu: whatever entry is there now.
DeleteMark(r) ==
    /\ Go(r, "unmark", "release")
    /\ runMap' = [runMap EXCEPT ![sess[r]] = None]
    /\ UNCHANGED <<slotVars, turns, count, mine, steerVars>>

-----------------------------------------------------------------------------
(* The sender of a message: IsRunning, then AppendSteer.                    *)

LoadRunning(t) ==
    LET e == runMap[SentTo[t]] IN
    /\ GoText(t, "idle", IF e = None THEN "run" ELSE "loaded")
    /\ tentry' = [tentry EXCEPT ![t] = e]
    /\ UNCHANGED <<slotVars, pc, runVars, steerMap, list, history>>

ReadCount(t) ==
    /\ GoText(t, "loaded", IF count[tentry[t]] > 0 THEN "steer" ELSE "run")
    /\ UNCHANGED <<slotVars, pc, runVars, steerMap, list, tentry, history>>

LoadSteer(t) ==
    LET s == SentTo[t] IN
    /\ GoText(t, "steer", "append")
    /\ steerMap' = [steerMap EXCEPT ![s] = IF @ = None THEN t ELSE @]
    /\ tentry' = [tentry EXCEPT ![t] = steerMap'[s]]
    /\ UNCHANGED <<slotVars, pc, runVars, list, history>>

AppendSteer(t) ==
    /\ GoText(t, "append", "queued")
    /\ list' = [list EXCEPT ![tentry[t]] = Append(@, t)]
    /\ UNCHANGED <<slotVars, pc, runVars, steerMap, tentry, history>>

-----------------------------------------------------------------------------
RunStep(r) ==
    \/ TryEnter(r) \/ EnterOrWait(r) \/ GiveUp(r) \/ Granted(r) \/ Denied(r)
    \/ LoadMark(r) \/ CountUp(r) \/ Turn(r) \/ Reply(r) \/ LastSteer(r) \/ EndLoop(r)
    \/ ClearSteer(r) \/ CountDown(r) \/ DeleteMark(r) \/ Release(r) \/ Receive(r)

TextStep(t) == LoadRunning(t) \/ ReadCount(t) \/ LoadSteer(t) \/ AppendSteer(t)

Next ==
    \/ \E r \in Runs : \/ Join(r) \/ ListTemps(r) \/ TryClaim(r) \/ NewTemp(r) \/ FailEarly(r)
                       \/ Cancel(r) \/ RunStep(r)
    \/ \E t \in Texts : TextStep(t)

Spec == Init /\ [][Next]_vars

(* Fairness.  A goroutine that can run does; the model replies or its send  *)
(* times out, so Reply happens.  Nothing makes a run start or be canceled.  *)
FairSpec == Spec /\ \A r \in Runs : WF_vars(RunStep(r))

-----------------------------------------------------------------------------
(* Properties.                                                              *)

\* The tokens in a session's channel are those of the runs that hold one, and
\* never more than MAX_SESSION_TASKS, whichever of them are canceled, refused
\* or handed a slot: no slot leaks and none is freed twice.
SlotsAccounted == \A s \in Sessions : slot[s] = Cardinality(Holders(s))

\* Runs wait only while every slot is taken, so a new run, which tries the
\* channel first, cannot overtake the runs that wait.
WaitOnlyWhenFull == \A s \in Sessions : waitq[s] # <<>> => slot[s] = MaxTasks

\* A temp session is given to a subagent as idle only when no run holds or
\* waits for a slot of it, between any two steps of the runs that leave it.
FoundIsIdle ==
    [][\A r \in Subagents, s \in Sessions :
          pc[r] = "scan" /\ sess'[r] = s /\ s \in dirs
          => Holders(s) = {} /\ \A q \in Runs : sess[q] = s => pc[q] # "queued"]_vars

\* A steer message is injected at most once, into one run, although several
\* runs of the session read the list.
InjectedOnce ==
    \A r, q \in Runs : \A i \in DOMAIN history[r], j \in DOMAIN history[q] :
        history[r][i] = history[q][j] => r = q /\ i = j

\* A run that waits for a slot gets it or gives up: further tasks queue rather
\* than starve.
EveryRunAdmitted == \A r \in Runs : pc[r] = "queued" ~> pc[r] # "queued"
=============================================================================
