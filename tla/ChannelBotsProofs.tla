-------------------------- MODULE ChannelBotsProofs --------------------------
(***************************************************************************)
(* Theorems about ChannelBots, for any writers, tokens, edits and chains of *)
(* retries: the bot never has two connections, it comes to follow its       *)
(* setting, and each process comes to serve the models on file.  And about  *)
(* FileTools, for any tasks, files and texts: what a task may write over it *)
(* has seen, and an undo gives back what was there before.  And about       *)
(* TuiWindow, for any runs, prompts and restarts: no prompt is mislaid      *)
(* between the daemon and the user, and events are shown in their order.    *)
(***************************************************************************)
EXTENDS ChannelBots, SublistsProofs, FileTools, TuiWindow

BotSteps == {"quiet", "called", "waits", "starts", "names", "sleeps"}

\* Each caller has a record of its call: `call` can be updated by field.
CallShape ==
    call = [k \in Callers |-> [step |-> call[k].step, attempt |-> call[k].attempt,
                               enabled |-> call[k].enabled, token |-> call[k].token]]

HostShape ==
    /\ reload = [r \in Reloaders |-> reload[r]]
    /\ events \in [Processes -> Nat]
    /\ dropped \in [Processes -> BOOLEAN]
    /\ crossed \in [Processes -> BOOLEAN]
    /\ held = [w \in Writers |-> held[w]]
    /\ host = [p \in Processes |-> host[p]]

\* The watcher of the daemon sees to the registry and then to the bot.
WatcherInv ==
    reload["daemon"] # Idle => reload["daemon"].step = "built" /\ call["watch"].step = "quiet"

\* discordMu is held by the one call that starts a bot.
MutexInv ==
    /\ \A k \in Callers : call[k].step \in {"starts", "names"} <=> holder = k
    /\ holder \in Callers \cup {"none"}

ConnectionInv ==
    /\ OneConnection
    /\ \A k \in Callers : call[k].step = "starts" => running = None

-----------------------------------------------------------------------------
Starting == \E k \in Callers : call[k].step = "starts"

\* A retry is due, or waits for the mutex.
Pending == \E c \in Chains : call[c].step \in {"sleeps", "called", "waits"}

\* The setting, or the token, changes in a save that is on its way, or has changed and a
\* reload that will read them is still to come.
Coming ==
    \/ \E w \in Writers : Edits(w)
    \/ events["daemon"] > 0 \/ missed
    \/ reload["daemon"] # Idle
    \/ \E k \in Callers : call[k].step = "called"

RunsAsLast ==
    ~Starting /\ ~Pending /\ ~late /\ ~givenUp =>
        running = IF last.enabled THEN last.token ELSE None

LastIsCurrent ==
    ~Starting /\ ~Pending /\ ~late /\ ~givenUp /\ ~Coming =>
        \/ last = Current
        \/ \E k \in Callers : call[k].step = "waits" /\ Pair(k) = Current

GivenUpInv == givenUp => running = None /\ ~Starting

\* Only a retry has an attempt behind it, and only a chain is a retry.
AttemptInv ==
    /\ \A k \in Callers : call[k].attempt \in Nat
    /\ \A c \in Chains : call[c].step # "quiet" => call[c].attempt > 0

ListInv == \A r \in Reloaders : reload[r].step = "built" =>
    \/ ToSet(reload[r].list) = Listed(config)
    \/ events[Home(r)] > 0 \/ dropped[Home(r)] \/ crossed[Home(r)]

LEMMA NoneCalls == "none" \notin Callers
BY BotAssumption DEF Callers

-----------------------------------------------------------------------------
(* What each step does to the calls.                                        *)

Others(k) == \A j \in Callers \ {k} : call'[j] = call[j]

LEMMA StepSet ==
    ASSUME CallShape, NEW k \in Callers, NEW x, call' = [call EXCEPT ![k].step = x]
    PROVE  /\ CallShape' /\ Others(k)
           /\ call'[k] = [step |-> x, attempt |-> call[k].attempt,
                          enabled |-> call[k].enabled, token |-> call[k].token]
<1>1. /\ DOMAIN call = Callers /\ call = [j \in Callers |-> call[j]]
      /\ call[k] = [step |-> call[k].step, attempt |-> call[k].attempt,
                    enabled |-> call[k].enabled, token |-> call[k].token]
  BY DEF CallShape
<1>2. call' = [j \in Callers |-> IF j = k THEN [call[k] EXCEPT !.step = x] ELSE call[j]]
  BY <1>1
<1>3. [call[k] EXCEPT !.step = x] =
         [step |-> x, attempt |-> call[k].attempt,
          enabled |-> call[k].enabled, token |-> call[k].token]
  BY <1>1
<1>4. call'[k] = [step |-> x, attempt |-> call[k].attempt,
                  enabled |-> call[k].enabled, token |-> call[k].token]
  BY <1>2, <1>3
<1>5. Others(k)  BY <1>2 DEF Others
<1>6. \A j \in Callers : call'[j] = [step |-> call'[j].step, attempt |-> call'[j].attempt,
                             enabled |-> call'[j].enabled, token |-> call'[j].token]
  <2> SUFFICES ASSUME NEW j \in Callers
               PROVE  call'[j] = [step |-> call'[j].step, attempt |-> call'[j].attempt,
                             enabled |-> call'[j].enabled, token |-> call'[j].token]
    OBVIOUS
  <2>1. CASE j = k  BY <1>4, <2>1
  <2>2. CASE j # k
    <3>1. call'[j] = call[j]  BY <1>5, <2>2 DEF Others
    <3>2. call[j] = [step |-> call[j].step, attempt |-> call[j].attempt,
                     enabled |-> call[j].enabled, token |-> call[j].token]
      BY DEF CallShape
    <3> QED  BY <3>1, <3>2
  <2> QED  BY <2>1, <2>2
<1>7. CallShape'  BY <1>2, <1>6 DEF CallShape
<1> QED  BY <1>4, <1>5, <1>7

LEMMA CallSet ==
    ASSUME CallShape, NEW k \in Callers, NEW x,
           x = [step |-> x.step, attempt |-> x.attempt, enabled |-> x.enabled, token |-> x.token],
           call' = [call EXCEPT ![k] = x]
    PROVE  CallShape' /\ Others(k) /\ call'[k] = x
<1>1. DOMAIN call = Callers /\ call = [j \in Callers |-> call[j]]
  BY DEF CallShape
<1>2. call' = [j \in Callers |->
                  IF j = k THEN x ELSE call[j]]
  BY <1>1
<1>3. call'[k] = x  BY <1>2
<1>4. Others(k)  BY <1>2 DEF Others
<1>5. \A j \in Callers : call'[j] = [step |-> call'[j].step, attempt |-> call'[j].attempt,
                             enabled |-> call'[j].enabled, token |-> call'[j].token]
  <2> SUFFICES ASSUME NEW j \in Callers
               PROVE  call'[j] = [step |-> call'[j].step, attempt |-> call'[j].attempt,
                             enabled |-> call'[j].enabled, token |-> call'[j].token]
    OBVIOUS
  <2>1. CASE j = k  BY <1>3, <2>1
  <2>2. CASE j # k
    <3>1. call'[j] = call[j]  BY <1>4, <2>2 DEF Others
    <3>2. call[j] = [step |-> call[j].step, attempt |-> call[j].attempt,
                     enabled |-> call[j].enabled, token |-> call[j].token]
      BY DEF CallShape
    <3> QED  BY <3>1, <3>2
  <2> QED  BY <2>1, <2>2
<1>6. CallShape'  BY <1>2, <1>5 DEF CallShape
<1> QED  BY <1>3, <1>4, <1>6

LEMMA PairRead ==
    ASSUME CallShape, NEW k \in Callers, ReadPair(k)
    PROVE  /\ CallShape' /\ Others(k)
           /\ call[k].step = "called" /\ call'[k].step = "waits"
           /\ call'[k].attempt = call[k].attempt
           /\ call'[k].enabled = config.enabled /\ call'[k].token = keychain
<1> DEFINE x == [step |-> "waits", attempt |-> call[k].attempt,
                 enabled |-> config.enabled, token |-> keychain]
<1>1. call' = [call EXCEPT ![k] = x] /\ call[k].step = "called"  BY DEF ReadPair
<1>2. /\ x.step = "waits" /\ x.attempt = call[k].attempt
      /\ x.enabled = config.enabled /\ x.token = keychain
      /\ x = [step |-> x.step, attempt |-> x.attempt, enabled |-> x.enabled, token |-> x.token]
  OBVIOUS
<1> HIDE DEF x
<1>3. CallShape' /\ Others(k) /\ call'[k] = x  BY <1>1, <1>2, CallSet
<1> QED  BY <1>1, <1>2, <1>3

LEMMA CallReturned ==
    ASSUME CallShape, NEW k \in Callers, Returns(k)
    PROVE  /\ CallShape' /\ Others(k)
           /\ call'[k].step = "quiet" /\ call'[k].attempt = 0
<1>1. call' = [call EXCEPT ![k] = Quiet]  BY DEF Returns
<1>2. /\ Quiet.step = "quiet" /\ Quiet.attempt = 0
      /\ Quiet = [step |-> Quiet.step, attempt |-> Quiet.attempt,
                  enabled |-> Quiet.enabled, token |-> Quiet.token]
  BY DEF Quiet
<1> QED  BY <1>1, <1>2, CallSet

LEMMA RetrySet ==
    ASSUME CallShape, NEW k \in Callers, NEW c \in Chains, c = k \/ call[c] = Quiet,
           call' = [[call EXCEPT ![k] = Quiet] EXCEPT ![c] = Sleeping(call[k].attempt + 1)]
    PROVE  /\ CallShape'
           /\ \A j \in Callers \ {k, c} : call'[j] = call[j]
           /\ k # c => call'[k].step = "quiet" /\ call'[k].attempt = 0
           /\ call'[c].step = "sleeps" /\ call'[c].attempt = call[k].attempt + 1
<1>0. c \in Callers  BY DEF Callers
<1> DEFINE q == [step |-> "quiet", attempt |-> 0, enabled |-> FALSE, token |-> None]
           z == [step |-> "sleeps", attempt |-> call[k].attempt + 1, enabled |-> FALSE, token |-> None]
<1>1. Quiet = q /\ Sleeping(call[k].attempt + 1) = z  BY DEF Quiet, Sleeping
<1>2. call' = [[call EXCEPT ![k] = q] EXCEPT ![c] = z]  BY <1>1
<1>3. DOMAIN call = Callers /\ call = [j \in Callers |-> call[j]]  BY DEF CallShape
<1>4. call' = [j \in Callers |-> IF j = c THEN z ELSE IF j = k THEN q ELSE call[j]]
  BY <1>0, <1>2, <1>3
<1>5. \A j \in Callers : call'[j] = [step |-> call'[j].step, attempt |-> call'[j].attempt,
                             enabled |-> call'[j].enabled, token |-> call'[j].token]
  <2> SUFFICES ASSUME NEW j \in Callers
               PROVE  call'[j] = [step |-> call'[j].step, attempt |-> call'[j].attempt,
                             enabled |-> call'[j].enabled, token |-> call'[j].token]
    OBVIOUS
  <2>1. CASE j \in {c, k}  BY <1>4, <2>1
  <2>2. CASE j \notin {c, k}
    <3>1. call'[j] = call[j]  BY <1>4, <2>2
    <3>2. call[j] = [step |-> call[j].step, attempt |-> call[j].attempt,
                     enabled |-> call[j].enabled, token |-> call[j].token]
      BY DEF CallShape
    <3> QED  BY <3>1, <3>2
  <2> QED  BY <2>1, <2>2
<1>6. CallShape'  BY <1>4, <1>5 DEF CallShape
<1> QED  BY <1>0, <1>4, <1>6

-----------------------------------------------------------------------------
(* Shapes, the watcher and the mutex.                                       *)

LEMMA DaemonReloader == "daemon" \in Reloaders /\ "daemon" \in Processes /\ "daemon" \notin Writers
BY HostAssumption DEF Reloaders, Processes

LEMMA HomeProcess == \A r \in Reloaders : Home(r) \in Processes
BY DEF Home, ProcessOf, Processes

LEMMA ShapeInit == Init => HostShape /\ CallShape
<1> SUFFICES ASSUME Init PROVE HostShape /\ CallShape  OBVIOUS
<1>1. HostShape  BY DEF Init, ConfigInit, HostInit, HostShape
<1>2. /\ Quiet = [step |-> Quiet.step, attempt |-> Quiet.attempt,
                  enabled |-> Quiet.enabled, token |-> Quiet.token]
      /\ Called = [step |-> Called.step, attempt |-> Called.attempt,
                   enabled |-> Called.enabled, token |-> Called.token]
  BY DEF Quiet, Called
<1>3. CallShape
  <2>1. call = [k \in Callers |-> IF k = "boot" /\ "channel" \in mix THEN Called ELSE Quiet]
    BY DEF Init, BotInit
  <2>2. \A k \in Callers : call[k] = Called \/ call[k] = Quiet
    BY <2>1
  <2>3. \A k \in Callers : call[k] = [step |-> call[k].step, attempt |-> call[k].attempt,
                                     enabled |-> call[k].enabled, token |-> call[k].token]
    BY <1>2, <2>2
  <2> QED  BY <2>1, <2>3 DEF CallShape
<1> QED  BY <1>1, <1>3

LEMMA SaveShape ==
    ASSUME HostShape, NEW w \in Writers, Saved(w)
    PROVE  HostShape'
<1>1. \A p \in Processes : events[p] + 1 \in Nat  BY DEF HostShape
<1> QED  BY <1>1 DEF HostShape, Saved, Save, Reloaders

LEMMA EventTaken ==
    ASSUME HostShape, NEW p \in Processes, NEW b, Watch(p, b) \/ Drop(p, b)
    PROVE  events' \in [Processes -> Nat]
<1>1. events[p] \in Nat /\ events[p] > 0  BY DEF HostShape, Watch, Drop
<1>2. events' = [events EXCEPT ![p] = @ - 1]  BY DEF Watch, Drop
<1> QED  BY <1>1, <1>2 DEF HostShape

LEMMA HostStepShape ==
    ASSUME HostShape, HostStep
    PROVE  HostShape'
<1>0. held' = held  BY DEF HostStep, configVars
<1>1. ASSUME NEW r \in Reloaders, ReadList(r) PROVE HostShape'
  <2>1. Home(r) \in Processes  BY HomeProcess
  <2> QED  BY <1>0, <1>1, <2>1 DEF HostShape, ReadList
<1>2. ASSUME NEW r \in Reloaders, Install(r) PROVE HostShape'
  BY <1>0, <1>2 DEF HostShape, Install
<1>3. ASSUME NEW p \in Processes, Watch(p, Busy(p)) PROVE HostShape'
  BY <1>0, <1>3, EventTaken DEF HostShape, Watch, Reloaders
<1>4. ASSUME NEW p \in Processes, Drop(p, Busy(p)) PROVE HostShape'
  BY <1>0, <1>4, EventTaken DEF HostShape, Drop
<1> QED  BY <1>1, <1>2, <1>3, <1>4 DEF HostStep

\* An edit changes the token only while it holds a copy of the file that it will save.
LEMMA EditHolds ==
    ASSUME HostShape, Edit
    PROVE  /\ config' = config
           /\ held' = [v \in Writers |-> held'[v]]
           /\ UNCHANGED <<keychain, held>> \/ \E w \in Writers : Edits(w)'
<1>1. \A w \in Writers : \A kind, to, whole, gone, again : Load(w, kind, to, whole, gone, again) =>
         /\ config' = config
         /\ held' = [v \in Writers |-> held'[v]]
         /\ Edits(w)'
  BY DEF HostShape, Load, Copy, Edits
<1>2. Tui \in Writers  BY ConfigAssumption
<1>3. CASE OpenPage \/ SessionModelSelect
  BY <1>3 DEF OpenPage, SessionModelSelect, HostShape
<1>4. CASE RemoveInTui \/ SaveModelOrder \/ DispatcherSelect \/ SummarySelect
  BY <1>1, <1>2, <1>4 DEF RemoveInTui, SaveModelOrder, DispatcherSelect, SummarySelect
<1>5. ASSUME NEW w \in Writers,
             \/ ReplaceModels(w) \/ RemoveOnWeb(w) \/ SetModelPriority(w) \/ SetModelRouting(w)
             \/ SetModelTag(w) \/ SetOther(w) \/ SetLang(w) \/ EnableChannel(w) \/ DisableChannel(w)
      PROVE  /\ config' = config
             /\ held' = [v \in Writers |-> held'[v]]
             /\ Edits(w)'
  BY <1>1, <1>5 DEF ReplaceModels, RemoveOnWeb, SetModelPriority, SetModelRouting, SetModelTag,
                    SetOther, SetLang, EnableChannel, DisableChannel
<1> QED  BY <1>3, <1>4, <1>5, <1>1, <1>2 DEF Edit

Shape == HostShape /\ CallShape

LEMMA WatchCaller == "watch" \in Callers /\ "watch" \notin Chains /\ "boot" \notin Chains
BY BotAssumption DEF Callers

(* What Enter, Started and StartFails make of the calls.                    *)
LEMMA EnterEffect ==
    ASSUME CallShape, NEW k \in Callers, Enter(k)
    PROVE  /\ CallShape' /\ Others(k)
           /\ call[k].step = "waits" /\ holder = "none"
           /\ \/ /\ Seen(k) /\ call'[k].step = "quiet" /\ call'[k].attempt = 0
                 /\ UNCHANGED <<holder, running, open, last, late, givenUp>>
              \/ /\ ~Seen(k) /\ (~call[k].enabled \/ call[k].token = None)
                 /\ call'[k].step = "quiet" /\ call'[k].attempt = 0
                 /\ last' = Pair(k) /\ holder' = holder
                 /\ Close /\ late' = (Pair(k) # Current) /\ givenUp' = FALSE
              \/ /\ ~Seen(k) /\ call'[k].step = "starts" /\ call'[k].attempt = call[k].attempt
                 /\ holder' = k /\ last' = last
                 /\ Close /\ late' = (Pair(k) # Current) /\ givenUp' = FALSE
<1>0. call[k].step = "waits" /\ holder = "none"  BY DEF Enter
<1>1. CASE Seen(k)
  <2>1. Returns(k) /\ UNCHANGED <<holder, running, open, last, late, givenUp>>  BY <1>1 DEF Enter
  <2> QED  BY <1>0, <1>1, <2>1, CallReturned
<1>2. CASE ~Seen(k) /\ (~call[k].enabled \/ call[k].token = None)
  <2>1. /\ Returns(k) /\ last' = Pair(k) /\ holder' = holder
        /\ Close /\ late' = (Pair(k) # Current) /\ givenUp' = FALSE
    BY <1>2 DEF Enter
  <2> QED  BY <1>0, <1>2, <2>1, CallReturned
<1>3. CASE ~Seen(k) /\ ~(~call[k].enabled \/ call[k].token = None)
  <2>1. /\ call' = [call EXCEPT ![k].step = "starts"] /\ holder' = k /\ last' = last
        /\ Close /\ late' = (Pair(k) # Current) /\ givenUp' = FALSE
    BY <1>3 DEF Enter
  <2>2. /\ CallShape' /\ Others(k)
        /\ call'[k] = [step |-> "starts", attempt |-> call[k].attempt,
                       enabled |-> call[k].enabled, token |-> call[k].token]
    BY <2>1, StepSet
  <2>3. call'[k].step = "starts" /\ call'[k].attempt = call[k].attempt  BY <2>2
  <2> QED  BY <1>0, <1>3, <2>1, <2>2, <2>3
<1> QED  BY <1>1, <1>2, <1>3

LEMMA StartedEffect ==
    ASSUME CallShape, NEW k \in Callers, Started(k)
    PROVE  /\ CallShape' /\ Others(k)
           /\ holder = k /\ call[k].step = "starts"
           /\ call'[k].attempt \in {0, call[k].attempt}
           /\ call'[k].step = "quiet" => call'[k].attempt = 0
           /\ \/ call'[k].step = "quiet" /\ holder' = "none"
              \/ call'[k].step = "names" /\ holder' = holder
           /\ UNCHANGED <<config, keychain>>
<1>1. CASE config.username = keychain
  <2>1. Returns(k) /\ holder' = "none" /\ UNCHANGED configVars /\ holder = k /\ call[k].step = "starts"
    BY <1>1 DEF Started
  <2> QED  BY <2>1, CallReturned DEF configVars
<1>2. CASE config.username # keychain
  <2>1. /\ call' = [call EXCEPT ![k].step = "names"] /\ holder = k /\ call[k].step = "starts"
        /\ UNCHANGED <<holder, config, keychain>>
    BY <1>2 DEF Started
  <2>2. /\ CallShape' /\ Others(k)
        /\ call'[k] = [step |-> "names", attempt |-> call[k].attempt,
                       enabled |-> call[k].enabled, token |-> call[k].token]
    BY <2>1, StepSet
  <2>3. call'[k].step = "names" /\ call'[k].attempt = call[k].attempt  BY <2>2
  <2> QED  BY <2>1, <2>2, <2>3
<1> QED  BY <1>1, <1>2

\* The call of k gives way to a retry of chain c.
RetriesAs(k, c) ==
    /\ c = k \/ call[c] = Quiet
    /\ \A j \in Callers \ {k, c} : call'[j] = call[j]
    /\ k # c => call'[k].step = "quiet" /\ call'[k].attempt = 0
    /\ call'[c].step = "sleeps" /\ call'[c].attempt = call[k].attempt + 1

LEMMA FailEffect ==
    ASSUME CallShape, NEW k \in Callers, StartFails(k)
    PROVE  /\ CallShape'
           /\ holder = k /\ call[k].step = "starts" /\ holder' = "none"
           /\ UNCHANGED <<running, open, last, late, missed, configVars>>
           /\ \/ givenUp' = givenUp /\ \E c \in Chains : RetriesAs(k, c)
              \/ /\ givenUp' = TRUE /\ Others(k)
                 /\ call'[k].step = "quiet" /\ call'[k].attempt = 0
<1>1. /\ holder = k /\ call[k].step = "starts" /\ holder' = "none"
      /\ UNCHANGED <<running, open, last, late, missed, configVars>>
  BY DEF StartFails
<1>2. CASE call[k].attempt < RetryMax
  <2>1. PICK c \in Chains : /\ c = k \/ call[c] = Quiet
                            /\ call' = [[call EXCEPT ![k] = Quiet]
                                          EXCEPT ![c] = Sleeping(call[k].attempt + 1)]
                            /\ givenUp' = givenUp
    BY <1>2 DEF StartFails
  <2>2. RetriesAs(k, c)  BY <2>1, RetrySet DEF RetriesAs
  <2>3. CallShape'  BY <2>1, RetrySet
  <2> QED  BY <1>1, <2>1, <2>2, <2>3
<1>3. CASE ~(call[k].attempt < RetryMax)
  <2>1. Returns(k) /\ givenUp' = TRUE  BY <1>3 DEF StartFails
  <2> QED  BY <1>1, <2>1, CallReturned
<1> QED  BY <1>2, <1>3

LEMMA RetryEffect ==
    ASSUME CallShape, NEW c \in Chains, Retry(c)
    PROVE  /\ CallShape' /\ Others(c)
           /\ call[c].step = "sleeps" /\ call'[c].step = "called"
           /\ call'[c].attempt = call[c].attempt
<1>0. c \in Callers  BY DEF Callers
<1>1. call' = [call EXCEPT ![c].step = "called"] /\ call[c].step = "sleeps"  BY DEF Retry
<1>2. /\ CallShape' /\ Others(c)
      /\ call'[c] = [step |-> "called", attempt |-> call[c].attempt,
                     enabled |-> call[c].enabled, token |-> call[c].token]
  BY <1>0, <1>1, StepSet
<1> QED  BY <1>1, <1>2

LEMMA WatchAsks ==
    ASSUME CallShape, call' = [call EXCEPT !["watch"].step = "called"]
    PROVE  /\ CallShape' /\ Others("watch") /\ call'["watch"].step = "called"
           /\ call'["watch"].attempt = call["watch"].attempt
<1>2. /\ CallShape' /\ Others("watch")
      /\ call'["watch"] = [step |-> "called", attempt |-> call["watch"].attempt,
                     enabled |-> call["watch"].enabled, token |-> call["watch"].token]
  BY WatchCaller, StepSet
<1> QED  BY <1>2

\* A step of the host touches no call but the watcher's.
LEMMA HostCalls ==
    ASSUME CallShape, HostStep
    PROVE  /\ CallShape'
           /\ \/ call' = call
              \/ /\ Install("daemon") /\ Others("watch") /\ call'["watch"].step = "called"
                 /\ call'["watch"].attempt = call["watch"].attempt
           /\ UNCHANGED <<holder, running, open, last, late, givenUp>>
<1>1. CASE Install("daemon") /\ call' = [call EXCEPT !["watch"].step = "called"]
           /\ UNCHANGED <<holder, running, open, last, late, missed, givenUp>>
  BY <1>1, WatchAsks
<1>2. CASE call' = call /\ UNCHANGED <<holder, running, open, last, late, givenUp>>
  BY <1>2 DEF CallShape
<1> QED  BY <1>1, <1>2 DEF HostStep, botVars

LEMMA ShapeNext ==
    ASSUME Shape, [Next]_vars
    PROVE  Shape'
<1>1. CASE EditStep
  <2>1. UNCHANGED <<hostVars, botVars>> /\ Edit  BY <1>1 DEF EditStep
  <2>2. held' = [w \in Writers |-> held'[w]]  BY <2>1, EditHolds DEF Shape
  <2> QED  BY <2>1, <2>2 DEF Shape, HostShape, CallShape, hostVars, botVars
<1>2. CASE SaveStep
  <2>1. PICK w \in Writers : Saved(w) /\ UNCHANGED botVars  BY <1>2 DEF SaveStep
  <2>2. HostShape'  BY <2>1, SaveShape DEF Shape
  <2> QED  BY <2>1, <2>2 DEF Shape, CallShape, botVars
<1>3. CASE HostStep
  BY <1>3, HostStepShape, HostCalls DEF Shape
<1>4. CASE BotStep
  <2>1. UNCHANGED hostVars  BY <1>4 DEF BotStep
  <2>2. held' = [w \in Writers |-> held'[w]]
    <3>1. ASSUME NEW k \in Callers, Started(k) PROVE held' = [w \in Writers |-> held'[w]]
      BY <3>1 DEF Started, configVars, Shape, HostShape
    <3>2. CASE UNCHANGED configVars
      BY <3>2 DEF configVars, Shape, HostShape
    <3> QED  BY <1>4, <3>1, <3>2 DEF BotStep, NothingToStart, Named, StartFails
  <2>3. CallShape'
    <3>1. ASSUME NEW k \in Callers, NothingToStart(k) \/ Named(k) PROVE Returns(k)
      BY <3>1 DEF NothingToStart, Named
    <3> QED  BY <1>4, <3>1, PairRead, EnterEffect, StartedEffect, FailEffect, RetryEffect, CallReturned
             DEF BotStep, Shape
  <2> QED  BY <2>1, <2>2, <2>3 DEF Shape, HostShape, hostVars
<1>5. CASE UNCHANGED vars
  BY <1>5 DEF vars, configVars, hostVars, botVars, Shape, HostShape, CallShape
<1> QED  BY <1>1, <1>2, <1>3, <1>4, <1>5 DEF Next

LEMMA ReturnSteps ==
    ASSUME NEW k \in Callers, NothingToStart(k) \/ Named(k)
    PROVE  /\ Returns(k) /\ holder = k /\ holder' = "none"
           /\ UNCHANGED <<running, open, missed, givenUp>>
           /\ UNCHANGED <<config, keychain>>
BY DEF NothingToStart, Named, configVars

\* One reloader at a time is the watcher of the daemon, and it is quiet when it begins.
LEMMA WatcherStep ==
    ASSUME Shape, WatcherInv, [Next]_vars
    PROVE  WatcherInv'
<1> USE DEF Shape
<1>0. "watch" \in Callers /\ "watch" \notin Chains /\ "daemon" \in Reloaders
      /\ "daemon" \in Processes /\ "daemon" \notin Writers
  BY WatchCaller, DaemonReloader
<1>1. CASE EditStep
  BY <1>1 DEF EditStep, WatcherInv, hostVars, botVars
<1>2. CASE SaveStep
  <2>1. PICK w \in Writers : Saved(w) /\ UNCHANGED botVars  BY <1>2 DEF SaveStep
  <2>2. reload'["daemon"] = reload["daemon"]  BY <1>0, <2>1 DEF Saved, HostShape
  <2> QED  BY <2>1, <2>2 DEF WatcherInv, botVars
<1>3. CASE HostStep
  <2>1. ASSUME NEW r \in Reloaders, ReadList(r), UNCHANGED botVars PROVE WatcherInv'
    <3>1. Due # Idle /\ Idle.step = "idle"  BY DEF Due, Idle
    <3>2. r # "daemon"  BY <2>1, <3>1 DEF ReadList, WatcherInv
    <3> QED  BY <1>0, <2>1, <3>2 DEF ReadList, WatcherInv, HostShape, botVars
  <2>2. CASE Install("daemon")
    <3>1. reload'["daemon"] = Idle  BY <1>0, <2>2 DEF Install, HostShape
    <3> QED  BY <3>1 DEF WatcherInv
  <2>3. ASSUME NEW r \in Reloaders \ {"daemon"}, Install(r), UNCHANGED botVars PROVE WatcherInv'
    BY <1>0, <2>3 DEF Install, WatcherInv, HostShape, botVars
  <2>4. ASSUME NEW p \in Processes, Watch(p, Busy(p)), UNCHANGED botVars PROVE WatcherInv'
    <3>1. CASE p = "daemon"
      <4>1. call["watch"].step = "quiet"  BY <2>4, <3>1 DEF Watch, Busy, Quiet
      <4>2. reload'["daemon"] = [step |-> "built", list |-> config.models]
        BY <1>0, <2>4, <3>1 DEF Watch, HostShape
      <4> QED  BY <2>4, <4>1, <4>2 DEF WatcherInv, botVars
    <3>2. CASE p # "daemon"
      BY <1>0, <2>4, <3>2 DEF Watch, WatcherInv, HostShape, botVars
    <3> QED  BY <3>1, <3>2
  <2>5. ASSUME NEW p \in Processes, Drop(p, Busy(p)), call' = call PROVE WatcherInv'
    BY <2>5 DEF Drop, WatcherInv
  <2> QED  BY <1>3, <2>1, <2>2, <2>3, <2>4, <2>5 DEF HostStep
<1>4. CASE BotStep
  <2>1. reload' = reload  BY <1>4 DEF BotStep, hostVars
  <2>2. call["watch"].step = "quiet" => call'["watch"].step = "quiet"
    <3> SUFFICES ASSUME call["watch"].step = "quiet" PROVE call'["watch"].step = "quiet"
      OBVIOUS
    <3>1. ASSUME NEW k \in Callers, ReadPair(k) PROVE call'["watch"].step = "quiet"
      BY <1>0, <3>1, PairRead DEF Others
    <3>2. ASSUME NEW k \in Callers, Enter(k) PROVE call'["watch"].step = "quiet"
      BY <1>0, <3>2, EnterEffect DEF Others
    <3>3. ASSUME NEW k \in Callers, NothingToStart(k) \/ Named(k) PROVE call'["watch"].step = "quiet"
      BY <1>0, <3>3, ReturnSteps, CallReturned DEF Others
    <3>4. ASSUME NEW k \in Callers, Started(k) PROVE call'["watch"].step = "quiet"
      BY <1>0, <3>4, StartedEffect DEF Others
    <3>5. ASSUME NEW k \in Callers, StartFails(k) PROVE call'["watch"].step = "quiet"
      <4>1. k # "watch"  BY <3>5 DEF StartFails
      <4>2. CASE Others(k)  BY <1>0, <4>1, <4>2 DEF Others
      <4>3. CASE \E c \in Chains : RetriesAs(k, c)
        BY <1>0, <4>1, <4>3 DEF RetriesAs
      <4> QED  BY <3>5, <4>2, <4>3, FailEffect
    <3>6. ASSUME NEW c \in Chains, Retry(c) PROVE call'["watch"].step = "quiet"
      BY <1>0, <3>6, RetryEffect DEF Others
    <3> QED  BY <1>4, <3>1, <3>2, <3>3, <3>4, <3>5, <3>6 DEF BotStep
  <2> QED  BY <2>1, <2>2 DEF WatcherInv
<1>5. CASE UNCHANGED vars
  BY <1>5 DEF vars, hostVars, botVars, WatcherInv
<1> QED  BY <1>1, <1>2, <1>3, <1>4, <1>5 DEF Next

(* The mutex and the connection.                                            *)
LEMMA ConnectionStep ==
    ASSUME Shape, WatcherInv, MutexInv, ConnectionInv, [Next]_vars
    PROVE  MutexInv' /\ ConnectionInv'
<1>0. "none" \notin Callers /\ "watch" \in Callers  BY NoneCalls, WatchCaller
<1>1. CASE EditStep \/ SaveStep \/ UNCHANGED vars
  BY <1>1 DEF EditStep, SaveStep, vars, botVars, MutexInv, ConnectionInv, OneConnection
<1>2. CASE HostStep
  <2>1. CASE call' = call
    BY <1>2, <2>1, HostCalls DEF MutexInv, ConnectionInv, OneConnection, Shape
  <2>2. CASE Install("daemon") /\ Others("watch") /\ call'["watch"].step = "called"
    <3>1. call["watch"].step = "quiet"  BY <2>2 DEF WatcherInv, Install, Idle
    <3>2. UNCHANGED <<holder, running, open>>  BY <1>2, HostCalls DEF Shape
    <3> QED  BY <1>0, <2>2, <3>1, <3>2 DEF Others, MutexInv, ConnectionInv, OneConnection
  <2> QED  BY <1>2, <2>1, <2>2, HostCalls DEF Shape
<1>3. ASSUME NEW k \in Callers, ReadPair(k) PROVE MutexInv' /\ ConnectionInv'
  <2>1. UNCHANGED <<holder, running, open>>  BY <1>3 DEF ReadPair
  <2> QED  BY <1>3, <2>1, PairRead DEF Shape, Others, MutexInv, ConnectionInv, OneConnection
<1>4. ASSUME NEW k \in Callers, Enter(k) PROVE MutexInv' /\ ConnectionInv'
  <2>1. /\ Others(k) /\ call[k].step = "waits" /\ holder = "none"
        /\ \/ /\ call'[k].step = "quiet"
              /\ UNCHANGED <<holder, running, open>>
           \/ call'[k].step = "quiet" /\ holder' = holder /\ Close
           \/ call'[k].step = "starts" /\ holder' = k /\ Close
    BY <1>4, EnterEffect DEF Shape
  <2>2. Close => running' = None /\ open' = 0  BY DEF Close, ConnectionInv, OneConnection
  <2>3. \A j \in Callers : call[j].step \notin {"starts", "names"}  BY <1>0, <2>1 DEF MutexInv
  <2>4. MutexInv'
    <3>1. \A j \in Callers \ {k} : call'[j].step \notin {"starts", "names"}
      BY <2>1, <2>3 DEF Others
    <3>2. CASE call'[k].step = "quiet" /\ holder' = "none"
      BY <1>0, <3>1, <3>2 DEF MutexInv
    <3>3. CASE call'[k].step = "starts" /\ holder' = k
      BY <1>0, <3>1, <3>3 DEF MutexInv
    <3> QED  BY <2>1, <3>2, <3>3
  <2>5. ConnectionInv'  BY <2>1, <2>2, <2>3 DEF Others, ConnectionInv, OneConnection
  <2> QED  BY <2>4, <2>5
<1>5. ASSUME NEW k \in Callers, NothingToStart(k) \/ Named(k) PROVE MutexInv' /\ ConnectionInv'
  <2>1. /\ Others(k) /\ call'[k].step = "quiet" /\ holder = k /\ holder' = "none"
        /\ UNCHANGED <<running, open>>
    BY <1>5, ReturnSteps, CallReturned DEF Shape
  <2>2. MutexInv'  BY <1>0, <2>1 DEF Others, MutexInv
  <2>3. ConnectionInv'  BY <2>1 DEF Others, ConnectionInv, OneConnection
  <2> QED  BY <2>2, <2>3
<1>6. ASSUME NEW k \in Callers, Started(k) PROVE MutexInv' /\ ConnectionInv'
  <2>1. /\ Others(k) /\ holder = k /\ call[k].step = "starts"
        /\ \/ call'[k].step = "quiet" /\ holder' = "none"
           \/ call'[k].step = "names" /\ holder' = holder
    BY <1>6, StartedEffect DEF Shape
  <2>2. open' = open + 1 /\ running' = keychain /\ keychain # None  BY <1>6 DEF Started
  <2>3. \A j \in Callers \ {k} : call[j].step \notin {"starts", "names"}
    BY <2>1 DEF MutexInv
  <2>4. MutexInv'  BY <1>0, <2>1, <2>3 DEF Others, MutexInv
  <2>5. running = None /\ open = 0  BY <2>1 DEF ConnectionInv, OneConnection
  <2>6. ConnectionInv'  BY <2>1, <2>2, <2>3, <2>5 DEF Others, ConnectionInv, OneConnection
  <2> QED  BY <2>4, <2>6
<1>7. ASSUME NEW k \in Callers, StartFails(k) PROVE MutexInv' /\ ConnectionInv'
  <2>1. holder = k /\ holder' = "none" /\ UNCHANGED <<running, open>>
    BY <1>7, FailEffect DEF Shape
  <2>2. \A j \in Callers : call'[j].step \notin {"starts", "names"}
    <3>1. \A j \in Callers \ {k} : call[j].step \notin {"starts", "names"}
      BY <2>1 DEF MutexInv
    <3>2. CASE Others(k) /\ call'[k].step = "quiet"
      BY <3>1, <3>2 DEF Others
    <3>3. ASSUME NEW c \in Chains, RetriesAs(k, c)
          PROVE  \A j \in Callers : call'[j].step \notin {"starts", "names"}
      BY <3>1, <3>3 DEF RetriesAs
    <3> QED  BY <1>7, <3>2, <3>3, FailEffect DEF Shape
  <2>3. MutexInv'  BY <1>0, <2>1, <2>2 DEF MutexInv
  <2>4. ConnectionInv'  BY <2>1, <2>2 DEF ConnectionInv, OneConnection
  <2> QED  BY <2>3, <2>4
<1>8. ASSUME NEW c \in Chains, Retry(c) PROVE MutexInv' /\ ConnectionInv'
  <2>1. UNCHANGED <<holder, running, open>>  BY <1>8 DEF Retry
  <2>2. c \in Callers  BY DEF Callers
  <2> QED  BY <1>8, <2>1, <2>2, RetryEffect DEF Shape, Others, MutexInv, ConnectionInv, OneConnection
<1> QED
  <2>1. CASE BotStep  BY <2>1, <1>3, <1>4, <1>5, <1>6, <1>7, <1>8 DEF BotStep
  <2> QED  BY <2>1, <1>1, <1>2 DEF Next

ConnInv == Shape /\ WatcherInv /\ MutexInv /\ ConnectionInv

\* The invariant on the mutex and the watcher, which every other proof here uses
\* (reloadDiscord.go:38, watchConfig.go).
THEOREM MutexHeld == Spec => []ConnInv
<1>1. Init => ConnInv
  <2> SUFFICES ASSUME Init PROVE ConnInv  OBVIOUS
  <2>1. \A k \in Callers : call[k].step \in {"quiet", "called"}
    BY DEF Init, BotInit, Called, Quiet
  <2>2. reload["daemon"] = Idle  BY DaemonReloader DEF Init, HostInit
  <2>3. holder = "none" /\ running = None /\ open = 0  BY DEF Init, BotInit
  <2>4. MutexInv  BY <2>1, <2>3, NoneCalls DEF MutexInv
  <2>5. ConnectionInv  BY <2>1, <2>3 DEF ConnectionInv, OneConnection
  <2> QED  BY <2>2, <2>4, <2>5, ShapeInit DEF ConnInv, Shape, WatcherInv
<1>2. ConnInv /\ [Next]_vars => ConnInv'
  BY ShapeNext, WatcherStep, ConnectionStep DEF ConnInv
<1> QED  BY <1>1, <1>2, PTL DEF Spec

\* The bot never has two connections, and the one it has is the one discordBot can close,
\* whichever reloads and retries overlap (reloadDiscord.go).
THEOREM OneConnectionOnly == Spec => []OneConnection
<1>1. ConnInv => OneConnection  BY DEF ConnInv, ConnectionInv
<1> QED  BY <1>1, MutexHeld, PTL

-----------------------------------------------------------------------------
(* The bot follows its setting.                                             *)

FollowInv == AttemptInv /\ GivenUpInv /\ RunsAsLast /\ LastIsCurrent

LEMMA AttemptStep ==
    ASSUME Shape, WatcherInv, MutexInv, AttemptInv, [Next]_vars
    PROVE  AttemptInv'
<1>0. /\ Chains \subseteq Callers /\ "watch" \in Callers \ Chains
  BY WatchCaller DEF Callers
<1>1. CASE EditStep \/ SaveStep \/ UNCHANGED vars
  BY <1>1 DEF EditStep, SaveStep, vars, botVars, AttemptInv
<1>2. CASE HostStep
  BY <1>0, <1>2, HostCalls DEF Shape, Others, AttemptInv
<1>3. ASSUME NEW k \in Callers, ReadPair(k) PROVE AttemptInv'
  BY <1>0, <1>3, PairRead DEF Shape, Others, AttemptInv
<1>4. ASSUME NEW k \in Callers, Enter(k) PROVE AttemptInv'
  <2>1. /\ Others(k) /\ call[k].step = "waits"
        /\ \/ call'[k].step = "quiet" /\ call'[k].attempt = 0
           \/ call'[k].step = "starts" /\ call'[k].attempt = call[k].attempt
    BY <1>4, EnterEffect DEF Shape
  <2> QED  BY <1>0, <2>1 DEF Others, AttemptInv
<1>5. ASSUME NEW k \in Callers, NothingToStart(k) \/ Named(k) PROVE AttemptInv'
  BY <1>0, <1>5, ReturnSteps, CallReturned DEF Shape, Others, AttemptInv
<1>6. ASSUME NEW k \in Callers, Started(k) PROVE AttemptInv'
  <2>1. /\ Others(k) /\ call[k].step = "starts"
        /\ call'[k].attempt \in {0, call[k].attempt}
        /\ call'[k].step = "quiet" \/ call'[k].attempt = call[k].attempt
    <3>1. CASE config.username = keychain
      BY <1>6, <3>1, CallReturned, StartedEffect DEF Started, Shape
    <3>2. CASE config.username # keychain
      <4>1. call' = [call EXCEPT ![k].step = "names"]  BY <1>6, <3>2 DEF Started
      <4>2. call'[k] = [step |-> "names", attempt |-> call[k].attempt,
                        enabled |-> call[k].enabled, token |-> call[k].token]
        BY <4>1, StepSet DEF Shape
      <4>3. call'[k].attempt = call[k].attempt  BY <4>2
      <4> QED  BY <1>6, <4>3, StartedEffect DEF Shape
    <3> QED  BY <3>1, <3>2
  <2> QED  BY <1>0, <2>1 DEF Others, AttemptInv
<1>7. ASSUME NEW k \in Callers, StartFails(k) PROVE AttemptInv'
  <2>1. call[k].attempt \in Nat /\ call[k].step = "starts"
    BY <1>7 DEF AttemptInv, StartFails
  <2>2. CASE Others(k) /\ call'[k].step = "quiet" /\ call'[k].attempt = 0
    BY <1>0, <2>2 DEF Others, AttemptInv
  <2>3. ASSUME NEW c \in Chains, RetriesAs(k, c) PROVE AttemptInv'
    <3>1. call'[c].attempt \in Nat /\ call'[c].attempt > 0  BY <2>1, <2>3 DEF RetriesAs
    <3>2. k # c => call'[k].step = "quiet" /\ call'[k].attempt = 0  BY <2>3 DEF RetriesAs
    <3>3. \A j \in Callers \ {k, c} : call'[j] = call[j]  BY <2>3 DEF RetriesAs
    <3> QED  BY <1>0, <3>1, <3>2, <3>3 DEF AttemptInv
  <2> QED  BY <1>7, <2>2, <2>3, FailEffect DEF Shape
<1>8. ASSUME NEW c \in Chains, Retry(c) PROVE AttemptInv'
  <2>1. Others(c) /\ call'[c].attempt = call[c].attempt /\ call[c].step = "sleeps"
    BY <1>8, RetryEffect DEF Shape
  <2> QED  BY <1>0, <2>1 DEF Others, AttemptInv
<1> QED
  <2>1. CASE BotStep  BY <2>1, <1>3, <1>4, <1>5, <1>6, <1>7, <1>8 DEF BotStep
  <2> QED  BY <2>1, <1>1, <1>2 DEF Next

\* A call that is not a chain's may see its pair again; a retry never gives up there.
LEMMA SeenIsFirst ==
    ASSUME AttemptInv, NEW k \in Callers, Seen(k), call[k].step = "waits"
    PROVE  k \notin Chains
BY DEF AttemptInv, Seen

LEMMA GivenUpStep ==
    ASSUME Shape, WatcherInv, MutexInv, ConnectionInv, GivenUpInv, [Next]_vars
    PROVE  GivenUpInv'
<1>0. "watch" \in Callers  BY WatchCaller
<1>1. CASE EditStep \/ SaveStep \/ UNCHANGED vars
  BY <1>1 DEF EditStep, SaveStep, vars, botVars, GivenUpInv, Starting
<1>2. CASE HostStep
  BY <1>0, <1>2, HostCalls DEF Shape, Others, GivenUpInv, Starting
<1>3. ASSUME NEW k \in Callers, ReadPair(k) PROVE GivenUpInv'
  <2>1. UNCHANGED <<running, givenUp>>  BY <1>3 DEF ReadPair
  <2> QED  BY <2>1, <1>3, PairRead DEF Shape, Others, GivenUpInv, Starting
<1>4. ASSUME NEW k \in Callers, Enter(k) PROVE GivenUpInv'
  <2>1. CASE call'[k].step = "quiet" /\ Others(k) /\ UNCHANGED <<running, givenUp>>
    BY <2>1 DEF Others, GivenUpInv, Starting
  <2>2. CASE givenUp' = FALSE  BY <2>2 DEF GivenUpInv
  <2> QED  BY <1>4, <2>1, <2>2, EnterEffect DEF Shape
<1>5. ASSUME NEW k \in Callers, NothingToStart(k) \/ Named(k) PROVE GivenUpInv'
  <2>1. /\ Others(k) /\ call'[k].step = "quiet" /\ UNCHANGED <<running, givenUp>>
    BY <1>5, ReturnSteps, CallReturned DEF Shape
  <2> QED  BY <2>1 DEF Others, GivenUpInv, Starting
<1>6. ASSUME NEW k \in Callers, Started(k) PROVE GivenUpInv'
  <2>1. ~givenUp  BY <1>6 DEF Started, GivenUpInv, Starting
  <2>2. givenUp' = givenUp  BY <1>6 DEF Started
  <2> QED  BY <2>1, <2>2 DEF GivenUpInv
<1>7. ASSUME NEW k \in Callers, StartFails(k) PROVE GivenUpInv'
  <2>1. call[k].step = "starts" /\ holder = k /\ running' = running
    BY <1>7 DEF StartFails
  <2>2. ~givenUp /\ running = None  BY <2>1 DEF GivenUpInv, Starting, ConnectionInv
  <2>3. CASE givenUp' = givenUp  BY <2>2, <2>3 DEF GivenUpInv
  <2>4. CASE Others(k) /\ call'[k].step = "quiet"
    <3>1. \A j \in Callers : call'[j].step # "starts"  BY <2>1, <2>4 DEF Others, MutexInv
    <3> QED  BY <2>1, <2>2, <3>1 DEF GivenUpInv, Starting
  <2> QED  BY <1>7, <2>3, <2>4, FailEffect DEF Shape
<1>8. ASSUME NEW c \in Chains, Retry(c) PROVE GivenUpInv'
  <2>1. UNCHANGED <<running, givenUp>>  BY <1>8 DEF Retry
  <2>2. Others(c) /\ call'[c].step = "called"  BY <1>8, RetryEffect DEF Shape
  <2> QED  BY <2>1, <2>2 DEF Others, GivenUpInv, Starting
<1> QED
  <2>1. CASE BotStep  BY <2>1, <1>3, <1>4, <1>5, <1>6, <1>7, <1>8 DEF BotStep
  <2> QED  BY <2>1, <1>1, <1>2 DEF Next

\* A step that moves one call between steps that neither start a bot nor wait for one
\* leaves both as they are.
LEMMA SameWaits ==
    ASSUME NEW k \in Callers, Others(k),
           call[k].step = "starts" => call'[k].step = "starts",
           k \in Chains /\ call[k].step \in {"sleeps", "called", "waits"} =>
               call'[k].step \in {"sleeps", "called", "waits"}
    PROVE  (Starting => Starting') /\ (Pending => Pending')
<1>1. Chains \subseteq Callers  BY DEF Callers
<1> QED  BY <1>1 DEF Others, Starting, Pending

LEMMA RunsStep ==
    ASSUME Shape, WatcherInv, MutexInv, ConnectionInv, AttemptInv, RunsAsLast, [Next]_vars
    PROVE  RunsAsLast'
<1>0. "watch" \in Callers /\ "watch" \notin Chains /\ Chains \subseteq Callers
  BY WatchCaller DEF Callers
<1>1. CASE EditStep \/ SaveStep \/ UNCHANGED vars
  BY <1>1 DEF EditStep, SaveStep, vars, botVars, RunsAsLast, Starting, Pending
<1>2. CASE HostStep
  <2>1. UNCHANGED <<running, last, late, givenUp>>  BY <1>2, HostCalls DEF Shape
  <2>2. CASE call' = call  BY <2>1, <2>2 DEF RunsAsLast, Starting, Pending
  <2>3. CASE Install("daemon") /\ Others("watch") /\ call'["watch"].step = "called"
    <3>1. call["watch"].step = "quiet"  BY <2>3 DEF WatcherInv, Install, Idle
    <3>2. (Starting => Starting') /\ (Pending => Pending')
      BY <1>0, <2>3, <3>1, SameWaits
    <3> QED  BY <2>1, <3>2 DEF RunsAsLast
  <2> QED  BY <1>2, <2>2, <2>3, HostCalls DEF Shape
<1>3. ASSUME NEW k \in Callers, ReadPair(k) PROVE RunsAsLast'
  <2>1. UNCHANGED <<running, last, late, givenUp>>  BY <1>3 DEF ReadPair
  <2>2. Others(k) /\ call[k].step = "called" /\ call'[k].step = "waits"
    BY <1>3, PairRead DEF Shape
  <2>3. (Starting => Starting') /\ (Pending => Pending')  BY <2>2, SameWaits
  <2> QED  BY <2>1, <2>3 DEF RunsAsLast
<1>4. ASSUME NEW k \in Callers, Enter(k) PROVE RunsAsLast'
  <2>1. CASE /\ Seen(k) /\ call'[k].step = "quiet" /\ Others(k) /\ call[k].step = "waits"
             /\ UNCHANGED <<running, last, late, givenUp>>
    <3>1. k \notin Chains  BY <2>1, SeenIsFirst
    <3>2. (Starting => Starting') /\ (Pending => Pending')  BY <2>1, <3>1, SameWaits
    <3> QED  BY <2>1, <3>2 DEF RunsAsLast
  <2>2. CASE (~call[k].enabled \/ call[k].token = None) /\ last' = Pair(k) /\ Close
    <3>1. running' = None  BY <2>2 DEF Close
    <3>2. ~last'.enabled \/ last'.token = None  BY <2>2 DEF Pair
    <3> QED  BY <3>1, <3>2 DEF RunsAsLast
  <2>3. CASE call'[k].step = "starts"  BY <2>3 DEF RunsAsLast, Starting
  <2> QED  BY <1>4, <2>1, <2>2, <2>3, EnterEffect DEF Shape
<1>5. ASSUME NEW k \in Callers, NothingToStart(k) PROVE RunsAsLast'
  <2>1. SUFFICES ASSUME ~late' PROVE running' = IF last'.enabled THEN last'.token ELSE None
    BY DEF RunsAsLast
  <2>2. /\ last' = Pair(k) /\ Pair(k) = Current /\ running' = running
        /\ ~config.enabled \/ keychain = None
        /\ call[k].step = "starts"
    BY <1>5, <2>1 DEF NothingToStart
  <2>3. running = None  BY <2>2 DEF ConnectionInv
  <2>4. last'.enabled = config.enabled /\ last'.token = keychain  BY <2>2 DEF Current
  <2> QED  BY <2>2, <2>3, <2>4
<1>6. ASSUME NEW k \in Callers, Started(k) PROVE RunsAsLast'
  <2>1. SUFFICES ASSUME ~late' PROVE running' = IF last'.enabled THEN last'.token ELSE None
    BY DEF RunsAsLast
  <2>2. /\ last' = Pair(k) /\ Pair(k) = Current /\ running' = keychain /\ config.enabled
    BY <1>6, <2>1 DEF Started
  <2>3. last'.enabled = config.enabled /\ last'.token = keychain  BY <2>2 DEF Current
  <2> QED  BY <2>2, <2>3
<1>7. ASSUME NEW k \in Callers, Named(k) PROVE RunsAsLast'
  <2>1. /\ Others(k) /\ call[k].step = "names" /\ call'[k].step = "quiet"
        /\ UNCHANGED <<running, last, late, givenUp>>
    BY <1>7, CallReturned DEF Named, Shape
  <2>2. (Starting => Starting') /\ (Pending => Pending')  BY <2>1, SameWaits
  <2> QED  BY <2>1, <2>2 DEF RunsAsLast
<1>8. ASSUME NEW k \in Callers, StartFails(k) PROVE RunsAsLast'
  <2>1. CASE givenUp' = TRUE  BY <2>1 DEF RunsAsLast
  <2>2. CASE \E c \in Chains : RetriesAs(k, c)  BY <2>2 DEF RetriesAs, RunsAsLast, Pending
  <2> QED  BY <1>8, <2>1, <2>2, FailEffect DEF Shape
<1>9. ASSUME NEW c \in Chains, Retry(c) PROVE RunsAsLast'
  BY <1>9, RetryEffect DEF Shape, RunsAsLast, Pending
<1> QED
  <2>1. CASE BotStep  BY <2>1, <1>3, <1>4, <1>5, <1>6, <1>7, <1>8, <1>9 DEF BotStep
  <2> QED  BY <2>1, <1>1, <1>2 DEF Next

LEMMA LastStep ==
    ASSUME Shape, WatcherInv, MutexInv, ConnectionInv, AttemptInv, LastIsCurrent, [Next]_vars
    PROVE  LastIsCurrent'
<1>0. "watch" \in Callers /\ "watch" \notin Chains /\ "daemon" \in Reloaders
      /\ "daemon" \in Processes /\ "daemon" \notin Writers /\ Chains \subseteq Callers
  BY WatchCaller, DaemonReloader DEF Callers
<1>1. CASE EditStep
  <2>1. /\ Edit /\ UNCHANGED <<hostVars, botVars>>  BY <1>1 DEF EditStep
  <2>2. config' = config  BY <2>1, EditHolds DEF Shape
  <2>3. CASE \E w \in Writers : Edits(w)'  BY <2>3 DEF LastIsCurrent, Coming
  <2>4. CASE UNCHANGED <<keychain, held>>
    BY <2>1, <2>2, <2>4 DEF hostVars, botVars, LastIsCurrent, Coming, Edits, Starting, Pending,
                            Current, Pair
  <2> QED  BY <2>1, <2>3, <2>4, EditHolds DEF Shape
<1>2. CASE SaveStep
  <2>1. PICK w \in Writers : Saved(w)  BY <1>2 DEF SaveStep
  <2>2. events'["daemon"] > 0  BY <1>0, <2>1 DEF Saved, Shape, HostShape
  <2> QED  BY <2>2 DEF LastIsCurrent, Coming
<1>3. CASE HostStep
  <2>0. UNCHANGED <<last, late, givenUp, config, keychain, held>>
    BY <1>3, HostCalls DEF Shape, HostStep, configVars
  <2>1. ASSUME NEW r \in Reloaders, ReadList(r), UNCHANGED botVars PROVE LastIsCurrent'
    <3>1. Due # Idle /\ Idle.step = "idle"  BY DEF Due, Idle
    <3>2. r # "daemon"  BY <2>1, <3>1 DEF ReadList, WatcherInv
    <3>3. reload'["daemon"] = reload["daemon"] /\ events' = events
      BY <1>0, <2>1, <3>2 DEF ReadList, Shape, HostShape
    <3> QED  BY <2>0, <2>1, <3>3 DEF botVars, LastIsCurrent, Coming, Edits, Starting, Pending,
                                     Current, Pair
  <2>2. CASE call'["watch"].step = "called"
    BY <1>0, <2>2 DEF LastIsCurrent, Coming
  <2>3. ASSUME NEW r \in Reloaders \ {"daemon"}, Install(r), UNCHANGED botVars
        PROVE  LastIsCurrent'
    <3>1. reload'["daemon"] = reload["daemon"] /\ events' = events
      BY <1>0, <2>3 DEF Install, Shape, HostShape
    <3> QED  BY <2>0, <2>3, <3>1 DEF botVars, LastIsCurrent, Coming, Edits, Starting, Pending,
                                     Current, Pair
  <2>4. ASSUME NEW p \in Processes, Watch(p, Busy(p)), UNCHANGED botVars PROVE LastIsCurrent'
    <3>1. CASE p = "daemon"
      <4>1. reload'["daemon"] = [step |-> "built", list |-> config.models]
        BY <1>0, <2>4, <3>1 DEF Watch, Shape, HostShape
      <4>2. reload'["daemon"].step # Idle.step  BY <4>1 DEF Idle
      <4> QED  BY <4>2 DEF LastIsCurrent, Coming
    <3>2. CASE p # "daemon"
      <4>1. reload'["daemon"] = reload["daemon"] /\ events'["daemon"] = events["daemon"]
        BY <1>0, <2>4, <3>2 DEF Watch, Shape, HostShape
      <4> QED  BY <2>0, <2>4, <4>1 DEF botVars, LastIsCurrent, Coming, Edits, Starting, Pending,
                                       Current, Pair
    <3> QED  BY <3>1, <3>2
  <2>5. ASSUME NEW p \in Processes, Drop(p, Busy(p)), call' = call,
               missed' = (missed \/ p = "daemon")
        PROVE  LastIsCurrent'
    <3>1. CASE p = "daemon"  BY <2>5, <3>1 DEF LastIsCurrent, Coming
    <3>2. CASE p # "daemon"
      <4>1. reload' = reload /\ events'["daemon"] = events["daemon"]
        BY <1>0, <2>5, <3>2 DEF Drop, Shape, HostShape
      <4>2. missed => missed'  BY <2>5
      <4>3. Coming => Coming'  BY <2>0, <2>5, <4>1, <4>2 DEF Coming, Edits
      <4>4. Current' = Current /\ last' = last  BY <2>0 DEF Current
      <4>5. (Starting => Starting') /\ (Pending => Pending')  BY <2>5 DEF Starting, Pending
      <4>6. \A k \in Callers : call[k].step = "waits" /\ Pair(k) = Current
                                  => call'[k].step = "waits" /\ Pair(k)' = Current'
        BY <2>5, <4>4 DEF Pair
      <4>7. late' = late /\ givenUp' = givenUp  BY <2>0
      <4> QED  BY <4>3, <4>4, <4>5, <4>6, <4>7 DEF LastIsCurrent
    <3> QED  BY <3>1, <3>2
  <2>6. ASSUME NEW r \in Reloaders, Install(r), r = "daemon",
               call' = [call EXCEPT !["watch"].step = "called"]
        PROVE  call'["watch"].step = "called"
    BY <2>6, WatchAsks DEF Shape
  <2> QED  BY <1>3, <2>1, <2>2, <2>3, <2>4, <2>5, <2>6 DEF HostStep
<1>4. ASSUME NEW k \in Callers, ReadPair(k), UNCHANGED configVars PROVE LastIsCurrent'
  <2>1. call'[k].step = "waits" /\ call'[k].enabled = config.enabled /\ call'[k].token = keychain
    BY <1>4, PairRead DEF Shape
  <2>2. Pair(k)' = Current'  BY <1>4, <2>1 DEF Pair, Current, configVars
  <2> QED  BY <2>1, <2>2 DEF LastIsCurrent
<1>5. ASSUME NEW k \in Callers, Enter(k), UNCHANGED <<configVars, hostVars>> PROVE LastIsCurrent'
  <2>1. CASE /\ Seen(k) /\ call'[k].step = "quiet" /\ Others(k) /\ call[k].step = "waits"
             /\ UNCHANGED <<running, last, late, givenUp>>
    <3>1. k \notin Chains  BY <2>1, SeenIsFirst
    <3>2. (Starting => Starting') /\ (Pending => Pending')  BY <2>1, <3>1, SameWaits
    <3>3. missed' = missed /\ reload' = reload /\ events' = events /\ held' = held
          /\ Current' = Current
      BY <1>5 DEF Enter, hostVars, configVars, Current
    <3>4. Coming => Coming'
      BY <2>1, <3>3 DEF Coming, Edits, Others
    <3>5. \A j \in Callers \ {k} : call[j].step = "waits" /\ Pair(j) = Current
                                      => call'[j].step = "waits" /\ Pair(j)' = Current'
      BY <2>1, <3>3 DEF Others, Pair
    <3>6. Pair(k) = last  BY <2>1 DEF Seen
    <3> QED  BY <2>1, <3>2, <3>3, <3>4, <3>5, <3>6 DEF LastIsCurrent
  <2>2. CASE last' = Pair(k) /\ late' = (Pair(k) # Current)
    <3>1. Current' = Current  BY <1>5 DEF configVars, Current
    <3> QED  BY <2>2, <3>1 DEF LastIsCurrent
  <2>3. CASE call'[k].step = "starts"  BY <2>3 DEF LastIsCurrent, Starting
  <2> QED  BY <1>5, <2>1, <2>2, <2>3, EnterEffect DEF Shape
<1>6. ASSUME NEW k \in Callers, NothingToStart(k) \/ Started(k) PROVE LastIsCurrent'
  <2>1. last' = Pair(k) /\ late' = (late \/ Pair(k) # Current)
    BY <1>6 DEF NothingToStart, Started
  <2>2. UNCHANGED <<config, keychain>>  BY <1>6, StartedEffect, ReturnSteps DEF Shape
  <2>3. Current' = Current  BY <2>2 DEF Current
  <2> QED  BY <2>1, <2>3 DEF LastIsCurrent
<1>7. ASSUME NEW k \in Callers, Named(k), UNCHANGED hostVars PROVE LastIsCurrent'
  <2>1. /\ Others(k) /\ call[k].step = "names" /\ call'[k].step = "quiet"
        /\ UNCHANGED <<running, last, late, givenUp>>
    BY <1>7, CallReturned DEF Named, Shape
  <2>2. (Starting => Starting') /\ (Pending => Pending')  BY <2>1, SameWaits
  <2>3. missed' = missed /\ reload' = reload /\ events' = events /\ held' = held
        /\ Current' = Current
    BY <1>7 DEF Named, hostVars, configVars, Current
  <2>4. Coming => Coming'  BY <2>1, <2>3 DEF Coming, Edits, Others
  <2>5. \A j \in Callers : call[j].step = "waits" /\ Pair(j) = Current
                              => call'[j].step = "waits" /\ Pair(j)' = Current'
    BY <2>1, <2>3 DEF Others, Pair
  <2> QED  BY <2>1, <2>2, <2>3, <2>4, <2>5 DEF LastIsCurrent
<1>8. ASSUME NEW k \in Callers, StartFails(k) PROVE LastIsCurrent'
  <2>1. CASE givenUp' = TRUE  BY <2>1 DEF LastIsCurrent
  <2>2. CASE \E c \in Chains : RetriesAs(k, c)  BY <2>2 DEF RetriesAs, LastIsCurrent, Pending
  <2> QED  BY <1>8, <2>1, <2>2, FailEffect DEF Shape
<1>9. ASSUME NEW c \in Chains, Retry(c) PROVE LastIsCurrent'
  BY <1>9, RetryEffect DEF Shape, LastIsCurrent, Pending
<1>10. CASE UNCHANGED vars
  BY <1>10 DEF vars, configVars, hostVars, botVars, LastIsCurrent, Coming, Edits, Starting, Pending,
               Current, Pair
<1> QED
  <2>1. CASE BotStep  BY <2>1, <1>4, <1>5, <1>6, <1>7, <1>8, <1>9 DEF BotStep
  <2> QED  BY <2>1, <1>1, <1>2, <1>3, <1>10 DEF Next

\* The setting is carried out once the daemon has seen every save and no reload is on its way:
\* off means no bot, on means a bot with the stored token, but for a start that failed until the
\* retries were used up, an event that fell into the watcher's window, and a reload that went by
\* a pair changed meanwhile (reloadDiscord.go, watchConfig.go).
THEOREM SettingFollowed == Spec => []BotFollows
<1>1. Init => FollowInv
  <2> SUFFICES ASSUME Init PROVE FollowInv  OBVIOUS
  <2>1. \A k \in Callers : call[k] = IF k = "boot" /\ "channel" \in mix THEN Called ELSE Quiet
    BY DEF Init, BotInit
  <2>2. \A k \in Callers : call[k].step \in {"quiet", "called"} /\ call[k].attempt = 0
    BY <2>1 DEF Called, Quiet
  <2>3. \A c \in Chains : call[c].step = "quiet"
    <3> TAKE c \in Chains
    <3>1. c \in Callers /\ c # "boot"  BY WatchCaller DEF Callers
    <3>2. call[c] = Quiet  BY <2>1, <3>1
    <3> QED  BY <3>2 DEF Quiet
  <2>4. /\ running = None /\ last = [enabled |-> FALSE, token |-> None]
        /\ givenUp = FALSE
    BY DEF Init, BotInit
  <2>5. AttemptInv  BY <2>2, <2>3 DEF AttemptInv
  <2>6. GivenUpInv /\ RunsAsLast  BY <2>4 DEF GivenUpInv, RunsAsLast
  <2>7. LastIsCurrent
    <3>1. CASE "channel" \in mix
      <4>1. call["boot"].step = "called" /\ "boot" \in Callers  BY <2>1, <3>1 DEF Called, Callers
      <4> QED  BY <4>1 DEF LastIsCurrent, Coming
    <3>2. CASE "channel" \notin mix
      <4>1. ~config.enabled  BY <3>2 DEF Init, ConfigInit
      <4>2. keychain = None /\ config.enabled \in BOOLEAN  BY <4>1 DEF Init, ConfigInit
      <4> QED  BY <2>4, <4>1, <4>2 DEF LastIsCurrent, Current
    <3> QED  BY <3>1, <3>2
  <2> QED  BY <2>5, <2>6, <2>7 DEF FollowInv
<1>2. ConnInv /\ FollowInv /\ [Next]_vars => FollowInv'
  BY AttemptStep, GivenUpStep, RunsStep, LastStep DEF ConnInv, FollowInv
<1>3. FollowInv => BotFollows
  <2> SUFFICES ASSUME FollowInv,
                      events["daemon"] = 0, ~missed, ~late, reload["daemon"] = Idle,
                      \A w \in Writers : ~Edits(w), \A k \in Callers : call[k] = Quiet
               PROVE  running = IF config.enabled /\ ~givenUp THEN keychain ELSE None
    BY DEF BotFollows
  <2>1. \A k \in Callers : call[k].step = "quiet"  BY DEF Quiet
  <2>2. ~Starting /\ ~Pending
    <3>1. Chains \subseteq Callers  BY DEF Callers
    <3> QED  BY <2>1, <3>1 DEF Starting, Pending
  <2>5. ~Coming
    <3>1. ~(events["daemon"] > 0)  OBVIOUS
    <3>2. \A k \in Callers : call[k].step # "called"  BY <2>1
    <3> QED  BY <3>1, <3>2 DEF Coming
  <2>3. CASE givenUp  BY <2>3 DEF FollowInv, GivenUpInv
  <2>4. CASE ~givenUp
    <3>1. last = Current  BY <2>1, <2>2, <2>5, <2>4 DEF FollowInv, LastIsCurrent
    <3>2. last.enabled = config.enabled /\ last.token = keychain  BY <3>1 DEF Current
    <3> QED  BY <2>2, <2>4, <3>2 DEF FollowInv, RunsAsLast
  <2> QED  BY <2>3, <2>4
<1> QED  BY <1>1, <1>2, <1>3, MutexHeld, PTL DEF Spec

-----------------------------------------------------------------------------
(* Each process comes to serve the models on file.                          *)

LEMMA ListStep ==
    ASSUME Shape, ListInv, ServedCurrent, [Next]_vars
    PROVE  ListInv' /\ ServedCurrent'
<1>0. \A r \in Reloaders : Home(r) \in Processes  BY HomeProcess
<1>1. CASE EditStep
  <2>1. UNCHANGED hostVars  BY <1>1 DEF EditStep
  <2>2. config' = config  BY <1>1, EditHolds DEF EditStep, Shape
  <2> QED  BY <2>1, <2>2 DEF hostVars, ListInv, ServedCurrent, Listed
<1>2. CASE SaveStep
  <2>1. PICK w \in Writers : Saved(w)  BY <1>2 DEF SaveStep
  <2>2. \A p \in Processes : events'[p] > 0  BY <2>1 DEF Saved, Shape, HostShape
  <2> QED  BY <1>0, <2>2 DEF ListInv, ServedCurrent
<1>3. CASE HostStep
  <2>0. config' = config  BY <1>3 DEF HostStep, configVars
  <2>1. ASSUME NEW r \in Reloaders, NEW p \in Processes, p = Home(r),
               reload' = [reload EXCEPT ![r] = [step |-> "built", list |-> config.models]],
               crossed' = [crossed EXCEPT ![p] = Running(p) # {}],
               dropped' = [dropped EXCEPT ![p] = FALSE],
               \A q \in Processes \ {p} : events'[q] = events[q],
               host' = host
        PROVE  ListInv' /\ ServedCurrent'
    <3>1. /\ reload'[r] = [step |-> "built", list |-> config.models]
          /\ \A q \in Reloaders \ {r} : reload'[q] = reload[q]
      BY <2>1 DEF Shape, HostShape
    <3>2. reload'[r].step # Idle.step /\ reload'[r].list = config.models
      BY <3>1 DEF Idle
    <3>3. (\E q \in Reloaders : Home(q) = p /\ reload[q].step = "built") => crossed'[p]
      BY <2>1 DEF Running, Shape, HostShape
    <3>4. \A q \in Processes \ {p} : dropped'[q] = dropped[q] /\ crossed'[q] = crossed[q]
      BY <2>1 DEF Shape, HostShape
    <3>5. ListInv'
      <4> SUFFICES ASSUME NEW q \in Reloaders, reload'[q].step = "built"
                   PROVE  \/ ToSet(reload'[q].list) = Listed(config)'
                          \/ events'[Home(q)] > 0 \/ dropped'[Home(q)] \/ crossed'[Home(q)]
        BY DEF ListInv
      <4>1. CASE q = r  BY <2>0, <3>2, <4>1 DEF Listed
      <4>2. CASE q # r /\ Home(q) = p  BY <3>1, <3>3, <4>2
      <4>3. CASE q # r /\ Home(q) # p
        <5>1. Home(q) \in Processes \ {p} /\ reload'[q] = reload[q]  BY <1>0, <3>1, <4>3
        <5>2. /\ events'[Home(q)] = events[Home(q)] /\ dropped'[Home(q)] = dropped[Home(q)]
              /\ crossed'[Home(q)] = crossed[Home(q)]
          BY <2>1, <3>4, <5>1
        <5> QED  BY <2>0, <5>1, <5>2 DEF ListInv, Listed
      <4> QED  BY <4>1, <4>2, <4>3
    <3>6. ServedCurrent'
      <4> SUFFICES ASSUME NEW q \in Processes
                   PROVE  \/ events'[q] > 0 \/ dropped'[q] \/ crossed'[q]
                          \/ \E s \in Reloaders : Home(s) = q /\ reload'[s] # Idle
                          \/ host'[q].models = Listed(config)'
        BY DEF ServedCurrent, Home
      <4>1. CASE q = p  BY <2>1, <3>2, <4>1
      <4>2. CASE q # p
        <5>1. /\ events'[q] = events[q] /\ dropped'[q] = dropped[q] /\ crossed'[q] = crossed[q]
          BY <2>1, <3>4, <4>2
        <5>2. \A s \in Reloaders : Home(s) = q => reload'[s] = reload[s]  BY <2>1, <3>1, <4>2
        <5> QED  BY <2>0, <2>1, <5>1, <5>2 DEF ServedCurrent, Listed
      <4> QED  BY <4>1, <4>2
    <3> QED  BY <3>5, <3>6
  <2>2. ASSUME NEW r \in Reloaders, ReadList(r) PROVE ListInv' /\ ServedCurrent'
    BY <1>0, <2>1, <2>2 DEF ReadList
  <2>3. ASSUME NEW p \in Processes, Watch(p, Busy(p)) PROVE ListInv' /\ ServedCurrent'
    <3>1. p \in Reloaders /\ Home(p) = p  BY DEF Reloaders, Home
    <3>2. \A q \in Processes \ {p} : events'[q] = events[q]
      BY <2>3 DEF Watch, Shape, HostShape
    <3> QED  BY <2>1, <2>3, <3>1, <3>2 DEF Watch
  <2>4. ASSUME NEW r \in Reloaders, Install(r) PROVE ListInv' /\ ServedCurrent'
    <3>1. /\ reload'[r] = Idle
          /\ \A q \in Reloaders \ {r} : reload'[q] = reload[q]
          /\ UNCHANGED <<events, dropped, crossed>>
          /\ host'[Home(r)] = Hosted(Home(r), reload[r].list, config)
          /\ \A p \in Processes \ {Home(r)} : host'[p] = host[p]
      BY <1>0, <2>4 DEF Install, Shape, HostShape
    <3>2. host'[Home(r)].models = ToSet(reload[r].list)  BY <3>1 DEF Hosted
    <3>3. ListInv'
      <4>1. Idle.step # "built"  BY DEF Idle
      <4> QED  BY <2>0, <3>1, <4>1 DEF ListInv, Listed
    <3>4. ServedCurrent'
      <4> SUFFICES ASSUME NEW q \in Processes
                   PROVE  \/ events[q] > 0 \/ dropped[q] \/ crossed[q]
                          \/ \E s \in Reloaders : Home(s) = q /\ reload'[s] # Idle
                          \/ host'[q].models = Listed(config)
        BY <2>0, <3>1 DEF ServedCurrent, Home, Listed
      <4>1. CASE q = Home(r)
        <5>1. \/ ToSet(reload[r].list) = Listed(config)
              \/ events[Home(r)] > 0 \/ dropped[Home(r)] \/ crossed[Home(r)]
          BY <2>4 DEF ListInv, Install
        <5> QED  BY <3>2, <4>1, <5>1
      <4>2. CASE q # Home(r)
        <5>1. host'[q] = host[q]  BY <3>1, <4>2
        <5>2. \A s \in Reloaders : Home(s) = q => reload'[s] = reload[s]  BY <3>1, <4>2
        <5> QED  BY <5>1, <5>2 DEF ServedCurrent
      <4> QED  BY <4>1, <4>2
    <3> QED  BY <3>3, <3>4
  <2>5. ASSUME NEW p \in Processes, Drop(p, Busy(p)) PROVE ListInv' /\ ServedCurrent'
    <3>1. /\ UNCHANGED <<host, reload, crossed>> /\ dropped'[p]
          /\ \A q \in Processes \ {p} : events'[q] = events[q] /\ dropped'[q] = dropped[q]
      BY <2>5 DEF Drop, Shape, HostShape
    <3>2. ListInv'  BY <1>0, <2>0, <3>1 DEF ListInv, Listed
    <3>3. ServedCurrent'  BY <2>0, <3>1 DEF ServedCurrent, Listed
    <3> QED  BY <3>2, <3>3
  <2> QED  BY <1>3, <2>2, <2>3, <2>4, <2>5 DEF HostStep
<1>4. CASE BotStep
  <2>1. UNCHANGED hostVars  BY <1>4 DEF BotStep
  <2>2. config' = config
    BY <1>4, StartedEffect DEF BotStep, Shape, configVars, NothingToStart, Named, StartFails
  <2> QED  BY <2>1, <2>2 DEF hostVars, ListInv, ServedCurrent, Listed
<1>5. CASE UNCHANGED vars
  BY <1>5 DEF vars, configVars, hostVars, ListInv, ServedCurrent, Listed
<1> QED  BY <1>1, <1>2, <1>3, <1>4, <1>5 DEF Next

\* A process serves the models on file once it has seen every save and no reload of it is under
\* way: only an event dropped by the watcher's window, or two reloads that overlapped, may leave
\* it with an older list (watchConfig.go, host.go).
THEOREM FileServed == Spec => []ServedCurrent
<1>1. Init => ListInv /\ ServedCurrent
  <2> SUFFICES ASSUME Init PROVE ListInv /\ ServedCurrent  OBVIOUS
  <2>1. \A r \in Reloaders : reload[r] = Idle  BY DEF Init, HostInit
  <2>2. ListInv  BY <2>1 DEF ListInv, Idle
  <2>3. \A p \in Processes : host[p] = Hosted(p, config.models, config)
    BY DEF Init, HostInit
  <2>4. ASSUME NEW p \in Processes PROVE host[p].models = Listed(config)
    <3>1. host[p] = Hosted(p, config.models, config)  BY <2>3
    <3>2. Hosted(p, config.models, config).models = ToSet(config.models)  BY DEF Hosted
    <3> QED  BY <3>1, <3>2 DEF Listed
  <2> QED  BY <2>2, <2>4 DEF ServedCurrent
<1>2. ConnInv /\ ListInv /\ ServedCurrent /\ [Next]_vars => ListInv' /\ ServedCurrent'
  BY ListStep DEF ConnInv
<1> QED  BY <1>1, <1>2, MutexHeld, PTL DEF Spec

-----------------------------------------------------------------------------
(* Lists of models without repetition.                                      *)

Names(s) == s \in Seq(Models) /\ IsInjective(s)

LEMMA NamesParts ==
    ASSUME NEW s, Names(s)
    PROVE  /\ Len(s) \in Nat /\ DOMAIN s = 1..Len(s) /\ \A i \in DOMAIN s : s[i] \in Models
           /\ \A i, j \in DOMAIN s : s[i] = s[j] => i = j
           /\ ToSet(s) \subseteq Models /\ IsFiniteSet(ToSet(s))
<1>1. s \in Seq(Models)  BY DEF Names
<1>2. Len(s) \in Nat /\ DOMAIN s = 1..Len(s) /\ \A i \in DOMAIN s : s[i] \in Models  BY <1>1
<1>3. \A i, j \in DOMAIN s : s[i] = s[j] => i = j  BY DEF Names, IsInjective
<1>4. ToSet(s) \subseteq Models  BY <1>2 DEF ToSet
<1>5. IsFiniteSet(ToSet(s))  BY <1>4, FS_Subset, ConfigAssumption
<1> QED  BY <1>2, <1>3, <1>4, <1>5

LEMMA AmongNames ==
    ASSUME NEW s, Names(s), NEW S
    PROVE  Names(Among(s, S)) /\ ToSet(Among(s, S)) = ToSet(s) \cap S
<1> DEFINE P == {i \in DOMAIN s : s[i] \in S}
           t == Pick(s, P)
<1>1. Among(s, S) = t  BY DEF Among
<1>2. s \in Seq(Models) /\ P \subseteq DOMAIN s  BY DEF Names
<1>20. \A i \in DOMAIN s : i \in P <=> s[i] \in S  OBVIOUS
<1> HIDE DEF P
<1>3. /\ t \in Seq(Models) /\ Len(t) = Cardinality(P) /\ Cardinality(P) \in Nat
      /\ \A k \in 1..Cardinality(P) : Nth(P, k) \in P /\ Rank(P, Nth(P, k)) = k /\ t[k] = s[Nth(P, k)]
      /\ \A i \in P : Rank(P, i) \in 1..Cardinality(P) /\ t[Rank(P, i)] = s[i]
  BY <1>2, PickProperties
<1> HIDE DEF t
<1>4. DOMAIN t = 1..Cardinality(P)  BY <1>3
<1>5. IsInjective(t)
  <2> SUFFICES ASSUME NEW k \in 1..Cardinality(P), NEW l \in 1..Cardinality(P), t[k] = t[l]
               PROVE  k = l
    BY <1>4 DEF IsInjective
  <2>1. s[Nth(P, k)] = s[Nth(P, l)]  BY <1>3
  <2>2. Nth(P, k) = Nth(P, l)  BY <1>2, <1>3, <2>1, NamesParts
  <2> QED  BY <1>3, <2>2
<1>6. ToSet(t) = ToSet(s) \cap S
  <2>1. ASSUME NEW k \in DOMAIN t PROVE t[k] \in ToSet(s) \cap S
    BY <1>2, <1>20, <1>3, <1>4 DEF ToSet
  <2>2. ASSUME NEW i \in DOMAIN s, s[i] \in S PROVE s[i] \in ToSet(t)
    BY <1>20, <1>3, <1>4, <2>2 DEF ToSet
  <2> QED  BY <2>1, <2>2 DEF ToSet
<1> QED  BY <1>1, <1>3, <1>5, <1>6 DEF Names

LEMMA JoinedNames ==
    ASSUME NEW a, NEW b, Names(a), Names(b), ToSet(a) \cap ToSet(b) = {}
    PROVE  Names(a \o b) /\ ToSet(a \o b) = ToSet(a) \cup ToSet(b)
<1> DEFINE c == a \o b
           m == Len(a)
           n == Len(b)
<1>1. a \in Seq(Models) /\ b \in Seq(Models)  BY DEF Names
<1>2. m \in Nat /\ n \in Nat /\ DOMAIN a = 1..m /\ DOMAIN b = 1..n  BY <1>1
<1>3. c \in Seq(Models) /\ DOMAIN c = 1..(m + n)
      /\ \A i \in 1..(m + n) : c[i] = IF i <= m THEN a[i] ELSE b[i - m]
  BY <1>1
<1>4. \A i \in DOMAIN a : a[i] \in ToSet(a)  BY DEF ToSet
<1>5. \A i \in DOMAIN b : b[i] \in ToSet(b)  BY DEF ToSet
<1> HIDE DEF c, m, n
<1>6. IsInjective(c)
  <2> SUFFICES ASSUME NEW i \in 1..(m + n), NEW j \in 1..(m + n), c[i] = c[j] PROVE i = j
    BY <1>3 DEF IsInjective
  <2>1. CASE i <= m /\ j <= m
    <3>1. i \in DOMAIN a /\ j \in DOMAIN a /\ a[i] = a[j]  BY <1>2, <1>3, <2>1
    <3> QED  BY <3>1, NamesParts
  <2>2. CASE ~(i <= m) /\ ~(j <= m)
    <3>1. i - m \in DOMAIN b /\ j - m \in DOMAIN b /\ b[i - m] = b[j - m]  BY <1>2, <1>3, <2>2
    <3>2. i - m = j - m  BY <3>1, NamesParts
    <3> QED  BY <1>2, <3>2
  <2>3. CASE i <= m /\ ~(j <= m)
    <3>1. i \in DOMAIN a /\ j - m \in DOMAIN b /\ a[i] = b[j - m]  BY <1>2, <1>3, <2>3
    <3> QED  BY <1>4, <1>5, <3>1
  <2>4. CASE ~(i <= m) /\ j <= m
    <3>1. j \in DOMAIN a /\ i - m \in DOMAIN b /\ a[j] = b[i - m]  BY <1>2, <1>3, <2>4
    <3> QED  BY <1>4, <1>5, <3>1
  <2> QED  BY <2>1, <2>2, <2>3, <2>4
<1>7. ToSet(c) = ToSet(a) \cup ToSet(b)
  <2>1. ASSUME NEW i \in 1..(m + n) PROVE c[i] \in ToSet(a) \cup ToSet(b)
    <3>1. CASE i <= m  BY <1>2, <1>3, <1>4, <3>1
    <3>2. CASE ~(i <= m)
      <4>1. i - m \in DOMAIN b  BY <1>2, <3>2
      <4> QED  BY <1>3, <1>5, <3>2, <4>1
    <3> QED  BY <3>1, <3>2
  <2>2. ASSUME NEW i \in DOMAIN a PROVE a[i] \in ToSet(c)
    <3>1. i \in DOMAIN c /\ c[i] = a[i]  BY <1>2, <1>3
    <3> QED  BY <3>1 DEF ToSet
  <2>3. ASSUME NEW i \in DOMAIN b PROVE b[i] \in ToSet(c)
    <3> DEFINE j == m + i
    <3>1. j \in DOMAIN c /\ ~(j <= m) /\ j - m = i  BY <1>2, <1>3
    <3> HIDE DEF j
    <3>2. c[j] = b[i]  BY <1>3, <3>1
    <3> QED  BY <3>1, <3>2 DEF ToSet
  <2> QED  BY <1>3, <2>1, <2>2, <2>3 DEF ToSet
<1> QED  BY <1>3, <1>6, <1>7 DEF c, Names

LEMMA OrderNames ==
    ASSUME NEW S, S \subseteq Models, NEW s \in SetToSeqs(S)
    PROVE  Names(s) /\ ToSet(s) = S /\ Len(s) = Cardinality(S)
<1> DEFINE n == Cardinality(S)
<1>1. IsFiniteSet(S) /\ n \in Nat  BY FS_Subset, FS_CardinalityType, ConfigAssumption
<1>2. s \in [1..n -> S] /\ \A i, j \in 1..n : i # j => s[i] # s[j]  BY DEF SetToSeqs
<1>3. s \in Seq(Models) /\ Len(s) = n /\ DOMAIN s = 1..n
  <2> HIDE DEF n
  <2>1. s \in [1..n -> Models]  BY <1>2
  <2> QED  BY <1>1, <2>1
<1>4. Names(s)
  <2> HIDE DEF n
  <2> QED  BY <1>2, <1>3 DEF Names, IsInjective
<1>5. IsFiniteSet(1..n) /\ Cardinality(1..n) = n
  <2> HIDE DEF n
  <2> QED  BY <1>1, FS_Interval
<1>6. ToSet(s) = S
  <2>1. s \in Injection(1..n, S)
    <3> HIDE DEF n
    <3> QED  BY <1>2 DEF Injection, IsInjective
  <2>2. s \in Surjection(1..n, S)  BY <1>1, <1>5, <2>1, FS_Injection
  <2> HIDE DEF n
  <2> QED  BY <1>2, <1>3, <2>2 DEF Surjection, ToSet
<1> QED  BY <1>3, <1>4, <1>6

LEMMA PrefixNames ==
    ASSUME NEW s, Names(s), NEW n \in 0..Len(s)
    PROVE  Names(SubSeq(s, 1, n)) /\ ToSet(SubSeq(s, 1, n)) \subseteq ToSet(s)
<1> DEFINE t == SubSeq(s, 1, n)
           l == Len(s)
<1>1. s \in Seq(Models) /\ l \in Nat /\ DOMAIN s = 1..l  BY DEF Names
<1>2. n \in Nat /\ n <= l  BY <1>1
<1>3. t \in Seq(Models) /\ Len(t) = n /\ DOMAIN t = 1..n /\ \A i \in 1..n : t[i] = s[i]
  BY <1>1, <1>2
<1> HIDE DEF t, l
<1>4. \A i \in DOMAIN t : i \in DOMAIN s  BY <1>1, <1>2, <1>3
<1>5. IsInjective(t)  BY <1>3, <1>4, NamesParts DEF IsInjective
<1>6. ToSet(t) \subseteq ToSet(s)  BY <1>3, <1>4 DEF ToSet
<1> QED  BY <1>3, <1>5, <1>6 DEF Names, t

LEMMA FirstName ==
    ASSUME NEW s \in Seq(Models)
    PROVE  IF ToSet(s) = {} THEN First(s) = None ELSE First(s) \in ToSet(s)
<1>1. CASE s = <<>>
  <2>1. ToSet(s) = {}  BY <1>1 DEF ToSet
  <2> QED  BY <1>1, <2>1 DEF First
<1>2. CASE s # <<>>
  <2>1. 1 \in DOMAIN s /\ Head(s) = s[1]  BY <1>2
  <2> QED  BY <1>2, <2>1 DEF First, ToSet
<1> QED  BY <1>1, <1>2

\* What puts the names of a page, in a new order, into the places that hold them.
Moved(s, names) ==
    LET places == {i \in DOMAIN s : s[i] \in ToSet(names)}
    IN [i \in DOMAIN s |-> IF i \in places THEN names[Rank(places, i)] ELSE s[i]]

LEMMA MovedNames ==
    ASSUME NEW s, Names(s), NEW S, S \subseteq ToSet(s), NEW names \in SetToSeqs(S)
    PROVE  Names(Moved(s, names)) /\ ToSet(Moved(s, names)) = ToSet(s)
<1> DEFINE P == {i \in DOMAIN s : s[i] \in ToSet(names)}
           t == [i \in DOMAIN s |-> IF i \in P THEN names[Rank(P, i)] ELSE s[i]]
           n == Len(s)
           f == [i \in P |-> s[i]]
<1>1. Moved(s, names) = t  BY DEF Moved
<1>2. /\ n \in Nat /\ DOMAIN s = 1..n /\ \A i \in DOMAIN s : s[i] \in Models
      /\ \A i, j \in DOMAIN s : s[i] = s[j] => i = j
      /\ S \subseteq Models /\ IsFiniteSet(S)
  BY NamesParts, FS_Subset, ConfigAssumption
<1>3. /\ Names(names) /\ ToSet(names) = S /\ Len(names) = Cardinality(S)
      /\ DOMAIN names = 1..Cardinality(S) /\ \A k \in DOMAIN names : names[k] \in S
      /\ \A k, l \in DOMAIN names : names[k] = names[l] => k = l
  <2>1. Names(names) /\ ToSet(names) = S /\ Len(names) = Cardinality(S)  BY <1>2, OrderNames
  <2> QED  BY <2>1, NamesParts DEF ToSet
<1>4. P \subseteq 1..n /\ \A i \in 1..n : i \in P <=> s[i] \in S  BY <1>2, <1>3
<1>5. \A x \in S : \E i \in 1..n : x = s[i]  BY <1>2 DEF ToSet
<1> HIDE DEF P, n
<1>6. Cardinality(P) = Cardinality(S)
  <2>1. f \in Injection(P, S)  BY <1>2, <1>4 DEF Injection, IsInjective
  <2>2. f \in Surjection(P, S)  BY <1>4, <1>5, <2>1 DEF Injection, Surjection
  <2> HIDE DEF f
  <2>3. IsFiniteSet(P)  BY <1>2, <2>1, FS_Injection
  <2> QED  BY <1>2, <2>1, <2>2, FS_Injection
<1>7. /\ DOMAIN t = 1..n
      /\ \A i \in P : Rank(P, i) \in DOMAIN names /\ t[i] = names[Rank(P, i)] /\ t[i] \in S
      /\ \A i \in 1..n : i \notin P => t[i] = s[i] /\ t[i] \notin S
  <2>1. \A i \in P : Rank(P, i) \in DOMAIN names  BY <1>2, <1>3, <1>4, <1>6, RankType
  <2> QED  BY <1>2, <1>3, <1>4, <2>1
<1>70. t = [i \in 1..n |-> t[i]]  BY <1>2
<1> HIDE DEF t
<1>8. \A i \in 1..n : t[i] \in Models  BY <1>2, <1>7
<1>9. t \in Seq(Models)  BY <1>2, <1>70, <1>8
<1>10. IsInjective(t)
  <2> SUFFICES ASSUME NEW i \in 1..n, NEW j \in 1..n, t[i] = t[j] PROVE i = j
    BY <1>7 DEF IsInjective
  <2>1. CASE i \in P /\ j \in P
    <3>1. Rank(P, i) = Rank(P, j)  BY <1>3, <1>7, <2>1
    <3>2. ~(i < j) /\ ~(j < i)
      <4>1. Rank(P, i) \in Nat /\ Rank(P, j) \in Nat  BY <1>2, <1>4, <2>1, RankType
      <4>2. (i < j <=> Rank(P, i) < Rank(P, j)) /\ (j < i <=> Rank(P, j) < Rank(P, i))
        BY <1>2, <1>4, <2>1, RankOrder
      <4> QED  BY <3>1, <4>1, <4>2
    <3> QED  BY <1>2, <3>2
  <2>2. CASE i \notin P /\ j \notin P  BY <1>2, <1>7, <2>2
  <2>3. CASE i \in P /\ j \notin P  BY <1>7, <2>3
  <2>4. CASE i \notin P /\ j \in P  BY <1>7, <2>4
  <2> QED  BY <2>1, <2>2, <2>3, <2>4
<1>11. ToSet(t) = ToSet(s)
  <2>1. ASSUME NEW i \in 1..n PROVE t[i] \in ToSet(s)
    BY <1>2, <1>7 DEF ToSet
  <2>2. ASSUME NEW x \in S PROVE x \in ToSet(t)
    <3>1. PICK k \in 1..Cardinality(S) : names[k] = x  BY <1>3 DEF ToSet
    <3>2. PICK i \in P : Rank(P, i) = k  BY <1>2, <1>4, <1>6, <3>1, RankOnto
    <3>3. t[i] = x /\ i \in DOMAIN t  BY <1>4, <1>7, <3>1, <3>2
    <3> QED  BY <3>3 DEF ToSet
  <2>3. ASSUME NEW i \in 1..n PROVE s[i] \in ToSet(t)
    <3>1. CASE s[i] \in S  BY <2>2, <3>1
    <3>2. CASE s[i] \notin S
      <4>1. t[i] = s[i] /\ i \in DOMAIN t  BY <1>4, <1>7, <3>2
      <4> QED  BY <4>1 DEF ToSet
    <3> QED  BY <3>1, <3>2
  <2> QED  BY <1>2, <1>7, <2>1, <2>3 DEF ToSet
<1> QED  BY <1>1, <1>9, <1>10, <1>11 DEF Names

-----------------------------------------------------------------------------
(* The file and the copies of it.                                           *)

Files == [models : Seq(Models), dispatcher : OrNone(Models), summary : OrNone(Models),
          tags : [Models -> OrNone(Tiers)], other : OrNone(Values), lang : OrNone(Values),
          enabled : BOOLEAN, username : OrNone(Tokens)]

\* The list of a file names no model twice, and its dispatcher is one of them, unless it is one
\* of the names that were picked without a look at the list.
Proper(c, names) ==
    /\ c \in Files /\ IsInjective(c.models)
    /\ c.dispatcher \in OrNone(Listed(c)) \union names

LEMMA ProperParts ==
    ASSUME NEW c, NEW names, Proper(c, names)
    PROVE  /\ c \in Files /\ Names(c.models) /\ Listed(c) = ToSet(c.models)
           /\ Listed(c) \subseteq Models
           /\ c.dispatcher \in OrNone(Models) /\ c.summary \in OrNone(Models)
           /\ c.dispatcher = None \/ c.dispatcher \in Listed(c) \/ c.dispatcher \in names
<1>1. /\ c \in Files /\ c.models \in Seq(Models)
      /\ c.dispatcher \in OrNone(Models) /\ c.summary \in OrNone(Models)
  BY DEF Proper, Files
<1>2. Names(c.models)  BY <1>1 DEF Proper, Names
<1> QED  BY <1>1, <1>2, NamesParts DEF Proper, Listed, OrNone

LEMMA MoreNames ==
    ASSUME NEW c, NEW names, NEW more, Proper(c, names), names \subseteq more
    PROVE  Proper(c, more)
BY DEF Proper

\* Models of one provider are chosen anew: the others stay, and so does a dispatcher that is
\* one of them.
LEMMA ReplacedProper ==
    ASSUME NEW c, NEW names, Proper(c, names), NEW p,
           NEW chosen, chosen \subseteq WithPrefix(p), NEW order \in SetToSeqs(chosen)
    PROVE  Proper(Replaced(c, p, order), names)
<1> DEFINE kept == (Models \ WithPrefix(p)) \union ToSet(order)
           added == Models \ Listed(c)
           a == Among(c.models, kept)
           b == Among(order, added)
           list == Selected(c, p, order)
           stays == /\ c.dispatcher # None
                    /\ (c.dispatcher \in WithPrefix(p) => c.dispatcher \in ToSet(list))
           d == IF stays THEN c.dispatcher ELSE First(list)
<1>1. chosen \subseteq Models  BY DEF WithPrefix
<1>2. Names(order) /\ ToSet(order) = chosen  BY <1>1, OrderNames
<1>3. c \in Files /\ Names(c.models) /\ Listed(c) = ToSet(c.models) /\ Listed(c) \subseteq Models
      /\ c.dispatcher \in OrNone(Models)
      /\ (c.dispatcher = None \/ c.dispatcher \in Listed(c) \/ c.dispatcher \in names)
  BY ProperParts
<1>4. list = a \o b  BY DEF Selected
<1>5. Replaced(c, p, order) = [c EXCEPT !.models = list, !.dispatcher = d]  BY DEF Replaced
<1> HIDE DEF list
<1>6. Names(a) /\ ToSet(a) = Listed(c) \cap kept /\ Names(b) /\ ToSet(b) = chosen \cap added
  <2> HIDE DEF kept, added
  <2> QED  BY <1>2, <1>3, AmongNames
<1>7. Names(list) /\ ToSet(list) = (Listed(c) \cap kept) \cup (chosen \cap added)
  <2>1. ToSet(a) \cap ToSet(b) = {}  BY <1>6
  <2> HIDE DEF a, b
  <2> QED  BY <1>4, <1>6, <2>1, JoinedNames
<1>8. list \in Seq(Models) /\ IsInjective(list) /\ ToSet(list) \subseteq Models
  BY <1>7, NamesParts DEF Names
<1>9. d \in OrNone(Models) /\ (d = None \/ d \in ToSet(list) \/ d \in names)
  <2>1. CASE ~stays  BY <1>8, <2>1, FirstName DEF OrNone
  <2>2. CASE stays /\ c.dispatcher \in WithPrefix(p)  BY <1>3, <2>2
  <2>3. CASE stays /\ c.dispatcher \notin WithPrefix(p)
    BY <1>3, <1>7, <2>3 DEF OrNone
  <2> QED  BY <2>1, <2>2, <2>3
<1> HIDE DEF d
<1>10. /\ Replaced(c, p, order) \in Files
       /\ Replaced(c, p, order).models = list /\ Replaced(c, p, order).dispatcher = d
  BY <1>3, <1>5, <1>8, <1>9 DEF Files
<1> QED  BY <1>8, <1>9, <1>10 DEF Proper, Listed, OrNone

LEMMA RemovedProper ==
    ASSUME NEW c, NEW names, Proper(c, names), NEW m \in Listed(c)
    PROVE  Proper(RemovedInTui(c, m), names) /\ Proper(RemovedOnWeb(c, m), names)
<1> DEFINE left == Without(c.models, m)
<1>1. c \in Files /\ Names(c.models) /\ Listed(c) = ToSet(c.models) /\ Listed(c) \subseteq Models
      /\ c.dispatcher \in OrNone(Models) /\ c.summary \in OrNone(Models)
      /\ (c.dispatcher = None \/ c.dispatcher \in Listed(c) \/ c.dispatcher \in names)
  BY ProperParts
<1>2. Names(left) /\ ToSet(left) = Listed(c) \ {m}
  <2>1. Names(left) /\ ToSet(left) = ToSet(c.models) \cap (Models \ {m})
    BY <1>1, AmongNames DEF Without
  <2> QED  BY <1>1, <2>1
<1> HIDE DEF left
<1>3. left \in Seq(Models) /\ IsInjective(left) /\ ToSet(left) \subseteq Models
  BY <1>2, NamesParts DEF Names
<1>4. First(left) = None \/ First(left) \in ToSet(left)  BY <1>3, FirstName
<1>5. ASSUME NEW d, d = None \/ d \in ToSet(left) \/ d \in names, d \in OrNone(Models),
             NEW v \in OrNone(Models)
      PROVE  Proper([c EXCEPT !.models = left, !.dispatcher = d, !.summary = v], names)
  <2> DEFINE e == [c EXCEPT !.models = left, !.dispatcher = d, !.summary = v]
  <2>1. e \in Files /\ e.models = left /\ e.dispatcher = d  BY <1>1, <1>3, <1>5 DEF Files
  <2> HIDE DEF e
  <2>2. Proper(e, names)  BY <1>3, <1>5, <2>1 DEF Proper, Listed, OrNone
  <2> QED  BY <2>2 DEF e
<1>6. /\ RemovedInTui(c, m) = [c EXCEPT !.models = left,
                                        !.dispatcher = Cleared(c.dispatcher, m, None),
                                        !.summary = Cleared(c.summary, m, None)]
      /\ RemovedOnWeb(c, m) = [c EXCEPT !.models = left,
                                        !.dispatcher = Cleared(c.dispatcher, m, First(left)),
                                        !.summary = Cleared(c.summary, m, First(left))]
  BY DEF RemovedInTui, RemovedOnWeb, left
<1>7. \A x \in {None, First(left)} :
          LET d == Cleared(c.dispatcher, m, x)
          IN /\ d \in OrNone(Models) /\ Cleared(c.summary, m, x) \in OrNone(Models)
             /\ d = None \/ d \in ToSet(left) \/ d \in names
  BY <1>1, <1>2, <1>3, <1>4 DEF Cleared, OrNone
<1>8. ASSUME NEW x \in {None, First(left)}
      PROVE  Proper([c EXCEPT !.models = left, !.dispatcher = Cleared(c.dispatcher, m, x),
                              !.summary = Cleared(c.summary, m, x)], names)
  <2> DEFINE d == Cleared(c.dispatcher, m, x)
             v == Cleared(c.summary, m, x)
  <2>1. d \in OrNone(Models) /\ v \in OrNone(Models) /\ (d = None \/ d \in ToSet(left) \/ d \in names)
    BY <1>7
  <2> HIDE DEF d, v
  <2>2. Proper([c EXCEPT !.models = left, !.dispatcher = d, !.summary = v], names)
    BY <1>5, <2>1
  <2> QED  BY <2>2 DEF d, v
<1> QED  BY <1>6, <1>8

LEMMA RelistedProper ==
    ASSUME NEW c, NEW names, Proper(c, names), NEW s, Names(s), ToSet(s) = Listed(c)
    PROVE  Proper([c EXCEPT !.models = s], names)
<1> DEFINE e == [c EXCEPT !.models = s]
<1>1. c \in Files /\ c.dispatcher \in OrNone(Listed(c)) \union names  BY DEF Proper
<1>2. s \in Seq(Models) /\ IsInjective(s)  BY DEF Names
<1>3. e \in Files /\ e.models = s /\ e.dispatcher = c.dispatcher  BY <1>1, <1>2 DEF Files
<1> HIDE DEF e
<1>4. Proper(e, names)  BY <1>1, <1>2, <1>3 DEF Proper, Listed
<1> QED  BY <1>4 DEF e

LEMMA ReorderedProper ==
    ASSUME NEW c, NEW names, Proper(c, names), NEW S, S \subseteq Listed(c),
           NEW order \in SetToSeqs(S)
    PROVE  Proper(Reordered(c, order), names)
<1>1. Names(c.models) /\ Listed(c) = ToSet(c.models)  BY ProperParts
<1>2. Reordered(c, order) = [c EXCEPT !.models = Moved(c.models, order)]  BY DEF Reordered, Moved
<1>3. Names(Moved(c.models, order)) /\ ToSet(Moved(c.models, order)) = Listed(c)
  BY <1>1, MovedNames
<1> QED  BY <1>2, <1>3, RelistedProper

LEMMA PrioritisedProper ==
    ASSUME NEW c, NEW names, Proper(c, names), NEW order \in SetToSeqs(Listed(c)),
           NEW n \in 0..Len(order)
    PROVE  Proper(Prioritised(c, SubSeq(order, 1, n)), names)
<1> DEFINE a == SubSeq(order, 1, n)
           b == Among(c.models, Models \ ToSet(a))
           s == a \o b
<1>1. Names(c.models) /\ Listed(c) = ToSet(c.models) /\ Listed(c) \subseteq Models  BY ProperParts
<1>2. Names(order) /\ ToSet(order) = Listed(c)  BY <1>1, OrderNames
<1>3. Names(a) /\ ToSet(a) \subseteq Listed(c)  BY <1>2, PrefixNames
<1>4. Prioritised(c, a) = [c EXCEPT !.models = s]  BY DEF Prioritised
<1> HIDE DEF a
<1>5. Names(b) /\ ToSet(b) = Listed(c) \cap (Models \ ToSet(a))  BY <1>1, AmongNames
<1> HIDE DEF b
<1>6. Names(s) /\ ToSet(s) = ToSet(a) \cup ToSet(b)  BY <1>3, <1>5, JoinedNames
<1>7. ToSet(s) = Listed(c)  BY <1>1, <1>3, <1>5, <1>6
<1> HIDE DEF s
<1>8. Proper(Prioritised(c, a), names)  BY <1>4, <1>6, <1>7, RelistedProper
<1> QED  BY <1>8 DEF a

-----------------------------------------------------------------------------
(* Edits and reloads.                                                       *)

\* The file and every copy that is going to be saved have proper lists.
RoutingInv ==
    /\ Proper(config, picked)
    /\ \A w \in Writers : Edits(w) => Proper(held[w].to, picked)
    /\ page \subseteq Models /\ picked \subseteq Models /\ keychain \in OrNone(Tokens)

HeldShape == held = [w \in Writers |-> held[w]]

LEMMA RoutingInit == ConfigInit => RoutingInv
<1> SUFFICES ASSUME ConfigInit PROVE RoutingInv  OBVIOUS
<1> DEFINE all == SetToSeq(Models)
<1>1. all \in Seq(Models) /\ IsInjective(all)
  <2> DEFINE n == Cardinality(Models)
  <2>1. n \in Nat /\ ExistsBijection(1..n, Models)  BY ConfigAssumption, FS_CardinalityType
  <2>2. \E f \in [1..n -> Models] : IsInjective(f)
    BY <2>1 DEF ExistsBijection, Bijection, Injection, IsInjective
  <2>3. all \in [1..n -> Models] /\ IsInjective(all)
    <3> HIDE DEF n
    <3>1. all = CHOOSE f \in [1..n -> Models] : IsInjective(f)  BY DEF SetToSeq, n
    <3> QED  BY <2>2, <3>1
  <2> HIDE DEF n, all
  <2> QED  BY <2>1, <2>3
<1> HIDE DEF all
<1>2. config \in [models : {<<>>, all}, dispatcher : {None}, summary : {None},
                  tags : {[m \in Models |-> None]}, other : {None},
                  lang : {None}, enabled : BOOLEAN, username : {None}]
  BY DEF ConfigInit, all
<1>3. <<>> \in Seq(Models) /\ IsInjective(<<>>)  BY DEF IsInjective
<1>4. config.models \in Seq(Models) /\ IsInjective(config.models) /\ config.dispatcher = None
  BY <1>1, <1>2, <1>3
<1>5. config \in Files  BY <1>1, <1>2, <1>3 DEF Files, OrNone
<1>6. Proper(config, picked)  BY <1>4, <1>5 DEF Proper, OrNone
<1>7. \A w \in Writers : ~Edits(w)  BY DEF ConfigInit, Edits, NoEdit
<1>8. keychain \in OrNone(Tokens)
  BY DEF ConfigInit, OrNone
<1> QED  BY <1>6, <1>7, <1>8 DEF RoutingInv, ConfigInit

\* A writer takes a copy.
LEMMA LoadRouting ==
    ASSUME RoutingInv, HeldShape, NEW w \in Writers, NEW kind, NEW to, NEW whole, NEW gone, NEW again,
           Load(w, kind, to, whole, gone, again), Proper(to, picked'),
           picked \subseteq picked', picked' \subseteq Models, keychain' \in OrNone(Tokens)
    PROVE  RoutingInv'
<1>1. /\ held' = [held EXCEPT ![w] = Copy(to, whole, gone, again)]
      /\ page' \subseteq page /\ config' = config
  BY DEF Load
<1>2. Copy(to, whole, gone, again).to = to  BY DEF Copy
<1>3. held'[w].to = to /\ \A v \in Writers \ {w} : held'[v] = held[v]
  BY <1>1, <1>2 DEF HeldShape
<1>4. Proper(config, picked)'  BY <1>1, MoreNames DEF RoutingInv
<1>5. ASSUME NEW v \in Writers, Edits(v)' PROVE Proper(held[v].to, picked)'
  <2>1. CASE v = w  BY <1>3, <2>1
  <2>2. CASE v # w
    <3>1. held'[v] = held[v] /\ Edits(v)  BY <1>3, <1>5, <2>2 DEF Edits
    <3>2. Proper(held[v].to, picked)  BY <3>1 DEF RoutingInv
    <3> QED  BY <3>1, <3>2, MoreNames
  <2> QED  BY <2>1, <2>2
<1> QED  BY <1>1, <1>4, <1>5 DEF RoutingInv

\* An edit that leaves the list and the routing alone.
LEMMA SettingProper ==
    ASSUME NEW c, NEW names, Proper(c, names), NEW e \in Files,
           e.models = c.models, e.dispatcher = c.dispatcher
    PROVE  Proper(e, names)
BY DEF Proper, Listed

LEMMA EditRouting == RoutingInv /\ HeldShape /\ Edit => RoutingInv'
<1> SUFFICES ASSUME RoutingInv, HeldShape, Edit PROVE RoutingInv'  OBVIOUS
<1>1. /\ Tui \in Writers /\ Proper(config, picked) /\ page \subseteq Models
      /\ config \in Files /\ Listed(config) \subseteq Models /\ picked \subseteq Models
      /\ keychain \in OrNone(Tokens)
  BY ConfigAssumption, ProperParts DEF RoutingInv
<1>2. CASE OpenPage
  BY <1>1, <1>2 DEF OpenPage, RoutingInv, Edits
<1>3. CASE RemoveInTui
  <2>1. PICK m \in page \intersect Listed(config) :
            Load(Tui, "models", RemovedInTui(config, m), FALSE, None, TRUE)
    BY <1>3 DEF RemoveInTui
  <2>2. UNCHANGED <<keychain, picked>>  BY <1>3 DEF RemoveInTui
  <2>3. Proper(RemovedInTui(config, m), picked)  BY <1>1, RemovedProper
  <2> QED  BY <1>1, <2>1, <2>2, <2>3, LoadRouting
<1>4. CASE SaveModelOrder
  <2>1. PICK names \in SetToSeqs(page) :
            Load(Tui, "models", Reordered(config, names), FALSE, None, TRUE)
    BY <1>4 DEF SaveModelOrder
  <2>2. page \subseteq Listed(config) /\ UNCHANGED <<keychain, picked>>
    BY <1>4 DEF SaveModelOrder
  <2>3. Proper(Reordered(config, names), picked)  BY <1>1, <2>2, ReorderedProper
  <2> QED  BY <1>1, <2>1, <2>2, <2>3, LoadRouting
<1>5. CASE DispatcherSelect
  <2>1. PICK m \in page \ {config.dispatcher} :
            /\ Load(Tui, "routing", [config EXCEPT !.dispatcher = m], FALSE, None, TRUE)
            /\ picked' = picked \union {m}
    BY <1>5 DEF DispatcherSelect
  <2>2. UNCHANGED keychain  BY <1>5 DEF DispatcherSelect
  <2> DEFINE e == [config EXCEPT !.dispatcher = m]
  <2>3. e \in Files /\ e.models = config.models /\ e.dispatcher = m
    BY <1>1 DEF Files, OrNone
  <2>4. IsInjective(config.models)  BY <1>1 DEF Proper
  <2>5. Load(Tui, "routing", e, FALSE, None, TRUE)  BY <2>1
  <2> HIDE DEF e
  <2>6. Proper(e, picked')  BY <2>1, <2>3, <2>4 DEF Proper
  <2>7. picked \subseteq picked' /\ picked' \subseteq Models  BY <1>1, <2>1
  <2> QED  BY <1>1, <2>2, <2>5, <2>6, <2>7, LoadRouting
<1>6. CASE SummarySelect
  <2>1. PICK m \in OrNone(page) \ {config.summary} :
            Load(Tui, "routing", [config EXCEPT !.summary = m], FALSE, None, TRUE)
    BY <1>6 DEF SummarySelect
  <2>2. UNCHANGED <<keychain, picked>>  BY <1>6 DEF SummarySelect
  <2>3. Proper([config EXCEPT !.summary = m], picked)
    <3> DEFINE e == [config EXCEPT !.summary = m]
    <3>1. m \in OrNone(Models)  BY <1>1 DEF OrNone
    <3>2. e \in Files /\ e.models = config.models /\ e.dispatcher = config.dispatcher
      BY <1>1, <3>1 DEF Files
    <3> HIDE DEF e
    <3>3. Proper(e, picked)  BY <1>1, <3>2, SettingProper
    <3> QED  BY <3>3 DEF e
  <2> QED  BY <1>1, <2>1, <2>2, <2>3, LoadRouting
<1>7. CASE SessionModelSelect
  BY <1>1, <1>7 DEF SessionModelSelect, RoutingInv, Edits
<1>8. ASSUME NEW w \in Writers, ReplaceModels(w) PROVE RoutingInv'
  <2>1. PICK p \in {Provider[m] : m \in Models} : \E chosen \in SUBSET WithPrefix(p) :
            \E order \in SetToSeqs(chosen) :
                Load(w, "models", Replaced(config, p, order), FALSE, None, TRUE)
    BY <1>8 DEF ReplaceModels
  <2>2. PICK chosen \in SUBSET WithPrefix(p) : \E order \in SetToSeqs(chosen) :
                Load(w, "models", Replaced(config, p, order), FALSE, None, TRUE)
    BY <2>1
  <2>3. PICK order \in SetToSeqs(chosen) :
                Load(w, "models", Replaced(config, p, order), FALSE, None, TRUE)
    BY <2>2
  <2>4. UNCHANGED <<keychain, picked>>  BY <1>8 DEF ReplaceModels
  <2>5. Proper(Replaced(config, p, order), picked)  BY <1>1, ReplacedProper
  <2> QED  BY <1>1, <2>3, <2>4, <2>5, LoadRouting
<1>9. ASSUME NEW w \in Writers, RemoveOnWeb(w) PROVE RoutingInv'
  <2>1. PICK m \in Listed(config) :
            Load(w, "models", RemovedOnWeb(config, m), FALSE, m, TRUE)
    BY <1>9 DEF RemoveOnWeb
  <2>2. UNCHANGED <<keychain, picked>>  BY <1>9 DEF RemoveOnWeb
  <2>3. Proper(RemovedOnWeb(config, m), picked)  BY <1>1, RemovedProper
  <2> QED  BY <1>1, <2>1, <2>2, <2>3, LoadRouting
<1>10. ASSUME NEW w \in Writers, SetModelPriority(w) PROVE RoutingInv'
  <2>1. PICK names \in SetToSeqs(Listed(config)) : \E n \in 0..Len(names) :
            Load(w, "models", Prioritised(config, SubSeq(names, 1, n)), FALSE, None, TRUE)
    BY <1>10 DEF SetModelPriority
  <2>2. PICK n \in 0..Len(names) :
            Load(w, "models", Prioritised(config, SubSeq(names, 1, n)), FALSE, None, TRUE)
    BY <2>1
  <2>3. UNCHANGED <<keychain, picked>>  BY <1>10 DEF SetModelPriority
  <2>4. Proper(Prioritised(config, SubSeq(names, 1, n)), picked)  BY <1>1, PrioritisedProper
  <2> QED  BY <1>1, <2>2, <2>3, <2>4, LoadRouting
<1>11. ASSUME NEW w \in Writers, SetModelRouting(w) PROVE RoutingInv'
  <2>1. PICK m \in OrNone(Listed(config)) :
          \/ Load(w, "routing", [config EXCEPT !.dispatcher = m], FALSE, None, TRUE)
          \/ Load(w, "routing", [config EXCEPT !.summary = m], FALSE, None, TRUE)
    BY <1>11 DEF SetModelRouting
  <2>2. UNCHANGED <<keychain, picked>>  BY <1>11 DEF SetModelRouting
  <2> DEFINE e == [config EXCEPT !.dispatcher = m]
             f == [config EXCEPT !.summary = m]
  <2>3. m \in OrNone(Models)  BY <1>1 DEF OrNone
  <2>4. /\ e \in Files /\ e.models = config.models /\ e.dispatcher = m
        /\ f \in Files /\ f.models = config.models /\ f.dispatcher = config.dispatcher
    BY <1>1, <2>3 DEF Files
  <2>5. Load(w, "routing", e, FALSE, None, TRUE) \/ Load(w, "routing", f, FALSE, None, TRUE)
    BY <2>1
  <2> HIDE DEF e, f
  <2>6. Proper(e, picked) /\ Proper(f, picked)
    BY <1>1, <2>4, SettingProper DEF Proper, Listed
  <2> QED  BY <1>1, <2>2, <2>5, <2>6, LoadRouting
<1>12. ASSUME NEW w \in Writers, SetModelTag(w) PROVE RoutingInv'
  <2>1. PICK m \in (IF w = Tui THEN page ELSE Listed(config)) : \E tier \in OrNone(Tiers) :
            Load(w, "settings", Tagged(config, m, tier), FALSE, None, FALSE)
    BY <1>12 DEF SetModelTag
  <2>2. PICK tier \in OrNone(Tiers) :
            Load(w, "settings", Tagged(config, m, tier), FALSE, None, FALSE)
    BY <2>1
  <2>3. UNCHANGED <<keychain, picked>>  BY <1>12 DEF SetModelTag
  <2>4. m \in Models  BY <1>1
  <2>5. /\ Tagged(config, m, tier) \in Files /\ Tagged(config, m, tier).models = config.models
        /\ Tagged(config, m, tier).dispatcher = config.dispatcher
    BY <1>1, <2>4 DEF Files, Tagged
  <2>6. Proper(Tagged(config, m, tier), picked)  BY <1>1, <2>5, SettingProper
  <2> QED  BY <1>1, <2>2, <2>3, <2>6, LoadRouting
<1>13. ASSUME NEW w \in Writers, NEW e \in Files, e.models = config.models,
              e.dispatcher = config.dispatcher, NEW kind, NEW whole,
              Load(w, kind, e, whole, None, FALSE),
              picked' = picked, keychain' \in OrNone(Tokens)
       PROVE  RoutingInv'
  <2>1. Proper(e, picked)  BY <1>1, <1>13, SettingProper
  <2> QED  BY <1>1, <1>13, <2>1, LoadRouting
<1>14. ASSUME NEW w \in Writers, SetOther(w) PROVE RoutingInv'
  <2>1. PICK v \in OrNone(Values) : Load(w, "settings", [config EXCEPT !.other = v], FALSE, None, FALSE)
    BY <1>14 DEF SetOther
  <2> DEFINE e == [config EXCEPT !.other = v]
  <2>2. e \in Files /\ e.models = config.models /\ e.dispatcher = config.dispatcher
    BY <1>1 DEF Files
  <2>3. Load(w, "settings", e, FALSE, None, FALSE)  BY <2>1
  <2> HIDE DEF e
  <2> QED  BY <1>1, <1>13, <1>14, <2>2, <2>3 DEF SetOther
<1>15. ASSUME NEW w \in Writers, SetLang(w) PROVE RoutingInv'
  <2>1. PICK v \in Values : Load(w, "settings", [config EXCEPT !.lang = v], TRUE, None, FALSE)
    BY <1>15 DEF SetLang
  <2> DEFINE e == [config EXCEPT !.lang = v]
  <2>2. e \in Files /\ e.models = config.models /\ e.dispatcher = config.dispatcher
    BY <1>1 DEF Files, OrNone
  <2>3. Load(w, "settings", e, TRUE, None, FALSE)  BY <2>1
  <2> HIDE DEF e
  <2> QED  BY <1>1, <1>13, <1>15, <2>2, <2>3 DEF SetLang
<1>16. ASSUME NEW w \in Writers, EnableChannel(w) PROVE RoutingInv'
  <2>1. PICK t \in Tokens :
           /\ keychain' = t
           /\ Load(w, "channel", [config EXCEPT !.enabled = TRUE,
                      !.username = IF w = Tui THEN t ELSE None], FALSE, None, FALSE)
    BY <1>16 DEF EnableChannel
  <2> DEFINE u == IF w = Tui THEN t ELSE None
             e == [config EXCEPT !.enabled = TRUE, !.username = u]
  <2>2. u \in OrNone(Tokens) /\ keychain' \in OrNone(Tokens)  BY <2>1 DEF OrNone
  <2>3. Load(w, "channel", e, FALSE, None, FALSE)  BY <2>1
  <2> HIDE DEF u
  <2>4. e \in Files /\ e.models = config.models /\ e.dispatcher = config.dispatcher
    BY <1>1, <2>2 DEF Files
  <2> HIDE DEF e
  <2> QED  BY <1>1, <1>13, <1>16, <2>2, <2>3, <2>4 DEF EnableChannel
<1>17. ASSUME NEW w \in Writers, DisableChannel(w) PROVE RoutingInv'
  <2> DEFINE e == [config EXCEPT !.enabled = FALSE, !.username = None]
  <2>1. e \in Files /\ e.models = config.models /\ e.dispatcher = config.dispatcher
    BY <1>1 DEF Files, OrNone
  <2>2. /\ Load(w, "channel", e, FALSE, None, FALSE) /\ keychain' \in OrNone(Tokens)
        /\ picked' = picked
    BY <1>17 DEF DisableChannel, OrNone
  <2> HIDE DEF e
  <2> QED  BY <1>13, <2>1, <2>2
<1> QED  BY <1>2, <1>3, <1>4, <1>5, <1>6, <1>7, <1>8, <1>9, <1>10, <1>11, <1>12, <1>14, <1>15,
            <1>16, <1>17 DEF Edit

LEMMA SaveRouting ==
    ASSUME RoutingInv, HeldShape, NEW w \in Writers, Save(w)
    PROVE  RoutingInv'
<1>1. /\ config' = IF held[w].whole THEN held[w].to ELSE [held[w].to EXCEPT !.lang = config.lang]
      /\ held' = [held EXCEPT ![w] = NoEdit] /\ Proper(held[w].to, picked) /\ Proper(config, picked)
      /\ UNCHANGED <<keychain, page, picked>>
  BY DEF Save, RoutingInv
<1>2. config.lang \in OrNone(Values) /\ held[w].to \in Files  BY <1>1 DEF Proper, Files
<1>3. Proper([held[w].to EXCEPT !.lang = config.lang], picked)
  <2> DEFINE c == held[w].to
             v == config.lang
             e == [c EXCEPT !.lang = v]
  <2>1. c \in Files /\ v \in OrNone(Values)  BY <1>2
  <2> HIDE DEF c, v
  <2>2. e \in Files /\ e.models = c.models /\ e.dispatcher = c.dispatcher  BY <2>1 DEF Files
  <2>3. Proper(c, picked)  BY <1>1 DEF c
  <2> HIDE DEF e
  <2>4. Proper(e, picked)  BY <2>2, <2>3, SettingProper
  <2> QED  BY <2>4 DEF e, c, v
<1>4. Proper(config', picked)
  <2>1. CASE held[w].whole  BY <1>1, <2>1
  <2>2. CASE ~held[w].whole  BY <1>1, <1>3, <2>2
  <2> QED  BY <2>1, <2>2
<1>5. \A v \in Writers : Edits(v)' => held'[v] = held[v] /\ Edits(v)
  BY <1>1 DEF HeldShape, Edits, NoEdit
<1> QED  BY <1>1, <1>4, <1>5 DEF RoutingInv

LEMMA RoutingStep ==
    ASSUME Shape, RoutingInv, [Next]_vars
    PROVE  RoutingInv'
<1>0. HeldShape  BY DEF Shape, HostShape, HeldShape
<1>1. UNCHANGED configVars => RoutingInv'
  BY DEF configVars, RoutingInv, Edits
<1>2. CASE EditStep
  BY <1>0, <1>2, EditRouting DEF EditStep
<1>3. CASE SaveStep
  BY <1>0, <1>3, SaveRouting DEF SaveStep, Saved
<1>4. CASE HostStep
  BY <1>1, <1>4 DEF HostStep
<1>5. CASE BotStep
  <2>1. ASSUME NEW k \in Callers, Started(k), ~UNCHANGED configVars PROVE RoutingInv'
    <3> DEFINE e == [config EXCEPT !.username = keychain]
    <3>1. /\ keychain # None
          /\ held' = [held EXCEPT ![Bot] = Copy(e, FALSE, None, FALSE)]
          /\ UNCHANGED <<config, keychain, bot, page, picked, edits, mix>>
      BY <2>1 DEF Started
    <3>2. Proper(config, picked) /\ config \in Files /\ keychain \in OrNone(Tokens)
      BY DEF RoutingInv, Proper
    <3>3. e \in Files /\ e.models = config.models /\ e.dispatcher = config.dispatcher
      BY <3>2 DEF Files
    <3> HIDE DEF e
    <3>4. Proper(e, picked)  BY <3>2, <3>3, SettingProper
    <3>5. held'[Bot].to = e /\ \A w \in Writers \ {Bot} : held'[w] = held[w]
      <4>1. Copy(e, FALSE, None, FALSE).to = e  BY DEF Copy
      <4> QED  BY <1>0, <3>1, <4>1, BotAssumption DEF HeldShape
    <3>6. ASSUME NEW w \in Writers, Edits(w)' PROVE Proper(held'[w].to, picked)
      <4>1. CASE w = Bot  BY <3>4, <3>5, <4>1
      <4>2. CASE w # Bot  BY <3>5, <3>6, <4>2 DEF RoutingInv, Edits
      <4> QED  BY <4>1, <4>2
    <3> QED  BY <3>1, <3>6 DEF RoutingInv
  <2>2. ASSUME NEW k \in Callers, NothingToStart(k) \/ Named(k) \/ StartFails(k)
        PROVE  UNCHANGED configVars
    BY <2>2 DEF NothingToStart, Named, StartFails
  <2> QED  BY <1>1, <1>5, <2>1, <2>2 DEF BotStep
<1>6. CASE UNCHANGED vars
  BY <1>1, <1>6 DEF vars
<1> QED  BY <1>2, <1>3, <1>4, <1>5, <1>6 DEF Next

\* The file never lists a model twice and its dispatcher is a listed model, however the edits of
\* the two processes overlap, but for a name picked in the TUI that is not looked up again
\* (commandDispatcher.go).
THEOREM FileConsistent == Spec => []RoutingListed
<1>1. Init => RoutingInv  BY RoutingInit DEF Init
<1>2. ConnInv /\ RoutingInv /\ [Next]_vars => RoutingInv'  BY RoutingStep DEF ConnInv
<1>3. RoutingInv => RoutingListed  BY DEF RoutingInv, Proper, RoutingListed
<1> QED  BY <1>1, <1>2, <1>3, MutexHeld, PTL DEF Spec

-----------------------------------------------------------------------------
(* A process serves its agents and their routing together.                  *)

\* What a reload has read is a list of models.
ReadInv == \A r \in Reloaders : reload[r].list \in Seq(Models)

LEMMA HostedTogether ==
    ASSUME NEW p \in Processes, NEW list \in Seq(Models), NEW c
    PROVE  LET h == Hosted(p, list, c)
           IN  /\ h.summary \in OrNone(h.models)
               /\ p = "daemon" => IF h.models = {} THEN h.dispatcher = None
                                  ELSE h.dispatcher \in h.models
<1> DEFINE h == Hosted(p, list, c)
<1>1. /\ h.models = ToSet(list) /\ h.summary = SelectSummary(list, c)
      /\ p = "daemon" => h.dispatcher = SelectDispatcher(list, c)
  BY DEF Hosted
<1> HIDE DEF h
<1>2. h.summary \in OrNone(h.models)  BY <1>1 DEF SelectSummary, OrNone
<1>3. IF ToSet(list) = {} THEN First(list) = None ELSE First(list) \in ToSet(list)
  BY FirstName
<1>4. p = "daemon" => IF h.models = {} THEN h.dispatcher = None ELSE h.dispatcher \in h.models
  BY <1>1, <1>3 DEF SelectDispatcher
<1> QED  BY <1>2, <1>4 DEF h

LEMMA ServedStep ==
    ASSUME Shape, RoutingInv, ReadInv, ServedTogether, [Next]_vars
    PROVE  ReadInv' /\ ServedTogether'
<1>0. config.models \in Seq(Models)  BY DEF RoutingInv, Proper, Files
<1>1. UNCHANGED hostVars => ReadInv' /\ ServedTogether'
  BY DEF hostVars, ReadInv, ServedTogether
<1>2. Idle.list \in Seq(Models) /\ Due.list \in Seq(Models)  BY DEF Idle, Due
<1>3. host' = host => ServedTogether'  BY DEF ServedTogether
<1>4. CASE EditStep  BY <1>1, <1>4 DEF EditStep
<1>5. CASE SaveStep
  <2>1. PICK w \in Writers : Saved(w)  BY <1>5 DEF SaveStep
  <2>2. /\ host' = host
        /\ \A r \in Reloaders : reload'[r] \in {Due, reload[r]}
    BY <2>1 DEF Saved, Shape, HostShape
  <2> QED  BY <1>2, <1>3, <2>2 DEF ReadInv
<1>6. CASE HostStep
  <2>1. ASSUME NEW r \in Reloaders, ReadList(r) PROVE ReadInv' /\ ServedTogether'
    <3>1. host' = host  BY <2>1 DEF ReadList
    <3>2. reload'[r].list = config.models /\ \A q \in Reloaders \ {r} : reload'[q] = reload[q]
      BY <2>1 DEF ReadList, Shape, HostShape
    <3> QED  BY <1>0, <1>3, <3>1, <3>2 DEF ReadInv
  <2>2. ASSUME NEW r \in Reloaders, Install(r) PROVE ReadInv' /\ ServedTogether'
    <3>1. \A q \in Reloaders : reload'[q] \in {Idle, reload[q]}
      BY <2>2 DEF Install, Shape, HostShape
    <3>2. /\ host'[Home(r)] = Hosted(Home(r), reload[r].list, config)
          /\ \A p \in Processes \ {Home(r)} : host'[p] = host[p]
      BY <2>2, HomeProcess DEF Install, Shape, HostShape
    <3>3. Home(r) \in Processes /\ reload[r].list \in Seq(Models)  BY HomeProcess DEF ReadInv
    <3>4. /\ host'[Home(r)].summary \in OrNone(host'[Home(r)].models)
          /\ Home(r) = "daemon" =>
                IF host'[Home(r)].models = {} THEN host'[Home(r)].dispatcher = None
                ELSE host'[Home(r)].dispatcher \in host'[Home(r)].models
      BY <3>2, <3>3, HostedTogether
    <3>5. ServedTogether'  BY <3>2, <3>4 DEF ServedTogether
    <3> QED  BY <1>2, <3>1, <3>5 DEF ReadInv
  <2>3. ASSUME NEW p \in Processes, NEW b, Watch(p, b) PROVE ReadInv' /\ ServedTogether'
    <3>1. host' = host  BY <2>3 DEF Watch
    <3>2. p \in Reloaders  BY DEF Reloaders
    <3>3. reload'[p].list = config.models /\ \A q \in Reloaders \ {p} : reload'[q] = reload[q]
      BY <2>3, <3>2 DEF Watch, Shape, HostShape
    <3> QED  BY <1>0, <1>3, <3>1, <3>3 DEF ReadInv
  <2>4. ASSUME NEW p \in Processes, NEW b, Drop(p, b) PROVE ReadInv' /\ ServedTogether'
    BY <1>3, <2>4 DEF Drop, ReadInv
  <2> QED  BY <1>6, <2>1, <2>2, <2>3, <2>4 DEF HostStep
<1>7. CASE BotStep  BY <1>1, <1>7 DEF BotStep
<1>8. CASE UNCHANGED vars  BY <1>1, <1>8 DEF vars
<1> QED  BY <1>4, <1>5, <1>6, <1>7, <1>8 DEF Next

\* A process serves a consistent set, whatever reloads overlap: its dispatcher, if it has any
\* agent, and its summary model are among its agents (host.go, agentRegistry.go).
THEOREM RegistryConsistent == Spec => []ServedTogether
<1>1. Init => RoutingInv /\ ReadInv /\ ServedTogether
  <2> SUFFICES ASSUME Init PROVE RoutingInv /\ ReadInv /\ ServedTogether  OBVIOUS
  <2>1. RoutingInv  BY RoutingInit DEF Init
  <2>2. config.models \in Seq(Models)  BY <2>1 DEF RoutingInv, Proper, Files
  <2>3. ReadInv
    <3>1. \A r \in Reloaders : reload[r] = Idle  BY DEF Init, HostInit
    <3>2. Idle.list \in Seq(Models)  BY DEF Idle
    <3> QED  BY <3>1, <3>2 DEF ReadInv
  <2>4. \A p \in Processes : host[p] = Hosted(p, config.models, config)
    BY DEF Init, HostInit
  <2>5. ServedTogether  BY <2>2, <2>4, HostedTogether DEF ServedTogether
  <2> QED  BY <2>1, <2>3, <2>5
<1>2. /\ ConnInv /\ RoutingInv /\ ReadInv /\ ServedTogether /\ [Next]_vars
      => RoutingInv' /\ ReadInv' /\ ServedTogether'
  BY RoutingStep, ServedStep DEF ConnInv
<1> QED  BY <1>1, <1>2, MutexHeld, PTL DEF Spec

\* What is on file is consistent, each process serves a consistent set and comes to serve what is
\* on file, and the bot comes to follow its setting (config.json with all that read it).
THEOREM SettingsKept == Spec => []SettingsServed
<1>1. RoutingListed /\ ServedTogether /\ ServedCurrent /\ BotFollows => SettingsServed
  BY DEF SettingsServed
<1> QED  BY <1>1, FileConsistent, RegistryConsistent, FileServed, SettingFollowed, PTL

-----------------------------------------------------------------------------
(* FileTools: what a task has seen, and what an undo gives back. *)

FilesConstants == Texts # {}

Held == Texts \cup {Absent}
HistRows == [id : Nat, task : Tasks, path : Paths, action : {"create", "modify", "delete"}, text : Held,
             kept : BOOLEAN]
Changes == [action : {"create", "modify"}, text : Held]
FileCalls == [pc : {"idle", "read", "write", "written", "undo"},
              path : {<< >>} \cup {<< p >> : p \in Paths}, text : Held, was : Held,
              stat : {"none", "fresh", "stale"}, todo : Seq(Nat)]

FileTypes ==
    /\ disk \in [Paths -> Held]
    /\ hist \in Seq(HistRows)
    /\ origin \in [Tasks -> [Paths -> {<< >>} \cup {<< c >> : c \in Changes}]]
    /\ mark \in [Tasks -> [Paths -> {"none", "fresh", "stale"}]]
    /\ tool \in [Tasks -> FileCalls]
    /\ known \in [Tasks -> [Paths -> BOOLEAN]]
    /\ misdated \in [Tasks -> [Paths -> BOOLEAN]]
    /\ before \in [Tasks -> [Paths -> {<< >>} \cup {<< x >> : x \in Held}]]
    /\ unkept \in [Tasks -> [Paths -> BOOLEAN]]

(* What a row says the file was. *)
Content(row) == IF row.action = "create" THEN Absent ELSE row.text

(* A row holds what the file was before its task touched it first, and the  *)
(* history has one for each file and task, unless it is known to be missing. *)
Tells(row) ==
    unkept[row.task][row.path] \/ before[row.task][row.path] = << Content(row) >>

TableInv ==
    /\ \A row \in Range(hist) : Tells(row)
    /\ \A t \in Tasks, p \in Paths :
          /\ before[t][p] # << >> =>
                unkept[t][p] \/ \E row \in Range(hist) : row.task = t /\ row.path = p
          /\ origin[t][p] # << >> => before[t][p] # << >>

TodoOK(t) ==
    /\ tool[t].pc \in {"idle", "undo"} => tool[t].path = << >>
    /\ tool[t].pc = "undo" => tool[t].todo # << >>

TodoInv == \A t \in Tasks : TodoOK(t)

(* The time on record is the file's for who has seen what it holds, and so  *)
(* is the time of a write until somebody else writes.                       *)
SeenInv ==
    \A t \in Tasks, p \in Paths :
        /\ disk[p] # Absent /\ mark[t][p] = "fresh" /\ ~misdated[t][p] => known[t][p]
        /\ tool[t].pc = "written" /\ tool[t].path = << p >> /\ tool[t].stat = "fresh" =>
              known[t][p]

FilesInv == FileTypes /\ TableInv /\ TodoInv /\ SeenInv

-----------------------------------------------------------------------------
(* The history table. *)

LEMMA MoreRange ==
    ASSUME NEW S, NEW s \in Seq(S), NEW x \in S
    PROVE  Append(s, x) \in Seq(S) /\ Range(Append(s, x)) = Range(s) \cup {x}
<1>1. DOMAIN s = 1 .. Len(s) /\ DOMAIN Append(s, x) = 1 .. Len(s) + 1 /\ Len(s) \in Nat
  OBVIOUS
<1>2. \A i \in 1 .. Len(s) : Append(s, x)[i] = s[i]  OBVIOUS
<1>3. Append(s, x)[Len(s) + 1] = x  OBVIOUS
<1> QED  BY <1>1, <1>2, <1>3 DEF Range

LEMMA PickRange ==
    ASSUME NEW S, NEW s \in Seq(S), NEW P, P \subseteq DOMAIN s
    PROVE  /\ Pick(s, P) \in Seq(S) /\ Range(Pick(s, P)) \subseteq {s[i] : i \in P}
           /\ Range(Pick(s, P)) \subseteq Range(s)
<1>1. /\ Pick(s, P) \in Seq(S) /\ Len(Pick(s, P)) = Cardinality(P) /\ Cardinality(P) \in Nat
      /\ \A k \in 1 .. Cardinality(P) : Nth(P, k) \in P
  BY PickProperties
<1>2. \A k \in 1 .. Cardinality(P) : Pick(s, P)[k] = s[Nth(P, k)]  BY DEF Pick
<1>3. DOMAIN Pick(s, P) = 1 .. Cardinality(P)  BY <1>1
<1> QED  BY <1>1, <1>2, <1>3 DEF Range

(* One entry of a table by task and file. *)
LEMMA CellSet ==
    ASSUME NEW V, NEW f \in [Tasks -> [Paths -> V]], NEW t \in Tasks, NEW p \in Paths, NEW v \in V,
           NEW g, g = [f EXCEPT ![t][p] = v]
    PROVE  /\ g \in [Tasks -> [Paths -> V]] /\ g[t][p] = v
           /\ \A q \in Tasks, r \in Paths : q # t \/ r # p => g[q][r] = f[q][r]
<1>1. g = [f EXCEPT ![t] = [f[t] EXCEPT ![p] = v]]  OBVIOUS
<1>2. f[t] \in [Paths -> V]  OBVIOUS
<1>3. [f[t] EXCEPT ![p] = v] \in [Paths -> V]  BY <1>2
<1>4. g[t] = [f[t] EXCEPT ![p] = v] /\ \A q \in Tasks : q # t => g[q] = f[q]  BY <1>1
<1>5. \A r \in Paths : r # p => g[t][r] = f[t][r]  BY <1>2, <1>4
<1>6. \A q \in Tasks, r \in Paths : q # t \/ r # p => g[q][r] = f[q][r]  BY <1>4, <1>5
<1>7. g \in [Tasks -> [Paths -> V]]  BY <1>1, <1>3
<1>8. g[t][p] = v  BY <1>2, <1>4
<1> QED  BY <1>6, <1>7, <1>8

(* The same for the table of what a task has seen. *)
LEMMA SeenCell ==
    ASSUME NEW f \in [Tasks -> [Paths -> BOOLEAN]], NEW t \in Tasks, NEW p \in Paths,
           NEW g, g = [f EXCEPT ![t][p] = TRUE]
    PROVE  /\ g \in [Tasks -> [Paths -> BOOLEAN]]
           /\ \A q \in Tasks, r \in Paths : q # t \/ r # p => g[q][r] = f[q][r]
<1>1. g = [f EXCEPT ![t] = [f[t] EXCEPT ![p] = TRUE]]  OBVIOUS
<1>2. f[t] \in [Paths -> BOOLEAN]  OBVIOUS
<1>3. [f[t] EXCEPT ![p] = TRUE] \in [Paths -> BOOLEAN]  BY <1>2
<1>4. g[t] = [f[t] EXCEPT ![p] = TRUE] /\ \A q \in Tasks : q # t => g[q] = f[q]  BY <1>1
<1>5. \A r \in Paths : r # p => g[t][r] = f[t][r]  BY <1>2, <1>4
<1>6. \A q \in Tasks, r \in Paths : q # t \/ r # p => g[q][r] = f[q][r]  BY <1>4, <1>5
<1>7. g \in [Tasks -> [Paths -> BOOLEAN]]  BY <1>1, <1>3
<1> QED  BY <1>6, <1>7

Befores == {<< >>} \cup {<< x >> : x \in Held}

LEMMA TouchIs ==
    ASSUME FileTypes, NEW t \in Tasks, NEW p \in Paths, NEW was \in Held, Touch(t, p, was)
    PROVE  /\ before' \in [Tasks -> [Paths -> {<< >>} \cup {<< x >> : x \in Held}]]
           /\ before'[t][p] = IF before[t][p] = << >> THEN << was >> ELSE before[t][p]
           /\ before'[t][p] # << >>
           /\ \A q \in Tasks, r \in Paths : q # t \/ r # p => before'[q][r] = before[q][r]
           /\ \A q \in Tasks, r \in Paths : \A x : before[q][r] = << x >> => before'[q][r] = << x >>
<1> PICK v : v = IF before[t][p] = << >> THEN << was >> ELSE before[t][p]  OBVIOUS
<1>1. before' = [before EXCEPT ![t][p] = v]  BY DEF Touch, Nothing
<1>2. before \in [Tasks -> [Paths -> Befores]]  BY DEF FileTypes, Befores
<1>3. v \in Befores /\ v # << >>
  <2>1. before[t][p] \in Befores  BY <1>2
  <2> QED  BY <2>1 DEF Befores
<1>4. /\ before' \in [Tasks -> [Paths -> Befores]] /\ before'[t][p] = v
      /\ \A q \in Tasks, r \in Paths : q # t \/ r # p => before'[q][r] = before[q][r]
  BY <1>1, <1>2, <1>3, CellSet
<1>5. ASSUME NEW q \in Tasks, NEW r \in Paths, NEW x, before[q][r] = << x >>
      PROVE  before'[q][r] = << x >>
  <2>1. CASE q = t /\ r = p  BY <1>4, <1>5, <2>1
  <2>2. CASE q # t \/ r # p  BY <1>4, <1>5, <2>2
  <2> QED  BY <2>1, <2>2
<1> QED  BY <1>3, <1>4, <1>5 DEF Befores

(* A change to the table in which task t touches file p, which was was. *)
LEMMA RowAdded ==
    ASSUME FileTypes, TableInv, NEW t \in Tasks, NEW p \in Paths, NEW was \in Held,
           NEW row \in HistRows, row.task = t, row.path = p,
           before[t][p] = << >> => Content(row) = was,
           Touch(t, p, was), hist' = Insert(hist, row), unkept' = unkept,
           origin' \in [Tasks -> [Paths -> {<< >>} \cup {<< c >> : c \in Changes}]],
           \A q \in Tasks, r \in Paths : q # t \/ r # p => origin'[q][r] = origin[q][r]
    PROVE  /\ hist' \in Seq(HistRows) /\ TableInv'
           /\ before' \in [Tasks -> [Paths -> {<< >>} \cup {<< x >> : x \in Held}]]
           /\ \A r \in HistRows : Tells(r) => Tells(r)'
<1>1. /\ before' \in [Tasks -> [Paths -> {<< >>} \cup {<< x >> : x \in Held}]]
      /\ before'[t][p] = IF before[t][p] = << >> THEN << was >> ELSE before[t][p]
      /\ before'[t][p] # << >>
      /\ \A q \in Tasks, r \in Paths : q # t \/ r # p => before'[q][r] = before[q][r]
      /\ \A q \in Tasks, r \in Paths : \A x : before[q][r] = << x >> => before'[q][r] = << x >>
  BY TouchIs
<1>2. \A r \in HistRows : Tells(r) => Tells(r)'
  <2> SUFFICES ASSUME NEW r \in HistRows, Tells(r) PROVE Tells(r)'  OBVIOUS
  <2>1. r.task \in Tasks /\ r.path \in Paths  BY DEF HistRows
  <2>2. \A x : before[r.task][r.path] = << x >> => before'[r.task][r.path] = << x >>
    BY <1>1, <2>1, Zenon
  <2> QED  BY <2>2 DEF Tells, Content
<1>3. Range(hist) \subseteq HistRows  BY DEF FileTypes, Range
<1>4. CASE \E r \in Range(hist) : r.path = p /\ r.task = t
  <2>1. hist' = hist  BY <1>4 DEF Insert
  <2>2. \A r \in Range(hist') : Tells(r)'  BY <1>2, <1>3, <2>1 DEF TableInv
  <2>3. ASSUME NEW q \in Tasks, NEW r \in Paths
        PROVE  /\ before'[q][r] # << >> =>
                     unkept'[q][r] \/ \E x \in Range(hist') : x.task = q /\ x.path = r
               /\ origin'[q][r] # << >> => before'[q][r] # << >>
    <3>1. CASE q = t /\ r = p  BY <1>1, <1>4, <2>1, <3>1
    <3>2. CASE q # t \/ r # p
      <4>1. before'[q][r] = before[q][r] /\ origin'[q][r] = origin[q][r]  BY <1>1, <3>2
      <4> QED  BY <2>1, <4>1 DEF TableInv
    <3> QED  BY <3>1, <3>2
  <2>4. TableInv'  BY <2>2, <2>3 DEF TableInv
  <2> QED  BY <1>1, <1>2, <2>1, <2>4 DEF FileTypes
<1>5. CASE ~ \E r \in Range(hist) : r.path = p /\ r.task = t
  <2>1. hist' = Append(hist, row)  BY <1>5 DEF Insert
  <2>2. hist' \in Seq(HistRows) /\ Range(hist') = Range(hist) \cup {row}
    BY <2>1, MoreRange DEF FileTypes
  <2>3. Tells(row)'
    <3>1. before[t][p] # << >> => unkept[t][p]  BY <1>5 DEF TableInv
    <3>2. before[t][p] = << >> => before'[t][p] = << Content(row) >>  BY <1>1
    <3> QED  BY <3>1, <3>2 DEF Tells, Content
  <2>4. \A r \in Range(hist') : Tells(r)'  BY <1>2, <1>3, <2>2, <2>3 DEF TableInv
  <2>5. ASSUME NEW q \in Tasks, NEW r \in Paths
        PROVE  /\ before'[q][r] # << >> =>
                     unkept'[q][r] \/ \E x \in Range(hist') : x.task = q /\ x.path = r
               /\ origin'[q][r] # << >> => before'[q][r] # << >>
    <3>1. CASE q = t /\ r = p  BY <1>1, <2>2, <3>1
    <3>2. CASE q # t \/ r # p  BY <1>1, <2>2, <3>2 DEF TableInv
    <3> QED  BY <3>1, <3>2
  <2>6. TableInv'  BY <2>4, <2>5 DEF TableInv
  <2> QED  BY <1>1, <1>2, <2>2, <2>6
<1> QED  BY <1>4, <1>5

(* Nothing but a row that is known to be missing changes. *)
LEMMA RowMissed ==
    ASSUME FileTypes, TableInv, NEW t \in Tasks, NEW p \in Paths, NEW was \in Held,
           Touch(t, p, was), hist' = hist,
           unkept' \in [Tasks -> [Paths -> BOOLEAN]],
           \A q \in Tasks, r \in Paths : unkept[q][r] => unkept'[q][r],
           unkept'[t][p] \/ \E r \in Range(hist) : r.path = p /\ r.task = t,
           origin' \in [Tasks -> [Paths -> {<< >>} \cup {<< c >> : c \in Changes}]],
           \A q \in Tasks, r \in Paths : q # t \/ r # p => origin'[q][r] = origin[q][r]
    PROVE  /\ TableInv'
           /\ before' \in [Tasks -> [Paths -> {<< >>} \cup {<< x >> : x \in Held}]]
           /\ \A r \in HistRows : Tells(r) => Tells(r)'
<1>1. /\ before' \in [Tasks -> [Paths -> {<< >>} \cup {<< x >> : x \in Held}]]
      /\ before'[t][p] = IF before[t][p] = << >> THEN << was >> ELSE before[t][p]
      /\ before'[t][p] # << >>
      /\ \A q \in Tasks, r \in Paths : q # t \/ r # p => before'[q][r] = before[q][r]
      /\ \A q \in Tasks, r \in Paths : \A x : before[q][r] = << x >> => before'[q][r] = << x >>
  BY TouchIs
<1>2. \A r \in HistRows : Tells(r) => Tells(r)'
  <2> SUFFICES ASSUME NEW r \in HistRows, Tells(r) PROVE Tells(r)'  OBVIOUS
  <2>1. r.task \in Tasks /\ r.path \in Paths  BY DEF HistRows
  <2>2. \A x : before[r.task][r.path] = << x >> => before'[r.task][r.path] = << x >>
    BY <1>1, <2>1, Zenon
  <2> QED  BY <2>1, <2>2 DEF Tells, Content
<1>3. Range(hist) \subseteq HistRows  BY DEF FileTypes, Range
<1>4. \A r \in Range(hist') : Tells(r)'  BY <1>2, <1>3 DEF TableInv
<1>5. ASSUME NEW q \in Tasks, NEW r \in Paths
      PROVE  /\ before'[q][r] # << >> =>
                   unkept'[q][r] \/ \E x \in Range(hist') : x.task = q /\ x.path = r
             /\ origin'[q][r] # << >> => before'[q][r] # << >>
  <2>1. CASE q = t /\ r = p  BY <1>1, <2>1
  <2>2. CASE q # t \/ r # p
    <3>1. before'[q][r] = before[q][r] /\ origin'[q][r] = origin[q][r]  BY <1>1, <2>2
    <3>2. unkept[q][r] => unkept'[q][r]  OBVIOUS
    <3>3. /\ before[q][r] # << >> =>
                unkept[q][r] \/ \E x \in Range(hist) : x.task = q /\ x.path = r
          /\ origin[q][r] # << >> => before[q][r] # << >>
      BY DEF TableInv
    <3> QED  BY <3>1, <3>2, <3>3
  <2> QED  BY <2>1, <2>2
<1> QED  BY <1>1, <1>2, <1>4, <1>5 DEF TableInv

LEMMA NextIdNat == ASSUME FileTypes PROVE NextId \in Nat
<1>1. hist \in Seq(HistRows)  BY DEF FileTypes
<1>2. CASE hist = << >>  BY <1>2 DEF NextId
<1>3. CASE hist # << >>
  <2>1. Len(hist) \in 1 .. Len(hist)  BY <1>1, <1>3
  <2>2. hist[Len(hist)] \in HistRows  BY <1>1, <2>1
  <2> QED  BY <1>3, <2>2 DEF NextId, HistRows
<1> QED  BY <1>2, <1>3

LEMMA RecordStep ==
    ASSUME FileTypes, TableInv, NEW t \in Tasks, NEW p \in Paths, NEW was \in Held,
           NEW change \in Changes, Content(change) = was, Touch(t, p, was), Record(t, p, change)
    PROVE  /\ hist' \in Seq(HistRows) /\ TableInv'
           /\ before' \in [Tasks -> [Paths -> {<< >>} \cup {<< x >> : x \in Held}]]
           /\ unkept' \in [Tasks -> [Paths -> BOOLEAN]]
           /\ origin' \in [Tasks -> [Paths -> {<< >>} \cup {<< c >> : c \in Changes}]]
           /\ \A r \in HistRows : Tells(r) => Tells(r)'
<1> DEFINE c == RememberOrigin(t, p, change)
           row == Row(t, p, c)
<1>1. /\ origin' = [origin EXCEPT ![t][p] = << c >>]
      /\ hist' = IF Skipped(p, c) THEN hist ELSE Insert(hist, row)
      /\ unkept' = IF Skipped(p, c) /\ ~\E r \in Range(hist) : r.path = p /\ r.task = t
                   THEN [unkept EXCEPT ![t][p] = TRUE] ELSE unkept
  BY DEF Record
<1>2. c \in Changes /\ (before[t][p] = << >> => c = change)
  <2>1. origin[t][p] \in {<< >>} \cup {<< x >> : x \in Changes}  BY DEF FileTypes
  <2>2. before[t][p] = << >> => origin[t][p] = << >>  BY DEF TableInv
  <2>3. CASE origin[t][p] = << >>  BY <2>3 DEF RememberOrigin, Nothing
  <2>4. ASSUME NEW x \in Changes, origin[t][p] = << x >> PROVE c = x /\ before[t][p] # << >>
    <3>1. << x >> # << >> /\ << x >>[1] = x  OBVIOUS
    <3> QED  BY <2>2, <2>4, <3>1 DEF RememberOrigin, Nothing
  <2> QED  BY <2>1, <2>3, <2>4
<1>3. row \in HistRows /\ row.task = t /\ row.path = p /\ Content(row) = Content(c)
  BY <1>2, NextIdNat DEF Row, HistRows, Changes, Content
<1> HIDE DEF c, row
<1>4. /\ origin' \in [Tasks -> [Paths -> {<< >>} \cup {<< x >> : x \in Changes}]]
      /\ \A q \in Tasks, r \in Paths : q # t \/ r # p => origin'[q][r] = origin[q][r]
  BY <1>1, <1>2 DEF FileTypes
<1>5. CASE Skipped(p, c)
  <2>1. hist' = hist /\ hist \in Seq(HistRows)  BY <1>1, <1>5 DEF FileTypes
  <2>2. /\ unkept' \in [Tasks -> [Paths -> BOOLEAN]]
        /\ \A q \in Tasks, r \in Paths : unkept[q][r] => unkept'[q][r]
        /\ unkept'[t][p] \/ \E r \in Range(hist) : r.path = p /\ r.task = t
    BY <1>1, <1>5 DEF FileTypes
  <2> QED  BY <1>4, <2>1, <2>2, RowMissed
<1>6. CASE ~ Skipped(p, c)
  <2>1. hist' = Insert(hist, row) /\ unkept' = unkept /\ unkept \in [Tasks -> [Paths -> BOOLEAN]]
    BY <1>1, <1>6 DEF FileTypes
  <2>2. before[t][p] = << >> => Content(row) = was  BY <1>2, <1>3
  <2> QED  BY <1>3, <1>4, <2>1, <2>2, RowAdded
<1> QED  BY <1>5, <1>6

LEMMA RecordDeleteStep ==
    ASSUME FileTypes, TableInv, NEW t \in Tasks, NEW p \in Paths, NEW was \in Held,
           Touch(t, p, was), RecordDelete(t, p, was)
    PROVE  /\ hist' \in Seq(HistRows) /\ TableInv'
           /\ before' \in [Tasks -> [Paths -> {<< >>} \cup {<< x >> : x \in Held}]]
           /\ origin' = origin /\ unkept' = unkept
           /\ \A r \in HistRows : Tells(r) => Tells(r)'
<1> DEFINE row == Row(t, p, [action |-> "delete", text |-> was])
<1>1. row \in HistRows /\ row.task = t /\ row.path = p /\ Content(row) = was
  BY NextIdNat DEF Row, HistRows, Content
<1>2. hist' = Insert(hist, row) /\ origin' = origin /\ unkept' = unkept  BY DEF RecordDelete
<1> HIDE DEF row
<1>3. origin' \in [Tasks -> [Paths -> {<< >>} \cup {<< c >> : c \in Changes}]]
  BY <1>2 DEF FileTypes
<1> QED  BY <1>1, <1>2, <1>3, RowAdded

-----------------------------------------------------------------------------
(* Writes and marks. *)

LEMMA OvertakenIs ==
    ASSUME FileTypes, NEW p \in Paths
    PROVE  /\ Overtaken(p) \in [Tasks -> FileCalls]
           /\ \A t \in Tasks :
                 /\ Overtaken(p)[t].pc = tool[t].pc /\ Overtaken(p)[t].path = tool[t].path
                 /\ Overtaken(p)[t].todo = tool[t].todo /\ Overtaken(p)[t].text = tool[t].text
                 /\ Overtaken(p)[t].was = tool[t].was
                 /\ tool[t].path = << p >> => Overtaken(p)[t].stat # "fresh"
                 /\ tool[t].path # << p >> => Overtaken(p)[t] = tool[t]
<1> SUFFICES ASSUME NEW t \in Tasks
             PROVE  /\ Overtaken(p)[t] \in FileCalls
                    /\ Overtaken(p)[t].pc = tool[t].pc /\ Overtaken(p)[t].path = tool[t].path
                    /\ Overtaken(p)[t].todo = tool[t].todo /\ Overtaken(p)[t].text = tool[t].text
                    /\ Overtaken(p)[t].was = tool[t].was
                    /\ tool[t].path = << p >> => Overtaken(p)[t].stat # "fresh"
                    /\ tool[t].path # << p >> => Overtaken(p)[t] = tool[t]
  BY DEF Overtaken
<1>1. tool[t] \in FileCalls  BY DEF FileTypes
<1>2. Overtaken(p)[t] = IF tool[t].path = << p >> THEN [tool[t] EXCEPT !.stat = Old(tool[t].stat)]
                        ELSE tool[t]
  BY DEF Overtaken
<1>3. Old(tool[t].stat) \in {"none", "fresh", "stale"} /\ Old(tool[t].stat) # "fresh"
  BY <1>1 DEF Old, FileCalls
<1> QED  BY <1>1, <1>2, <1>3 DEF FileCalls

(* A write leaves no mark fresh and nobody but who made it knowing the file. *)
LEMMA WriteSeen ==
    ASSUME FileTypes, SeenInv, NEW p \in Paths, NEW text \in Held, NEW who,
           Write(p, text), mark' = Stale(p), known' = KnownTo(who, p), misdated' = misdated,
           \A t \in Tasks : tool'[t].pc = "written" /\ tool'[t].stat = "fresh" =>
               \/ tool'[t].path = << p >> /\ t \in who
               \/ tool'[t].path # << p >> /\ tool'[t] = tool[t]
    PROVE  /\ SeenInv' /\ disk' \in [Paths -> Held]
           /\ mark' \in [Tasks -> [Paths -> {"none", "fresh", "stale"}]]
           /\ known' \in [Tasks -> [Paths -> BOOLEAN]]
           /\ disk'[p] = text /\ \A r \in Paths \ {p} : disk'[r] = disk[r]
<1>1. /\ disk' \in [Paths -> Held] /\ disk'[p] = text /\ \A r \in Paths \ {p} : disk'[r] = disk[r]
  BY DEF Write, FileTypes
<1>2. \A t \in Tasks : /\ mark'[t] = [mark[t] EXCEPT ![p] = Old(mark[t][p])]
                       /\ known'[t] = [known[t] EXCEPT ![p] = t \in who]
                       /\ mark[t] \in [Paths -> {"none", "fresh", "stale"}]
                       /\ known[t] \in [Paths -> BOOLEAN]
  BY DEF Stale, KnownTo, FileTypes
<1>3. ASSUME NEW t \in Tasks
      PROVE  /\ mark'[t] \in [Paths -> {"none", "fresh", "stale"}] /\ mark'[t][p] # "fresh"
             /\ known'[t] \in [Paths -> BOOLEAN] /\ known'[t][p] = (t \in who)
             /\ \A r \in Paths \ {p} : mark'[t][r] = mark[t][r] /\ known'[t][r] = known[t][r]
  <2>1. Old(mark[t][p]) \in {"none", "fresh", "stale"} /\ Old(mark[t][p]) # "fresh"
    BY <1>2 DEF Old
  <2> PICK o : o = Old(mark[t][p])  OBVIOUS
  <2>2. mark'[t] \in [Paths -> {"none", "fresh", "stale"}] /\ mark'[t][p] # "fresh"
        /\ \A r \in Paths \ {p} : mark'[t][r] = mark[t][r]
    <3>1. mark'[t] = [mark[t] EXCEPT ![p] = o] /\ o \in {"none", "fresh", "stale"} /\ o # "fresh"
      BY <1>2, <2>1
    <3>2. mark[t] \in [Paths -> {"none", "fresh", "stale"}]  BY <1>2
    <3> QED  BY <3>1, <3>2
  <2> PICK b : b = (t \in who)  OBVIOUS
  <2>3. b \in BOOLEAN  OBVIOUS
  <2>4. known'[t] \in [Paths -> BOOLEAN] /\ known'[t][p] = b
        /\ \A r \in Paths \ {p} : known'[t][r] = known[t][r]
    <3>1. known'[t] = [known[t] EXCEPT ![p] = b]  BY <1>2
    <3>2. known[t] \in [Paths -> BOOLEAN]  BY <1>2
    <3> QED  BY <2>3, <3>1, <3>2
  <2> QED  BY <2>2, <2>4
<1>4. mark' = [t \in Tasks |-> mark'[t]] /\ known' = [t \in Tasks |-> known'[t]]
  BY DEF Stale, KnownTo
<1>5. mark' \in [Tasks -> [Paths -> {"none", "fresh", "stale"}]]  BY <1>3, <1>4
<1>6. known' \in [Tasks -> [Paths -> BOOLEAN]]  BY <1>3, <1>4
<1>7. ASSUME NEW t \in Tasks, NEW r \in Paths
      PROVE  /\ disk'[r] # Absent /\ mark'[t][r] = "fresh" /\ ~misdated[t][r] => known'[t][r]
             /\ tool'[t].pc = "written" /\ tool'[t].path = << r >> /\ tool'[t].stat = "fresh" =>
                   known'[t][r]
  <2>1. CASE r = p  BY <1>3, <2>1
  <2>2. CASE r # p
    <3>1. mark'[t][r] = mark[t][r] /\ known'[t][r] = known[t][r] /\ disk'[r] = disk[r]
      BY <1>1, <1>3, <2>2
    <3>2. tool'[t].path = << r >> => tool'[t].path # << p >>  BY <2>2
    <3> QED  BY <3>1, <3>2 DEF SeenInv
  <2> QED  BY <2>1, <2>2
<1> QED  BY <1>1, <1>5, <1>6, <1>7 DEF SeenInv

-----------------------------------------------------------------------------
(* What a step leaves alone. *)

LEMMA TodoKept ==
    ASSUME TodoInv,
           \A t \in Tasks : \/ /\ tool'[t].pc = tool[t].pc /\ tool'[t].path = tool[t].path
                               /\ tool'[t].todo = tool[t].todo
                            \/ TodoOK(t)'
    PROVE  TodoInv'
<1> SUFFICES ASSUME NEW t \in Tasks PROVE TodoOK(t)'  BY DEF TodoInv
<1>1. TodoOK(t)  BY DEF TodoInv
<1> QED  BY <1>1 DEF TodoOK

LEMMA NoCallIs == NoCall \in FileCalls /\ NoCall.pc = "idle" /\ NoCall.path = << >>
                  /\ NoCall.todo = << >>
<1> PICK none : none = << >>  OBVIOUS
<1>1. NoCall = [pc |-> "idle", path |-> none, text |-> Absent, was |-> Absent,
                stat |-> "none", todo |-> none]
  BY DEF NoCall, Nothing
<1>2. none \in Seq(Nat)  OBVIOUS
<1>3. NoCall \in FileCalls  BY <1>1, <1>2 DEF FileCalls, Held
<1>4. NoCall.pc = "idle" /\ NoCall.path = none /\ NoCall.todo = none  BY <1>1
<1> QED  BY <1>3, <1>4

(* Task t's call moves, and the files and their history stay. *)
LEMMA CallOnly ==
    ASSUME FilesInv, NEW t \in Tasks, NEW x \in FileCalls, x.pc # "written",
           tool' = [tool EXCEPT ![t] = x],
           UNCHANGED << disk, hist, origin, mark, known, misdated, before, unkept >>,
           x.pc \in {"idle", "undo"} => x.path = << >>, x.pc = "undo" => x.todo # << >>
    PROVE  FilesInv'
<1>0. FileTypes /\ TableInv /\ TodoInv /\ SeenInv  BY DEF FilesInv
<1>1. /\ tool' \in [Tasks -> FileCalls] /\ tool'[t] = x
      /\ \A q \in Tasks \ {t} : tool'[q] = tool[q]
  BY <1>0 DEF FileTypes
<1>2. FileTypes'  BY <1>0, <1>1 DEF FileTypes
<1>3. \A r : Tells(r) => Tells(r)'  BY DEF Tells
<1>4. TableInv'  BY <1>0, <1>3 DEF TableInv
<1>5. TodoInv'
  <2>1. TodoOK(t)'  BY <1>1 DEF TodoOK
  <2>2. \A q \in Tasks \ {t} : /\ tool'[q].pc = tool[q].pc /\ tool'[q].path = tool[q].path
                               /\ tool'[q].todo = tool[q].todo
    BY <1>1
  <2>3. \A q \in Tasks : q = t \/ q \in Tasks \ {t}  OBVIOUS
  <2> QED  BY <1>0, <1>3, <2>1, <2>2, <2>3, TodoKept
<1>6. SeenInv'  BY <1>0, <1>1 DEF SeenInv
<1> QED  BY <1>2, <1>4, <1>5, <1>6 DEF FilesInv

LEMMA FilesStay ==
    ASSUME FilesInv, UNCHANGED << disk, hist, origin, mark, tool, known, misdated, before, unkept >>
    PROVE  FilesInv'
<1>0. FileTypes /\ TableInv /\ TodoInv /\ SeenInv  BY DEF FilesInv
<1>1. FileTypes'  BY <1>0 DEF FileTypes
<1>2. \A r : Tells(r) => Tells(r)'  BY DEF Tells
<1>3. TableInv'  BY <1>0, <1>2 DEF TableInv
<1>4. TodoInv'
  <2>1. \A q \in Tasks : /\ tool'[q].pc = tool[q].pc /\ tool'[q].path = tool[q].path
                         /\ tool'[q].todo = tool[q].todo
    OBVIOUS
  <2> QED  BY <1>0, <1>2, <2>1, TodoKept
<1>5. SeenInv'  BY <1>0 DEF SeenInv
<1> QED  BY <1>1, <1>3, <1>4, <1>5 DEF FilesInv

-----------------------------------------------------------------------------
(* Reads and edits. *)

LEMMA StartsKeepFiles ==
    ASSUME FilesInv, NEW t \in Tasks, NEW p \in Paths,
           Grant(t, p) \/ ReadStat(t, p) \/ \E text \in Texts : BeginEdit(t, p, text)
    PROVE  FilesInv'
<1>0. FileTypes  BY DEF FilesInv
<1>1. CASE Grant(t, p)  BY <1>1, FilesStay DEF Grant
<1>2. CASE ReadStat(t, p)
  <2> DEFINE x == [NoCall EXCEPT !.pc = "read", !.path = << p >>, !.stat = "fresh"]
  <2>1. x \in FileCalls /\ x.pc = "read"
    BY NoCallIs DEF FileCalls
  <2>2. tool' = [tool EXCEPT ![t] = x]
        /\ UNCHANGED << disk, hist, origin, mark, known, misdated, before, unkept >>
    BY <1>2 DEF ReadStat
  <2> HIDE DEF x
  <2> QED  BY <2>1, <2>2, CallOnly
<1>3. ASSUME NEW text \in Texts, BeginEdit(t, p, text) PROVE FilesInv'
  <2> DEFINE x == [NoCall EXCEPT !.pc = "write", !.path = << p >>, !.text = text, !.was = disk[p]]
  <2>1. x \in FileCalls /\ x.pc = "write"
    BY <1>0, NoCallIs DEF FileCalls, FileTypes, Held
  <2>2. tool' = [tool EXCEPT ![t] = x]
        /\ UNCHANGED << disk, hist, origin, mark, known, misdated, before, unkept >>
    BY <1>3 DEF BeginEdit
  <2> HIDE DEF x
  <2> QED  BY <2>1, <2>2, CallOnly
<1> QED  BY <1>1, <1>2, <1>3

LEMMA UndoStartsKeepFiles ==
    ASSUME FilesInv, NEW t \in Tasks, UndoStart(t)
    PROVE  FilesInv'
<1>0. FileTypes /\ TableInv  BY DEF FilesInv
<1>1. PICK task \in Tasks, within \in {Paths} \cup {{p} : p \in Paths} :
          LET rows == RowsOf(task, within)
          IN /\ rows # << >>
             /\ tool' = [tool EXCEPT ![t] =
                   [NoCall EXCEPT !.pc = "undo",
                                  !.todo = [i \in 1 .. Len(rows) |-> rows[i].id]]]
  BY DEF UndoStart
<1> DEFINE rows == RowsOf(task, within)
           ids == [i \in 1 .. Len(rows) |-> rows[i].id]
           x == [NoCall EXCEPT !.pc = "undo", !.todo = ids]
<1>2. rows \in Seq(HistRows)
  <2>1. hist \in Seq(HistRows)  BY <1>0 DEF FileTypes
  <2>2. {i \in DOMAIN hist : hist[i].task = task /\ hist[i].path \in within} \subseteq DOMAIN hist
    OBVIOUS
  <2> QED  BY <2>1, <2>2, PickRange DEF RowsOf
<1>3. /\ tool' = [tool EXCEPT ![t] = x] /\ rows # << >>
      /\ UNCHANGED << disk, hist, origin, mark, known, misdated, before, unkept >>
  BY <1>1 DEF UndoStart
<1> HIDE DEF rows
<1>4. ids \in Seq(Nat) /\ ids # << >>
  <2>1. Len(rows) \in Nat /\ Len(rows) # 0 /\ \A i \in 1 .. Len(rows) : rows[i] \in HistRows
    BY <1>2, <1>3
  <2>2. \A i \in 1 .. Len(rows) : rows[i].id \in Nat  BY <2>1 DEF HistRows
  <2>3. ids \in [1 .. Len(rows) -> Nat]  BY <2>2
  <2>4. ids \in Seq(Nat)  BY <2>1, <2>3, SeqDef
  <2>5. Len(ids) = Len(rows)  BY <2>1
  <2> QED  BY <2>1, <2>4, <2>5
<1> HIDE DEF ids
<1>5. x \in FileCalls /\ x.pc = "undo" /\ x.path = << >> /\ x.todo = ids
  BY <1>4, NoCallIs DEF FileCalls
<1> HIDE DEF x
<1> QED  BY <1>3, <1>4, <1>5, CallOnly

LEMMA ReadsKeepFiles ==
    ASSUME FilesInv, NEW t \in Tasks, NEW p \in Paths, ReadContent(t, p)
    PROVE  FilesInv'
<1>0. FileTypes /\ TableInv /\ TodoInv /\ SeenInv  BY DEF FilesInv
<1>1. /\ tool' = [tool EXCEPT ![t] = NoCall]
      /\ UNCHANGED << disk, hist, origin, before, unkept >>
      /\ IF disk[p] = Absent THEN UNCHANGED << mark, known, misdated >>
         ELSE /\ mark' = [mark EXCEPT ![t][p] = tool[t].stat]
              /\ known' = [known EXCEPT ![t][p] = TRUE]
              /\ misdated' = [misdated EXCEPT ![t][p] = FALSE]
  BY DEF ReadContent
<1>2. /\ tool' \in [Tasks -> FileCalls] /\ tool'[t] = NoCall
      /\ \A q \in Tasks \ {t} : tool'[q] = tool[q]
  BY <1>0, <1>1, NoCallIs DEF FileTypes
<1>3. CASE disk[p] = Absent
  <2>1. UNCHANGED << mark, known, misdated >>  BY <1>1, <1>3
  <2> QED  BY <1>1, <2>1, NoCallIs, CallOnly
<1>4. CASE disk[p] # Absent
  <2>0. tool[t].stat \in {"none", "fresh", "stale"}  BY <1>0 DEF FileTypes, FileCalls
  <2>1. /\ mark' \in [Tasks -> [Paths -> {"none", "fresh", "stale"}]]
        /\ \A q \in Tasks, r \in Paths : q # t \/ r # p => mark'[q][r] = mark[q][r]
    <3> PICK s \in {"none", "fresh", "stale"} : s = tool[t].stat  BY <2>0
    <3>1. mark' = [mark EXCEPT ![t][p] = s]  BY <1>1, <1>4
    <3>2. mark \in [Tasks -> [Paths -> {"none", "fresh", "stale"}]]  BY <1>0 DEF FileTypes
    <3> QED  BY <3>1, <3>2, CellSet
  <2>2. /\ known' \in [Tasks -> [Paths -> BOOLEAN]] /\ known'[t][p]
        /\ \A q \in Tasks, r \in Paths : q # t \/ r # p => known'[q][r] = known[q][r]
    <3>1. known' = [known EXCEPT ![t][p] = TRUE]  BY <1>1, <1>4
    <3>2. known \in [Tasks -> [Paths -> BOOLEAN]]  BY <1>0 DEF FileTypes
    <3>3. /\ known' \in [Tasks -> [Paths -> BOOLEAN]]
          /\ \A q \in Tasks, r \in Paths : q # t \/ r # p => known'[q][r] = known[q][r]
      BY <3>1, <3>2, SeenCell
    <3>4. known'[t][p]  BY <3>1, <3>2
    <3> QED  BY <3>3, <3>4
  <2>3. /\ misdated' \in [Tasks -> [Paths -> BOOLEAN]]
        /\ \A q \in Tasks, r \in Paths : q # t \/ r # p => misdated'[q][r] = misdated[q][r]
    <3> PICK b \in BOOLEAN : b = FALSE  OBVIOUS
    <3>1. misdated' = [misdated EXCEPT ![t][p] = b]  BY <1>1, <1>4
    <3>2. misdated \in [Tasks -> [Paths -> BOOLEAN]]  BY <1>0 DEF FileTypes
    <3>3. /\ misdated' \in [Tasks -> [Paths -> BOOLEAN]] /\ misdated'[t][p] = b
          /\ \A q \in Tasks, r \in Paths : q # t \/ r # p => misdated'[q][r] = misdated[q][r]
      BY <3>1, <3>2, CellSet
    <3> QED  BY <3>3
  <2>4. FileTypes'  BY <1>0, <1>1, <1>2, <2>1, <2>2, <2>3 DEF FileTypes
  <2>5. \A r : Tells(r) => Tells(r)'  BY <1>1 DEF Tells
  <2>6. TableInv'  BY <1>0, <1>1, <2>5 DEF TableInv
  <2>7. TodoInv'
    <3>1. TodoOK(t)'  BY <1>2, NoCallIs DEF TodoOK
    <3>2. \A q \in Tasks : q = t \/ q \in Tasks \ {t}  OBVIOUS
    <3> QED  BY <1>0, <1>2, <2>5, <3>1, <3>2, TodoKept
  <2>8. ASSUME NEW q \in Tasks, NEW r \in Paths
        PROVE  /\ disk'[r] # Absent /\ mark'[q][r] = "fresh" /\ ~misdated'[q][r] => known'[q][r]
               /\ tool'[q].pc = "written" /\ tool'[q].path = << r >> /\ tool'[q].stat = "fresh" =>
                     known'[q][r]
    <3>1. CASE q = t /\ r = p  BY <2>2, <3>1
    <3>2. CASE q # t \/ r # p
      <4>1. /\ mark'[q][r] = mark[q][r] /\ known'[q][r] = known[q][r]
            /\ misdated'[q][r] = misdated[q][r] /\ disk' = disk
        BY <1>1, <2>1, <2>2, <2>3, <3>2
      <4>2. tool'[q].pc = "written" => tool'[q] = tool[q]  BY <1>2, NoCallIs
      <4> QED  BY <1>0, <4>1, <4>2 DEF SeenInv
    <3> QED  BY <3>1, <3>2
  <2>9. SeenInv'  BY <2>8 DEF SeenInv
  <2> QED  BY <2>4, <2>6, <2>7, <2>9 DEF FilesInv
<1> QED  BY <1>3, <1>4

LEMMA WritesKeepFiles ==
    ASSUME FilesInv, NEW t \in Tasks, NEW p \in Paths, WriteFile(t, p)
    PROVE  FilesInv'
<1>0. FileTypes /\ TableInv /\ TodoInv /\ SeenInv  BY DEF FilesInv
<1>1. /\ tool[t].pc = "write" /\ tool[t].path = << p >> /\ Write(p, tool[t].text)
      /\ mark' = Stale(p) /\ known' = KnownTo({t}, p)
      /\ tool' = [Overtaken(p) EXCEPT ![t].pc = "written", ![t].stat = "fresh"]
      /\ UNCHANGED << hist, origin, misdated, before, unkept >>
  BY DEF WriteFile
<1> DEFINE overtaken == Overtaken(p)
<1>2. /\ overtaken \in [Tasks -> FileCalls]
      /\ \A q \in Tasks :
            /\ overtaken[q].pc = tool[q].pc /\ overtaken[q].path = tool[q].path
            /\ overtaken[q].todo = tool[q].todo
            /\ tool[q].path = << p >> => overtaken[q].stat # "fresh"
            /\ tool[q].path # << p >> => overtaken[q] = tool[q]
  BY <1>0, OvertakenIs
<1> HIDE DEF overtaken
<1>3. tool' = [overtaken EXCEPT ![t] = [overtaken[t] EXCEPT !.pc = "written", !.stat = "fresh"]]
  BY <1>1 DEF overtaken
<1>4. /\ tool' \in [Tasks -> FileCalls] /\ \A q \in Tasks \ {t} : tool'[q] = overtaken[q]
      /\ tool'[t].pc = "written" /\ tool'[t].path = << p >> /\ tool'[t].todo = tool[t].todo
  <2>1. [overtaken[t] EXCEPT !.pc = "written", !.stat = "fresh"] \in FileCalls  BY <1>2 DEF FileCalls
  <2>2. overtaken[t].path = << p >> /\ overtaken[t].todo = tool[t].todo /\ overtaken[t] \in FileCalls  BY <1>1, <1>2
  <2> QED  BY <1>2, <1>3, <2>1, <2>2 DEF FileCalls
<1>5. tool[t].text \in Held  BY <1>0 DEF FileTypes, FileCalls
<1>6. \A q \in Tasks : tool'[q].pc = "written" /\ tool'[q].stat = "fresh" =>
          \/ tool'[q].path = << p >> /\ q \in {t}
          \/ tool'[q].path # << p >> /\ tool'[q] = tool[q]
  BY <1>2, <1>4
<1>7. /\ SeenInv' /\ disk' \in [Paths -> Held]
      /\ mark' \in [Tasks -> [Paths -> {"none", "fresh", "stale"}]]
      /\ known' \in [Tasks -> [Paths -> BOOLEAN]]
  <2> PICK text \in Held : text = tool[t].text  BY <1>5
  <2>1. Write(p, text) /\ mark' = Stale(p) /\ known' = KnownTo({t}, p) /\ misdated' = misdated
    BY <1>1
  <2> QED  BY <1>0, <1>6, <2>1, WriteSeen
<1>8. FileTypes'  BY <1>0, <1>1, <1>4, <1>7 DEF FileTypes
<1>9. \A r : Tells(r) => Tells(r)'  BY <1>1 DEF Tells
<1>10. TableInv'  BY <1>0, <1>1, <1>9 DEF TableInv
<1>11. TodoInv'
  <2>1. TodoOK(t)'  BY <1>4 DEF TodoOK
  <2>2. \A q \in Tasks \ {t} : /\ tool'[q].pc = tool[q].pc /\ tool'[q].path = tool[q].path
                               /\ tool'[q].todo = tool[q].todo
    BY <1>2, <1>4
  <2>3. \A q \in Tasks : q = t \/ q \in Tasks \ {t}  OBVIOUS
  <2> QED  BY <1>0, <1>9, <2>1, <2>2, <2>3, TodoKept
<1> QED  BY <1>7, <1>8, <1>10, <1>11 DEF FilesInv

LEMMA WrittensKeepFiles ==
    ASSUME FilesInv, NEW t \in Tasks, NEW p \in Paths, Written(t, p)
    PROVE  FilesInv'
<1>0. FileTypes /\ TableInv /\ TodoInv /\ SeenInv  BY DEF FilesInv
<1>1. /\ tool[t].pc = "written" /\ tool[t].path = << p >> /\ tool' = [tool EXCEPT ![t] = NoCall]
      /\ IF disk[p] = Absent \/ p \in SkillPaths THEN UNCHANGED << mark, misdated >>
         ELSE /\ mark' = [mark EXCEPT ![t][p] = "fresh"]
              /\ misdated' = [misdated EXCEPT ![t][p] = tool[t].stat # "fresh"]
      /\ Record(t, p, Capture(tool[t].was, tool[t].text)) /\ Touch(t, p, tool[t].was)
      /\ UNCHANGED << disk, known >>
  BY DEF Written
<1>2. /\ tool' \in [Tasks -> FileCalls] /\ tool'[t] = NoCall
      /\ \A q \in Tasks \ {t} : tool'[q] = tool[q]
  BY <1>0, <1>1, NoCallIs DEF FileTypes
<1>3. /\ hist' \in Seq(HistRows) /\ TableInv'
      /\ before' \in [Tasks -> [Paths -> {<< >>} \cup {<< x >> : x \in Held}]]
      /\ unkept' \in [Tasks -> [Paths -> BOOLEAN]]
      /\ origin' \in [Tasks -> [Paths -> {<< >>} \cup {<< c >> : c \in Changes}]]
      /\ \A r \in HistRows : Tells(r) => Tells(r)'
  <2>1. tool[t].was \in Held /\ tool[t].text \in Held  BY <1>0 DEF FileTypes, FileCalls
  <2>2. Capture(tool[t].was, tool[t].text) \in Changes  BY <2>1 DEF Capture, Changes, Held
  <2> PICK was \in Held, change \in Changes :
          was = tool[t].was /\ change = Capture(tool[t].was, tool[t].text)
    BY <2>1, <2>2
  <2>3. Content(change) = was  BY <2>1 DEF Capture, Content
  <2> QED  BY <1>0, <1>1, <2>3, RecordStep
<1>4. /\ mark' \in [Tasks -> [Paths -> {"none", "fresh", "stale"}]]
      /\ misdated' \in [Tasks -> [Paths -> BOOLEAN]]
      /\ \A q \in Tasks, r \in Paths : q # t \/ r # p =>
            mark'[q][r] = mark[q][r] /\ misdated'[q][r] = misdated[q][r]
      /\ \/ mark'[t][p] = mark[t][p] /\ misdated'[t][p] = misdated[t][p]
         \/ misdated'[t][p] \/ tool[t].stat = "fresh"
  <2>1. CASE disk[p] = Absent \/ p \in SkillPaths
    <3>1. UNCHANGED << mark, misdated >>  BY <1>1, <2>1
    <3> QED  BY <1>0, <3>1 DEF FileTypes
  <2>2. CASE ~ (disk[p] = Absent \/ p \in SkillPaths)
    <3> PICK b \in BOOLEAN : b = (tool[t].stat # "fresh")  OBVIOUS
    <3>1. misdated' = [misdated EXCEPT ![t][p] = b]  BY <1>1, <2>2
    <3>2. mark' = [mark EXCEPT ![t][p] = "fresh"] /\ "fresh" \in {"none", "fresh", "stale"}
      BY <1>1, <2>2
    <3>3. /\ mark \in [Tasks -> [Paths -> {"none", "fresh", "stale"}]]
          /\ misdated \in [Tasks -> [Paths -> BOOLEAN]]
      BY <1>0 DEF FileTypes
    <3>4. /\ mark' \in [Tasks -> [Paths -> {"none", "fresh", "stale"}]]
          /\ \A q \in Tasks, r \in Paths : q # t \/ r # p => mark'[q][r] = mark[q][r]
      BY <3>2, <3>3, CellSet
    <3>5. /\ misdated' \in [Tasks -> [Paths -> BOOLEAN]] /\ misdated'[t][p] = b
          /\ \A q \in Tasks, r \in Paths : q # t \/ r # p => misdated'[q][r] = misdated[q][r]
      BY <3>1, <3>3, CellSet
    <3> QED  BY <3>4, <3>5
  <2> QED  BY <2>1, <2>2
<1>5. FileTypes'  BY <1>0, <1>1, <1>2, <1>3, <1>4 DEF FileTypes
<1>6. TodoInv'
  <2>1. TodoOK(t)'  BY <1>2, NoCallIs DEF TodoOK
  <2>2. \A q \in Tasks : q = t \/ q \in Tasks \ {t}  OBVIOUS
  <2> QED  BY <1>0, <1>2, <1>3, <2>1, <2>2, TodoKept
<1>7. ASSUME NEW q \in Tasks, NEW r \in Paths
      PROVE  /\ disk'[r] # Absent /\ mark'[q][r] = "fresh" /\ ~misdated'[q][r] => known'[q][r]
             /\ tool'[q].pc = "written" /\ tool'[q].path = << r >> /\ tool'[q].stat = "fresh" =>
                   known'[q][r]
  <2>1. tool'[q].pc = "written" => tool'[q] = tool[q]  BY <1>2, NoCallIs
  <2>2. CASE q = t /\ r = p
    <3>1. tool[t].stat = "fresh" => known[t][p]  BY <1>0, <1>1 DEF SeenInv
    <3> QED  BY <1>0, <1>1, <1>2, <1>4, <2>2, <3>1, NoCallIs DEF SeenInv
  <2>3. CASE q # t \/ r # p  BY <1>0, <1>1, <1>4, <2>1, <2>3 DEF SeenInv
  <2> QED  BY <2>2, <2>3
<1>8. SeenInv'  BY <1>7 DEF SeenInv
<1> QED  BY <1>3, <1>5, <1>6, <1>8 DEF FilesInv

(* A write that goes by no call of its own: the other calls are overtaken. *)
LEMMA OvertakesKeepFiles ==
    ASSUME FilesInv, NEW p \in Paths, NEW text \in Held, Write(p, text), mark' = Stale(p),
           known' = KnownTo({}, p), misdated' = misdated, tool' = Overtaken(p),
           hist' \in Seq(HistRows), TableInv',
           before' \in [Tasks -> [Paths -> {<< >>} \cup {<< x >> : x \in Held}]],
           unkept' \in [Tasks -> [Paths -> BOOLEAN]],
           origin' \in [Tasks -> [Paths -> {<< >>} \cup {<< c >> : c \in Changes}]],
           \A r \in HistRows : Tells(r) => Tells(r)'
    PROVE  FilesInv'
<1>0. FileTypes /\ TableInv /\ TodoInv /\ SeenInv  BY DEF FilesInv
<1>1. /\ tool' \in [Tasks -> FileCalls]
      /\ \A q \in Tasks :
            /\ tool'[q].pc = tool[q].pc /\ tool'[q].path = tool[q].path
            /\ tool'[q].todo = tool[q].todo
            /\ tool[q].path = << p >> => tool'[q].stat # "fresh"
            /\ tool[q].path # << p >> => tool'[q] = tool[q]
  <2> DEFINE overtaken == Overtaken(p)
  <2>1. /\ overtaken \in [Tasks -> FileCalls]
        /\ \A q \in Tasks :
              /\ overtaken[q].pc = tool[q].pc /\ overtaken[q].path = tool[q].path
              /\ overtaken[q].todo = tool[q].todo
              /\ tool[q].path = << p >> => overtaken[q].stat # "fresh"
              /\ tool[q].path # << p >> => overtaken[q] = tool[q]
    BY <1>0, OvertakenIs
  <2>2. tool' = overtaken  OBVIOUS
  <2> HIDE DEF overtaken
  <2> QED  BY <2>1, <2>2
<1>2. \A q \in Tasks : tool'[q].pc = "written" /\ tool'[q].stat = "fresh" =>
          \/ tool'[q].path = << p >> /\ q \in {}
          \/ tool'[q].path # << p >> /\ tool'[q] = tool[q]
  BY <1>1
<1>3. /\ SeenInv' /\ disk' \in [Paths -> Held]
      /\ mark' \in [Tasks -> [Paths -> {"none", "fresh", "stale"}]]
      /\ known' \in [Tasks -> [Paths -> BOOLEAN]]
  BY <1>0, <1>2, WriteSeen
<1>4. FileTypes'  BY <1>0, <1>1, <1>3 DEF FileTypes
<1>5. TodoInv'  BY <1>0, <1>1, TodoKept
<1> QED  BY <1>3, <1>4, <1>5 DEF FilesInv

LEMMA RemovesKeepFiles ==
    ASSUME FilesInv, NEW t \in Tasks, NEW p \in Paths, RemoveToTrash(t, p)
    PROVE  FilesInv'
<1>0. FileTypes /\ TableInv  BY DEF FilesInv
<1>1. /\ Write(p, Absent) /\ mark' = Stale(p) /\ known' = KnownTo({}, p) /\ misdated' = misdated
      /\ tool' = Overtaken(p) /\ RecordDelete(t, p, disk[p]) /\ Touch(t, p, disk[p])
  BY DEF RemoveToTrash
<1>2. disk[p] \in Held /\ Absent \in Held  BY <1>0 DEF FileTypes, Held
<1>3. /\ hist' \in Seq(HistRows) /\ TableInv'
      /\ before' \in [Tasks -> [Paths -> {<< >>} \cup {<< x >> : x \in Held}]]
      /\ origin' = origin /\ unkept' = unkept
      /\ \A r \in HistRows : Tells(r) => Tells(r)'
  <2> PICK was \in Held : was = disk[p]  BY <1>2
  <2>1. RecordDelete(t, p, was) /\ Touch(t, p, was)  BY <1>1
  <2> QED  BY <1>0, <2>1, RecordDeleteStep
<1>4. /\ unkept' \in [Tasks -> [Paths -> BOOLEAN]]
      /\ origin' \in [Tasks -> [Paths -> {<< >>} \cup {<< c >> : c \in Changes}]]
  BY <1>0, <1>3 DEF FileTypes
<1> QED  BY <1>1, <1>2, <1>3, <1>4, OvertakesKeepFiles

LEMMA HandsKeepFiles ==
    ASSUME FilesInv, NEW p \in Paths, NEW text \in Texts, ByHand(p, text)
    PROVE  FilesInv'
<1>0. FileTypes /\ TableInv  BY DEF FilesInv
<1>1. /\ Write(p, text) /\ mark' = Stale(p) /\ known' = KnownTo({}, p) /\ misdated' = misdated
      /\ tool' = Overtaken(p) /\ UNCHANGED << hist, origin, before, unkept >>
  BY DEF ByHand
<1>2. \A r : Tells(r) => Tells(r)'  BY <1>1 DEF Tells
<1>3. TableInv'  BY <1>0, <1>1, <1>2 DEF TableInv
<1>4. /\ hist' \in Seq(HistRows) /\ text \in Held
      /\ before' \in [Tasks -> [Paths -> {<< >>} \cup {<< x >> : x \in Held}]]
      /\ unkept' \in [Tasks -> [Paths -> BOOLEAN]]
      /\ origin' \in [Tasks -> [Paths -> {<< >>} \cup {<< c >> : c \in Changes}]]
  BY <1>0, <1>1 DEF FileTypes, Held
<1> QED  BY <1>1, <1>2, <1>3, <1>4, OvertakesKeepFiles

-----------------------------------------------------------------------------
(* Restoring. *)

LEMMA CallsAfterIs ==
    ASSUME FileTypes, NEW row \in HistRows
    PROVE  /\ CallsAfter(row) \in [Tasks -> FileCalls]
           /\ \A q \in Tasks :
                 /\ CallsAfter(row)[q].pc = tool[q].pc /\ CallsAfter(row)[q].path = tool[q].path
                 /\ CallsAfter(row)[q].todo = tool[q].todo
                 /\ tool[q].path # << row.path >> => CallsAfter(row)[q] = tool[q]
<1>1. row.path \in Paths  BY DEF HistRows
<1>2. CASE RestoreBlock(row) \/ NothingToDo(row)  BY <1>2 DEF CallsAfter, FileTypes
<1>3. CASE ~ (RestoreBlock(row) \/ NothingToDo(row))
  <2>1. CallsAfter(row) = Overtaken(row.path)  BY <1>3 DEF CallsAfter
  <2> QED  BY <1>1, <2>1, OvertakenIs
<1> QED  BY <1>2, <1>3

LEMMA RestoreStep ==
    ASSUME FilesInv, NEW t \in Tasks, NEW row \in HistRows, Restore(t, row), misdated' = misdated,
           \A q \in Tasks : tool'[q].pc = "written" => tool'[q] = CallsAfter(row)[q]
    PROVE  /\ disk' \in [Paths -> Held] /\ hist' \in Seq(HistRows)
           /\ origin' \in [Tasks -> [Paths -> {<< >>} \cup {<< c >> : c \in Changes}]]
           /\ mark' \in [Tasks -> [Paths -> {"none", "fresh", "stale"}]]
           /\ known' \in [Tasks -> [Paths -> BOOLEAN]]
           /\ before' \in [Tasks -> [Paths -> {<< >>} \cup {<< x >> : x \in Held}]]
           /\ unkept' \in [Tasks -> [Paths -> BOOLEAN]]
           /\ TableInv' /\ SeenInv' /\ \A r \in HistRows : Tells(r) => Tells(r)'
           /\ ~ RestoreBlock(row) => disk'[row.path] = Content(row)
<1>0. FileTypes /\ TableInv /\ SeenInv  BY DEF FilesInv
<1> DEFINE p == row.path
           text == IF row.action = "create" THEN Absent ELSE row.text
<1>1. /\ p \in Paths /\ text \in Held /\ disk[p] \in Held /\ row.text \in Held
      /\ row.action \in {"create", "modify", "delete"} /\ text = Content(row)
  BY <1>0 DEF HistRows, FileTypes, Held, Content
<1>2. CASE RestoreBlock(row) \/ NothingToDo(row)
  <2>1. UNCHANGED << disk, hist, origin, mark, known, before, unkept >> /\ CallsAfter(row) = tool
    BY <1>2 DEF Restore, CallsAfter
  <2>2. \A r : Tells(r) => Tells(r)'  BY <2>1 DEF Tells
  <2>3. TableInv'  BY <1>0, <2>1, <2>2 DEF TableInv
  <2>4. SeenInv'  BY <1>0, <2>1 DEF SeenInv
  <2>5. ~ RestoreBlock(row) => disk'[row.path] = Content(row)
    BY <1>1, <1>2, <2>1 DEF NothingToDo, Content
  <2> QED  BY <1>0, <2>1, <2>2, <2>3, <2>4, <2>5 DEF FileTypes
<1>3. CASE ~ (RestoreBlock(row) \/ NothingToDo(row))
  <2>1. /\ Write(p, text) /\ mark' = Stale(p) /\ known' = KnownTo({}, p) /\ Touch(t, p, disk[p])
        /\ IF row.action = "create" THEN RecordDelete(t, p, disk[p])
           ELSE Record(t, p, Capture(disk[p], row.text))
    BY <1>3 DEF Restore
  <2>2. CallsAfter(row) = Overtaken(p)  BY <1>3 DEF CallsAfter
  <2> HIDE DEF p, text
  <2>3. \A q \in Tasks : tool'[q].pc = "written" /\ tool'[q].stat = "fresh" =>
            \/ tool'[q].path = << p >> /\ q \in {}
            \/ tool'[q].path # << p >> /\ tool'[q] = tool[q]
    <3> SUFFICES ASSUME NEW q \in Tasks, tool'[q].pc = "written", tool'[q].stat = "fresh"
                 PROVE  tool'[q].path # << p >> /\ tool'[q] = tool[q]
      OBVIOUS
    <3> DEFINE overtaken == Overtaken(p)
    <3>1. /\ overtaken[q].path = tool[q].path
          /\ tool[q].path = << p >> => overtaken[q].stat # "fresh"
          /\ tool[q].path # << p >> => overtaken[q] = tool[q]
      BY <1>0, <1>1, OvertakenIs
    <3>2. tool'[q] = overtaken[q]  BY <2>2
    <3> HIDE DEF overtaken
    <3> QED  BY <3>1, <3>2
  <2>4. /\ SeenInv' /\ disk' \in [Paths -> Held] /\ disk'[p] = text
        /\ mark' \in [Tasks -> [Paths -> {"none", "fresh", "stale"}]]
        /\ known' \in [Tasks -> [Paths -> BOOLEAN]]
    BY <1>0, <1>1, <2>1, <2>3, WriteSeen
  <2> PICK was \in Held : was = disk[p]  BY <1>1
  <2>5. CASE row.action = "create"
    <3>1. Touch(t, p, was) /\ RecordDelete(t, p, was)  BY <2>1, <2>5
    <3>2. /\ hist' \in Seq(HistRows) /\ TableInv'
          /\ before' \in [Tasks -> [Paths -> {<< >>} \cup {<< x >> : x \in Held}]]
          /\ origin' = origin /\ unkept' = unkept
          /\ \A r \in HistRows : Tells(r) => Tells(r)'
      BY <1>0, <1>1, <3>1, RecordDeleteStep
    <3>3. /\ origin' \in [Tasks -> [Paths -> {<< >>} \cup {<< c >> : c \in Changes}]]
          /\ unkept' \in [Tasks -> [Paths -> BOOLEAN]]
      BY <1>0, <3>2 DEF FileTypes
    <3> QED  BY <1>1, <2>4, <3>2, <3>3 DEF p
  <2>6. CASE row.action # "create"
    <3>1. Capture(was, row.text) \in Changes  BY <1>1 DEF Capture, Changes, Held
    <3> PICK change \in Changes : change = Capture(was, row.text)  BY <3>1
    <3>2. Content(change) = was  BY DEF Capture, Content
    <3>3. Touch(t, p, was) /\ Record(t, p, change)  BY <2>1, <2>6
    <3>4. /\ hist' \in Seq(HistRows) /\ TableInv'
          /\ before' \in [Tasks -> [Paths -> {<< >>} \cup {<< x >> : x \in Held}]]
          /\ unkept' \in [Tasks -> [Paths -> BOOLEAN]]
          /\ origin' \in [Tasks -> [Paths -> {<< >>} \cup {<< c >> : c \in Changes}]]
          /\ \A r \in HistRows : Tells(r) => Tells(r)'
      BY <1>0, <1>1, <3>2, <3>3, RecordStep
    <3> QED  BY <1>1, <2>4, <3>4 DEF p
  <2> QED  BY <2>5, <2>6
<1> QED  BY <1>2, <1>3

LEMMA RestoresKeepFiles ==
    ASSUME FilesInv, NEW t \in Tasks, RestoreTo(t)
    PROVE  FilesInv'
<1>0. FileTypes /\ TodoInv /\ hist \in Seq(HistRows)  BY DEF FilesInv, FileTypes
<1>1. PICK i \in 1 .. Len(hist) :
          LET next == {j \in i + 1 .. Len(hist) : hist[j].path = hist[i].path}
          IN next # {} /\ Restore(t, hist[Min(next)]) /\ tool' = CallsAfter(hist[Min(next)])
  BY DEF RestoreTo
<1> DEFINE next == {j \in i + 1 .. Len(hist) : hist[j].path = hist[i].path}
<1>2. next # {} /\ next \subseteq 1 .. Len(hist) /\ Len(hist) \in Nat  BY <1>0, <1>1
<1>3. Min(next) \in next
  <2> HIDE DEF next
  <2>1. next \subseteq Nat  BY <1>2
  <2>2. \E x \in next : \A y \in next : x <= y  BY <1>2, <2>1, Least
  <2> QED  BY <2>2 DEF Min
<1>4. PICK row \in HistRows : Restore(t, row) /\ tool' = CallsAfter(row)
  <2>1. hist[Min(next)] \in HistRows  BY <1>0, <1>2, <1>3
  <2> QED  BY <1>1, <2>1
<1>5. misdated' = misdated  BY DEF RestoreTo
<1>6. \A q \in Tasks : tool'[q].pc = "written" => tool'[q] = CallsAfter(row)[q]  BY <1>4
<1>7. /\ disk' \in [Paths -> Held] /\ hist' \in Seq(HistRows)
      /\ origin' \in [Tasks -> [Paths -> {<< >>} \cup {<< c >> : c \in Changes}]]
      /\ mark' \in [Tasks -> [Paths -> {"none", "fresh", "stale"}]]
      /\ known' \in [Tasks -> [Paths -> BOOLEAN]]
      /\ before' \in [Tasks -> [Paths -> {<< >>} \cup {<< x >> : x \in Held}]]
      /\ unkept' \in [Tasks -> [Paths -> BOOLEAN]]
      /\ TableInv' /\ SeenInv' /\ \A r \in HistRows : Tells(r) => Tells(r)'
  BY <1>4, <1>5, <1>6, RestoreStep
<1>8. /\ tool' \in [Tasks -> FileCalls]
      /\ \A q \in Tasks : /\ tool'[q].pc = tool[q].pc /\ tool'[q].path = tool[q].path
                          /\ tool'[q].todo = tool[q].todo
  <2> PICK after : after = CallsAfter(row)  OBVIOUS
  <2>1. /\ after \in [Tasks -> FileCalls]
        /\ \A q \in Tasks : /\ after[q].pc = tool[q].pc /\ after[q].path = tool[q].path
                            /\ after[q].todo = tool[q].todo
    BY <1>0, CallsAfterIs
  <2> QED  BY <1>4, <2>1
<1>9. FileTypes'  BY <1>0, <1>5, <1>7, <1>8 DEF FileTypes
<1>10. TodoInv'  BY <1>0, <1>7, <1>8, TodoKept
<1> QED  BY <1>7, <1>9, <1>10 DEF FilesInv

(* One row of an undo: what it says is on disk afterwards, if it is still   *)
(* in the table and can be restored.                                        *)
LEMMA UndosKeepFiles ==
    ASSUME FilesInv, NEW t \in Tasks, Undo(t)
    PROVE  /\ FilesInv'
           /\ \A q \in Tasks \ {t} : tool[q].path = << >> => tool'[q] = tool[q]
           /\ LET row == Get(tool[t].todo[1]) IN
              Found(tool[t].todo[1]) =>
                  Tells(row) /\ (~ RestoreBlock(row) => disk'[row.path] = Content(row))
<1>0. /\ FileTypes /\ TableInv /\ TodoInv /\ SeenInv /\ hist \in Seq(HistRows)
      /\ tool \in [Tasks -> FileCalls] /\ tool[t] \in FileCalls
  BY DEF FilesInv, FileTypes
<1> DEFINE rest == Tail(tool[t].todo)
           next == IF Found(tool[t].todo[1]) THEN CallsAfter(Get(tool[t].todo[1])) ELSE tool
<1>1. /\ tool[t].pc = "undo" /\ tool[t].todo # << >> /\ tool[t].todo \in Seq(Nat)
      /\ tool[t].path = << >>
  BY <1>0 DEF Undo, TodoInv, TodoOK, FileCalls
<1>2. rest \in Seq(Nat)  BY <1>1
<1> PICK id : id = tool[t].todo[1]  OBVIOUS
<1> PICK after : after = next  OBVIOUS
<1>3. /\ IF Found(id) THEN Restore(t, Get(id))
         ELSE UNCHANGED << disk, hist, origin, mark, known, before, unkept >>
      /\ misdated' = misdated
      /\ tool' = [after EXCEPT ![t] = IF rest = << >> THEN NoCall ELSE [after[t] EXCEPT !.todo = rest]]
  BY DEF Undo
<1>a. after = IF Found(id) THEN CallsAfter(Get(id)) ELSE tool  OBVIOUS
<1> HIDE DEF rest, next
<1>b. Found(id) => Get(id) \in HistRows /\ Tells(Get(id))
  <2> SUFFICES ASSUME Found(id) PROVE Get(id) \in HistRows /\ Tells(Get(id))  OBVIOUS
  <2>1. Get(id) \in Range(hist)  BY DEF Found, Get
  <2>2. Range(hist) \subseteq HistRows  BY <1>0 DEF Range
  <2> QED  BY <1>0, <2>1, <2>2 DEF TableInv
<1>4. /\ after \in [Tasks -> FileCalls]
      /\ \A q \in Tasks : /\ after[q].pc = tool[q].pc /\ after[q].path = tool[q].path
                          /\ after[q].todo = tool[q].todo
                          /\ tool[q].path = << >> => after[q] = tool[q]
  <2>1. CASE Found(id)
    <3> PICK row \in HistRows : row = Get(id)  BY <1>b, <2>1
    <3>1. after = CallsAfter(row)  BY <1>a, <2>1
    <3>2. \A q \in Tasks : tool[q].path = << >> => tool[q].path # << row.path >>  OBVIOUS
    <3> QED  BY <1>0, <3>1, <3>2, CallsAfterIs
  <2>2. CASE ~ Found(id)  BY <1>0, <1>a, <2>2
  <2> QED  BY <2>1, <2>2
<1>5. /\ tool' \in [Tasks -> FileCalls] /\ \A q \in Tasks \ {t} : tool'[q] = after[q]
      /\ \/ tool'[t] = NoCall
         \/ /\ tool'[t].pc = "undo" /\ tool'[t].path = << >> /\ tool'[t].todo = rest
            /\ rest # << >>
  <2>1. CASE rest = << >>
    <3>1. tool' = [after EXCEPT ![t] = NoCall]  BY <1>3, <2>1
    <3> QED  BY <1>4, <3>1, NoCallIs
  <2>2. CASE rest # << >>
    <3>1. tool' = [after EXCEPT ![t] = [after[t] EXCEPT !.todo = rest]]  BY <1>3, <2>2
    <3>3. after[t].pc = "undo" /\ after[t].path = << >> /\ after[t] \in FileCalls  BY <1>1, <1>4
    <3> PICK x \in FileCalls : x = after[t]  BY <3>3
    <3>4. [x EXCEPT !.todo = rest] \in FileCalls  BY <1>2 DEF FileCalls
    <3>2. [after[t] EXCEPT !.todo = rest] \in FileCalls  BY <3>4
    <3> QED  BY <1>4, <2>2, <3>1, <3>2, <3>3 DEF FileCalls
  <2> QED  BY <2>1, <2>2
<1>6. \A q \in Tasks : tool'[q].pc = "written" => tool'[q] = after[q]
  BY <1>5, NoCallIs
<1>7. /\ disk' \in [Paths -> Held] /\ hist' \in Seq(HistRows)
      /\ origin' \in [Tasks -> [Paths -> {<< >>} \cup {<< c >> : c \in Changes}]]
      /\ mark' \in [Tasks -> [Paths -> {"none", "fresh", "stale"}]]
      /\ known' \in [Tasks -> [Paths -> BOOLEAN]]
      /\ before' \in [Tasks -> [Paths -> {<< >>} \cup {<< x >> : x \in Held}]]
      /\ unkept' \in [Tasks -> [Paths -> BOOLEAN]]
      /\ TableInv' /\ SeenInv'
      /\ Found(id) /\ ~ RestoreBlock(Get(id)) => disk'[Get(id).path] = Content(Get(id))
  <2>1. CASE Found(id)
    <3> PICK row \in HistRows : row = Get(id)  BY <1>b, <2>1
    <3>1. /\ Restore(t, row) /\ misdated' = misdated
          /\ \A q \in Tasks : tool'[q].pc = "written" => tool'[q] = CallsAfter(row)[q]
      BY <1>3, <1>6, <1>a, <2>1
    <3> QED  BY <3>1, RestoreStep
  <2>2. CASE ~ Found(id)
    <3>1. UNCHANGED << disk, hist, origin, mark, known, misdated, before, unkept >> /\ after = tool
      BY <1>3, <1>a, <2>2
    <3>2. \A r : Tells(r) => Tells(r)'  BY <3>1 DEF Tells
    <3>3. TableInv'  BY <1>0, <3>1, <3>2 DEF TableInv
    <3>4. SeenInv'  BY <1>0, <1>6, <3>1 DEF SeenInv
    <3> QED  BY <1>0, <2>2, <3>1, <3>3, <3>4 DEF FileTypes
  <2> QED  BY <2>1, <2>2
<1>8. FileTypes'  BY <1>0, <1>3, <1>5, <1>7 DEF FileTypes
<1>9. TodoInv'
  <2>1. TodoOK(t)'  BY <1>5, NoCallIs DEF TodoOK
  <2>2. \A q \in Tasks \ {t} : /\ tool'[q].pc = tool[q].pc /\ tool'[q].path = tool[q].path
                               /\ tool'[q].todo = tool[q].todo
    BY <1>4, <1>5
  <2>3. \A q \in Tasks : q = t \/ q \in Tasks \ {t}  OBVIOUS
  <2> QED  BY <1>0, <2>1, <2>2, <2>3, TodoKept
<1>10. FilesInv'  BY <1>7, <1>8, <1>9 DEF FilesInv
<1>11. \A q \in Tasks \ {t} : tool[q].path = << >> => tool'[q] = tool[q]  BY <1>4, <1>5
<1> QED  BY <1>7, <1>10, <1>11, <1>b

-----------------------------------------------------------------------------
(* Runs that end, and the nightly jobs. *)

LEMMA ClearsKeepFiles ==
    ASSUME FilesInv, NEW t \in Tasks, ClearTaskOrigin(t)
    PROVE  FilesInv'
<1>0. FileTypes /\ TableInv /\ TodoInv /\ SeenInv  BY DEF FilesInv
<1> PICK none : none = << >>  OBVIOUS
<1>1. /\ origin' = [origin EXCEPT ![t] = [p \in Paths |-> none]]
      /\ mark' = [mark EXCEPT ![t] = [p \in Paths |-> "none"]]
      /\ UNCHANGED << disk, hist, tool, known, misdated, before, unkept >>
  BY DEF ClearTaskOrigin, Nothing
<1>2. /\ origin' \in [Tasks -> [Paths -> {none} \cup {<< c >> : c \in Changes}]]
      /\ \A q \in Tasks, p \in Paths : origin'[q][p] = none \/ origin'[q][p] = origin[q][p]
  <2>1. [p \in Paths |-> none] \in [Paths -> {none} \cup {<< c >> : c \in Changes}]  OBVIOUS
  <2>2. origin \in [Tasks -> [Paths -> {none} \cup {<< c >> : c \in Changes}]]
    BY <1>0 DEF FileTypes
  <2> QED  BY <1>1, <2>1, <2>2
<1>3. /\ mark' \in [Tasks -> [Paths -> {"none", "fresh", "stale"}]]
      /\ \A q \in Tasks, p \in Paths : mark'[q][p] = "none" \/ mark'[q][p] = mark[q][p]
  BY <1>0, <1>1 DEF FileTypes
<1>4. FileTypes'  BY <1>0, <1>1, <1>2, <1>3 DEF FileTypes
<1>5. \A r : Tells(r) => Tells(r)'  BY <1>1 DEF Tells
<1>6. TableInv'  BY <1>0, <1>1, <1>2, <1>5 DEF TableInv
<1>7. TodoInv'
  <2>1. \A q \in Tasks : /\ tool'[q].pc = tool[q].pc /\ tool'[q].path = tool[q].path
                         /\ tool'[q].todo = tool[q].todo
    BY <1>1
  <2> QED  BY <1>0, <1>5, <2>1, TodoKept
<1>8. SeenInv'  BY <1>0, <1>1, <1>3 DEF SeenInv
<1> QED  BY <1>4, <1>6, <1>7, <1>8 DEF FilesInv

(* The table changes, and nothing but what is known to be missing with it. *)
LEMMA JobsKeepFiles ==
    ASSUME FilesInv, UNCHANGED << disk, origin, mark, tool, known, misdated, before >>,
           hist' \in Seq(HistRows), unkept' \in [Tasks -> [Paths -> BOOLEAN]],
           \A t \in Tasks, p \in Paths : unkept[t][p] => unkept'[t][p],
           \A row \in Range(hist') : Tells(row)',
           \A row \in Range(hist) :
               \/ unkept'[row.task][row.path]
               \/ \E r \in Range(hist') : r.task = row.task /\ r.path = row.path
    PROVE  FilesInv'
<1>0. FileTypes /\ TableInv /\ TodoInv /\ SeenInv  BY DEF FilesInv
<1>1. FileTypes'  BY <1>0 DEF FileTypes
<1>2. \A r \in HistRows : Tells(r) => Tells(r)'  BY DEF Tells, HistRows
<1>3. ASSUME NEW t \in Tasks, NEW p \in Paths
      PROVE  /\ before'[t][p] # << >> =>
                   unkept'[t][p] \/ \E x \in Range(hist') : x.task = t /\ x.path = p
             /\ origin'[t][p] # << >> => before'[t][p] # << >>
  <2>1. before[t][p] # << >> =>
            unkept[t][p] \/ \E x \in Range(hist) : x.task = t /\ x.path = p
    BY <1>0 DEF TableInv
  <2>2. origin[t][p] # << >> => before[t][p] # << >>  BY <1>0 DEF TableInv
  <2> QED  BY <2>1, <2>2
<1>4. TableInv'  BY <1>3 DEF TableInv
<1>5. TodoInv'
  <2>1. \A q \in Tasks : /\ tool'[q].pc = tool[q].pc /\ tool'[q].path = tool[q].path
                         /\ tool'[q].todo = tool[q].todo
    OBVIOUS
  <2> QED  BY <1>0, <1>2, <2>1, TodoKept
<1>6. SeenInv'  BY <1>0 DEF SeenInv
<1> QED  BY <1>1, <1>4, <1>5, <1>6 DEF FilesInv

LEMMA PrunesKeepFiles == ASSUME FilesInv, Prune PROVE FilesInv'
<1>0. FileTypes /\ TableInv /\ hist \in Seq(HistRows)  BY DEF FilesInv, FileTypes
<1>1. PICK keep : /\ keep \subseteq 1 .. Len(hist) /\ hist' = Pick(hist, keep)
                  /\ unkept' = [t \in Tasks |-> [p \in Paths |->
                        unkept[t][p] \/ \E r \in Range(hist) \ Range(hist') :
                                            r.task = t /\ r.path = p]]
                  /\ UNCHANGED << disk, origin, mark, tool, known, misdated, before >>
  <2> DEFINE newer(i) == {j \in i + 1 .. Len(hist) : hist[j].path = hist[i].path}
             keep == {i \in 1 .. Len(hist) : Cardinality(newer(i)) < KeepPerPath}
  <2>1. keep \subseteq 1 .. Len(hist)  OBVIOUS
  <2> QED  BY <2>1 DEF Prune
<1>2. hist' \in Seq(HistRows) /\ Range(hist') \subseteq Range(hist)
  <2>1. keep \subseteq DOMAIN hist  BY <1>0, <1>1
  <2> QED  BY <1>0, <1>1, <2>1, PickRange
<1>3. /\ unkept' \in [Tasks -> [Paths -> BOOLEAN]]
      /\ \A t \in Tasks, p \in Paths :
            unkept'[t][p] = (unkept[t][p] \/ \E r \in Range(hist) \ Range(hist') :
                                                 r.task = t /\ r.path = p)
  BY <1>1, Zenon
<1>4. Range(hist) \subseteq HistRows  BY <1>0 DEF Range
<1>5. \A t \in Tasks, p \in Paths : unkept[t][p] => unkept'[t][p]  BY <1>3, Zenon
<1>6. ASSUME NEW row \in Range(hist') PROVE Tells(row)'
  <2>1. Tells(row) /\ row \in HistRows  BY <1>0, <1>2, <1>4 DEF TableInv
  <2>2. row.task \in Tasks /\ row.path \in Paths  BY <2>1 DEF HistRows
  <2>3. unkept[row.task][row.path] => unkept'[row.task][row.path]  BY <1>5, <2>2, Zenon
  <2> QED  BY <1>1, <2>1, <2>3 DEF Tells, Content
<1>7. ASSUME NEW row \in Range(hist)
      PROVE  \/ unkept'[row.task][row.path]
             \/ \E r \in Range(hist') : r.task = row.task /\ r.path = row.path
  <2>1. row.task \in Tasks /\ row.path \in Paths  BY <1>4 DEF HistRows
  <2>2. CASE row \in Range(hist')  BY <2>2
  <2>3. CASE row \notin Range(hist')  BY <1>3, <2>1, <2>3, Zenon
  <2> QED  BY <2>2, <2>3
<1> QED  BY <1>1, <1>2, <1>3, <1>5, <1>6, <1>7, JobsKeepFiles

LEMMA CleansKeepFiles == ASSUME FilesInv, CleanStoreTemp PROVE FilesInv'
<1>0. FileTypes /\ TableInv /\ hist \in Seq(HistRows) /\ unkept \in [Tasks -> [Paths -> BOOLEAN]]
  BY DEF FilesInv, FileTypes
<1>1. /\ hist' = [i \in 1 .. Len(hist) |->
                    [hist[i] EXCEPT !.kept = hist[i].kept /\ hist[i].action # "delete"]]
      /\ UNCHANGED << disk, origin, mark, tool, known, misdated, before, unkept >>
  BY DEF CleanStoreTemp
<1>2. ASSUME NEW i \in 1 .. Len(hist)
      PROVE  /\ hist'[i] \in HistRows /\ Content(hist'[i]) = Content(hist[i])
             /\ hist'[i].task = hist[i].task /\ hist'[i].path = hist[i].path
  <2>1. hist[i] \in HistRows  BY <1>0
  <2> PICK b \in BOOLEAN : b = (hist[i].kept /\ hist[i].action # "delete")  OBVIOUS
  <2>2. hist'[i] = [hist[i] EXCEPT !.kept = b]  BY <1>1
  <2> QED  BY <2>1, <2>2 DEF HistRows, Content
<1>3. Len(hist) \in Nat /\ DOMAIN hist = 1 .. Len(hist) /\ DOMAIN hist' = 1 .. Len(hist)
      /\ hist' = [i \in 1 .. Len(hist) |-> hist'[i]]
  BY <1>0, <1>1
<1>4. hist' \in Seq(HistRows)
  <2>1. hist' \in [1 .. Len(hist) -> HistRows]  BY <1>2, <1>3
  <2> QED  BY <1>3, <2>1, SeqDef
<1>5. ASSUME NEW row \in Range(hist') PROVE Tells(row)'
  <2>1. PICK i \in 1 .. Len(hist) : row = hist'[i]  BY <1>3 DEF Range
  <2>2. hist[i] \in Range(hist)  BY <1>3 DEF Range
  <2>3. Tells(hist[i])  BY <1>0, <2>2 DEF TableInv
  <2>4. Content(row) = Content(hist[i]) /\ row.task = hist[i].task /\ row.path = hist[i].path
    BY <1>2, <2>1
  <2> QED  BY <1>1, <2>3, <2>4 DEF Tells, Content
<1>6. ASSUME NEW row \in Range(hist)
      PROVE  \E r \in Range(hist') : r.task = row.task /\ r.path = row.path
  <2>1. PICK i \in 1 .. Len(hist) : row = hist[i]  BY <1>3 DEF Range
  <2>2. hist'[i] \in Range(hist')  BY <1>3 DEF Range
  <2> QED  BY <1>2, <2>1, <2>2
<1> QED  BY <1>0, <1>1, <1>4, <1>5, <1>6, JobsKeepFiles

-----------------------------------------------------------------------------

LEMMA FilesStart == ASSUME FilesConstants, FilesInit PROVE FilesInv
<1> PICK none : none = << >>  OBVIOUS
<1>1. /\ disk \in [Paths -> {Absent, CHOOSE x \in Texts : TRUE}] /\ hist = none
      /\ origin = [t \in Tasks |-> [p \in Paths |-> none]]
      /\ mark = [t \in Tasks |-> [p \in Paths |-> "none"]]
      /\ tool = [t \in Tasks |-> NoCall]
      /\ known = [t \in Tasks |-> [p \in Paths |-> FALSE]]
      /\ misdated = [t \in Tasks |-> [p \in Paths |-> FALSE]]
      /\ before = [t \in Tasks |-> [p \in Paths |-> none]]
      /\ unkept = [t \in Tasks |-> [p \in Paths |-> FALSE]]
  BY DEF FilesInit, OfEach, Nothing
<1>2. none \in Seq(HistRows) /\ Range(none) = {}  BY DEF Range
<1>3. disk \in [Paths -> Held]
  <2>1. (CHOOSE x \in Texts : TRUE) \in Texts  BY DEF FilesConstants
  <2> QED  BY <1>1, <2>1 DEF Held
<1>4. FileTypes  BY <1>1, <1>2, <1>3, NoCallIs DEF FileTypes
<1>5. TableInv  BY <1>1, <1>2 DEF TableInv
<1>6. TodoInv  BY <1>1, NoCallIs DEF TodoInv, TodoOK
<1>7. SeenInv  BY <1>1, NoCallIs DEF SeenInv
<1> QED  BY <1>4, <1>5, <1>6, <1>7 DEF FilesInv

(* Which steps move task q's call while it undoes. *)
LEMMA UndoesItself ==
    ASSUME FilesInv, FilesNext, NEW q \in Tasks, tool[q].pc = "undo", tool'[q] # tool[q]
    PROVE  Undo(q)
<1>0. FileTypes /\ tool \in [Tasks -> FileCalls] /\ tool[q].path = << >>
  BY DEF FilesInv, FileTypes, TodoInv, TodoOK
<1>1. \A p \in Paths : Overtaken(p)[q] = tool[q]
  <2> SUFFICES ASSUME NEW p \in Paths PROVE Overtaken(p)[q] = tool[q]  OBVIOUS
  <2>1. tool[q].path # << p >>  BY <1>0
  <2> QED  BY <1>0, <2>1, OvertakenIs
<1>2. \A row \in HistRows : CallsAfter(row)[q] = tool[q]
  <2> SUFFICES ASSUME NEW row \in HistRows PROVE CallsAfter(row)[q] = tool[q]  OBVIOUS
  <2>1. tool[q].path # << row.path >>  BY <1>0
  <2> QED  BY <1>0, <2>1, CallsAfterIs
<1>3. ASSUME NEW t \in Tasks, NEW x, tool' = [tool EXCEPT ![t] = x] PROVE t = q
  BY <1>0, <1>3
<1>4. ASSUME NEW t \in Tasks, NEW p \in Paths,
             \/ Grant(t, p) \/ ReadStat(t, p) \/ ReadContent(t, p)
             \/ WriteFile(t, p) \/ Written(t, p) \/ RemoveToTrash(t, p)
      PROVE  FALSE
  <2>1. CASE Grant(t, p)  BY <2>1 DEF Grant
  <2>2. CASE ReadStat(t, p)
    <3>1. tool[t].pc = "idle" /\ \E x : tool' = [tool EXCEPT ![t] = x]  BY <2>2 DEF ReadStat, Ready
    <3> QED  BY <1>3, <3>1
  <2>3. CASE ReadContent(t, p)
    <3>1. tool[t].pc = "read" /\ \E x : tool' = [tool EXCEPT ![t] = x]  BY <2>3 DEF ReadContent
    <3> QED  BY <1>3, <3>1
  <2>4. CASE WriteFile(t, p)
    <3>1. tool[t].pc = "write" /\ tool' = [Overtaken(p) EXCEPT ![t].pc = "written", ![t].stat = "fresh"]
      BY <2>4 DEF WriteFile
    <3>2. t # q  BY <3>1
    <3> PICK overtaken : overtaken = Overtaken(p)  OBVIOUS
    <3>3. overtaken \in [Tasks -> FileCalls]  BY <1>0, OvertakenIs
    <3>4. tool'[q] = overtaken[q]  BY <3>1, <3>2, <3>3
    <3> QED  BY <1>1, <3>4
  <2>5. CASE Written(t, p)
    <3>1. tool[t].pc = "written" /\ \E x : tool' = [tool EXCEPT ![t] = x]  BY <2>5 DEF Written
    <3> QED  BY <1>3, <3>1
  <2>6. CASE RemoveToTrash(t, p)  BY <1>1, <2>6 DEF RemoveToTrash
  <2> QED  BY <1>4, <2>1, <2>2, <2>3, <2>4, <2>5, <2>6
<1>5. ASSUME NEW t \in Tasks, NEW p \in Paths, NEW text \in Texts,
             \/ WriteFileContent(t, p, text) \/ PatchFileTargets(t, p, text)
             \/ EditVariant(t, p, text) \/ RunCommand(t, p, text)
      PROVE  FALSE
  <2>1. CASE RunCommand(t, p, text)  BY <1>1, <2>1 DEF RunCommand, ByHand
  <2>2. CASE ~ RunCommand(t, p, text)
    <3>1. tool[t].pc = "idle" /\ \E x : tool' = [tool EXCEPT ![t] = x]
      BY <1>5, <2>2 DEF WriteFileContent, PatchFileTargets, EditVariant, BeginEdit, Ready
    <3> QED  BY <1>3, <3>1
  <2> QED  BY <2>1, <2>2
<1>6. ASSUME NEW t \in Tasks, RestoreTo(t) PROVE FALSE
  <2>1. hist \in Seq(HistRows) /\ Len(hist) \in Nat  BY <1>0 DEF FileTypes
  <2>2. PICK i \in 1 .. Len(hist) :
            LET next == {j \in i + 1 .. Len(hist) : hist[j].path = hist[i].path}
            IN next # {} /\ tool' = CallsAfter(hist[Min(next)])
    BY <1>6 DEF RestoreTo
  <2> DEFINE next == {j \in i + 1 .. Len(hist) : hist[j].path = hist[i].path}
  <2>3. next # {} /\ next \subseteq 1 .. Len(hist)  BY <2>1, <2>2
  <2>4. Min(next) \in next
    <3> HIDE DEF next
    <3>1. next \subseteq Nat  BY <2>3
    <3>2. \E x \in next : \A y \in next : x <= y  BY <2>3, <3>1, Least
    <3> QED  BY <3>2 DEF Min
  <2>5. PICK row \in HistRows : tool' = CallsAfter(row)
    <3>1. hist[Min(next)] \in HistRows  BY <2>1, <2>3, <2>4
    <3> QED  BY <2>2, <3>1
  <2> QED  BY <1>2, <2>5
<1>7. ASSUME NEW t \in Tasks, UndoStart(t) PROVE FALSE
  <2>1. tool[t].pc = "idle" /\ \E x : tool' = [tool EXCEPT ![t] = x]  BY <1>7 DEF UndoStart, Ready
  <2> QED  BY <1>3, <2>1
<1>8. ASSUME NEW t \in Tasks, Undo(t) PROVE Undo(q)
  <2> SUFFICES ASSUME t # q PROVE FALSE  BY <1>8
  <2>1. tool'[q] = tool[q]  BY <1>0, <1>8, UndosKeepFiles
  <2> QED  BY <2>1
<1>9. ASSUME NEW t \in Tasks, ClearTaskOrigin(t) PROVE FALSE  BY <1>9 DEF ClearTaskOrigin
<1>10. ASSUME NEW p \in Paths, NEW text \in Texts, UserEdit(p, text) PROVE FALSE
  BY <1>1, <1>10 DEF UserEdit, ByHand
<1>11. ASSUME Prune \/ CleanStoreTemp PROVE FALSE  BY <1>11 DEF Prune, CleanStoreTemp
<1> QED  BY <1>4, <1>5, <1>6, <1>7, <1>8, <1>9, <1>10, <1>11 DEF FilesNext

LEMMA FilesStep == ASSUME FilesInv, FilesNext PROVE FilesInv'
<1>1. ASSUME NEW t \in Tasks, NEW p \in Paths,
             \/ Grant(t, p) \/ ReadStat(t, p) \/ ReadContent(t, p)
             \/ WriteFile(t, p) \/ Written(t, p) \/ RemoveToTrash(t, p)
      PROVE  FilesInv'
  BY <1>1, StartsKeepFiles, ReadsKeepFiles, WritesKeepFiles, WrittensKeepFiles, RemovesKeepFiles
<1>2. ASSUME NEW t \in Tasks, NEW p \in Paths, NEW text \in Texts,
             \/ WriteFileContent(t, p, text) \/ PatchFileTargets(t, p, text)
             \/ EditVariant(t, p, text) \/ RunCommand(t, p, text)
      PROVE  FilesInv'
  <2>1. BeginEdit(t, p, text) \/ ByHand(p, text)
    BY <1>2 DEF WriteFileContent, PatchFileTargets, EditVariant, RunCommand
  <2> QED  BY <2>1, StartsKeepFiles, HandsKeepFiles
<1>3. ASSUME NEW t \in Tasks, RestoreTo(t) \/ UndoStart(t) \/ Undo(t) \/ ClearTaskOrigin(t)
      PROVE  FilesInv'
  BY <1>3, RestoresKeepFiles, UndoStartsKeepFiles, UndosKeepFiles, ClearsKeepFiles
<1>4. ASSUME NEW p \in Paths, NEW text \in Texts, UserEdit(p, text) PROVE FilesInv'
  BY <1>4, HandsKeepFiles DEF UserEdit
<1>5. ASSUME Prune \/ CleanStoreTemp PROVE FilesInv'
  BY <1>5, PrunesKeepFiles, CleansKeepFiles
<1> QED  BY <1>1, <1>2, <1>3, <1>4, <1>5 DEF FilesNext

LEMMA FilesInvHolds == ASSUME FilesConstants PROVE FilesSpec => []FilesInv
<1>1. FilesInit => FilesInv  BY FilesStart
<1>2. FilesInv /\ [FilesNext]_filesVars => FilesInv'
  <2>1. ASSUME FilesInv, UNCHANGED filesVars PROVE FilesInv'
    <3>1. UNCHANGED << disk, hist, origin, mark, tool, known, misdated, before, unkept >>
      BY <2>1 DEF filesVars
    <3> QED  BY <2>1, <3>1, FilesStay
  <2> QED  BY <2>1, FilesStep
<1> QED  BY <1>1, <1>2, PTL DEF FilesSpec

(* A file whose modification time a task has on record, and still is the    *)
(* file's, holds what that task has read or written, unless somebody wrote  *)
(* the file just before the task looked at the time of its own write        *)
(* (requireFresh and markWritten of internal/tools/file).                   *)
THEOREM FreshFilesSeen == ASSUME FilesConstants PROVE FilesSpec => []FreshIsSeen
<1>1. FilesInv => FreshIsSeen  BY DEF FilesInv, SeenInv, FreshIsSeen
<1> QED  BY <1>1, FilesInvHolds, PTL

(* Undoing a task gives a file back what it held before the task touched it *)
(* first, through any undos, resumed runs, prunes and changes of others,    *)
(* unless the row or its copy is gone when the undo comes to it, or the row *)
(* of that first touch is known to be missing (Undo, restore and insert of  *)
(* the store).                                                              *)
THEOREM UndosGiveBack == ASSUME FilesConstants PROVE FilesSpec => [][UndoStep]_filesVars
<1>1. FilesInv /\ [FilesNext]_filesVars => [UndoStep]_filesVars
  <2> SUFFICES ASSUME FilesInv, FilesNext PROVE UndoStep  BY DEF filesVars
  <2> SUFFICES ASSUME NEW t \in Tasks, tool[t].pc = "undo", tool'[t] # tool[t],
                      Found(tool[t].todo[1]), ~ RestoreBlock(Get(tool[t].todo[1]))
               PROVE  LET row == Get(tool[t].todo[1]) IN
                      unkept[row.task][row.path] \/ << disk'[row.path] >> = before[row.task][row.path]
    BY DEF UndoStep
  <2>1. Undo(t)  BY UndoesItself
  <2> QED  BY <2>1, UndosKeepFiles DEF Tells
<1> QED  BY <1>1, FilesInvHolds, PTL DEF FilesSpec

-----------------------------------------------------------------------------
(* The window and its socket (TuiWindow).  Everything in it has its type.   *)

UpFrames == ({"run", "cancel"} \X OwnRuns) \cup ({"reply"} \X Prompts \X BOOLEAN)
DownFrames ==
    ({"event"} \X OwnRuns \X Nat) \cup ({"done"} \X OwnRuns) \cup ({"ask"} \X Prompts)
    \cup {<< "eof" >>}

DaemonTyped ==
    /\ run \in [Runs -> {"new", "sent", "on", "check", "wait", "ended", "over"}]
    /\ sent \in [Runs -> Nat]
    /\ prompt \in [Prompts -> {"new", "open", "picked", "yes", "no", "dropped", "skipped"}]
    /\ asks \subseteq Prompts /\ matched \in Prompts \cup {Nobody}
    /\ replying \subseteq Prompts \X BOOLEAN
    /\ served \in {"none", "open", "gone"}
SocketTyped ==
    /\ link \in {"up", "cut", "off"} /\ quit \in BOOLEAN
    /\ up \in Seq(UpFrames) /\ down \in Seq(DownFrames)
    /\ waiting \subseteq OwnRuns /\ inbox \in [OwnRuns -> Seq(DownFrames)]
    /\ hand \in Prompts \cup {Nobody, "lost", "back"}
ScreenTyped ==
    /\ exec \in [OwnRuns -> {"no", "begin", "call", "read", "event", "done", "over"}]
    /\ event \in [OwnRuns -> Nat]
    /\ handle \in OwnRuns \cup {Nobody} /\ popup \in Prompts \cup Pages \cup {Nobody}
    /\ popupQueue \in Seq(Prompts) /\ eventQueue \in Seq(OwnRuns \X Nat)
    /\ shown \in [OwnRuns -> Seq(Nat)]
    /\ choices \subseteq {"stop", "login", "paste"}
WindowTyped == DaemonTyped /\ SocketTyped /\ ScreenTyped

(* A connection that is up is served until the window closes; one that is   *)
(* cut or off has nothing that asks, and no run of the window goes on.      *)
LinkInv ==
    /\ quit => link = "off"
    /\ ~quit /\ link = "up" => served = "open"
    /\ ~quit /\ link # "up" =>
          /\ served = "none" /\ asks = {} /\ matched = Nobody
          /\ \A r \in OwnRuns : run[r] \in {"new", "over"}
    /\ link = "off" => down = << >> /\ waiting = {}
    /\ link = "up" => \A i \in DOMAIN down : down[i] # << "eof" >>

(* What is asked was asked by a run that has begun.                         *)
AskedInv ==
    /\ \A p \in asks : prompt[p] # "new"
    /\ matched # Nobody => prompt[matched] # "new"
    /\ \A p \in Unsettled : run[Of[p]] # "new"

(* The events of a run on their way, counted: those shown and queued, the   *)
(* one that runExec holds, and those in its channel.                        *)
From(q, r) == { i \in DOMAIN q : q[i][1] = r }
Mine(r) == From(eventQueue, r)
ToShow(r) == Len(shown[r]) + Cardinality(Mine(r))
Fetched(r) == IF exec[r] = "event" THEN ToShow(r) + 1 ELSE ToShow(r)
Received(r) == Fetched(r) + Len(inbox[r])

ScreenInv ==
    /\ popup = Nobody => eventQueue = << >>
    /\ \A r \in OwnRuns :
          /\ \A i \in DOMAIN shown[r] : shown[r][i] = i
          /\ \A i \in Mine(r) : eventQueue[i][2] = Len(shown[r]) + Rank(Mine(r), i)
          /\ exec[r] = "event" => event[r] = ToShow(r) + 1

(* A run that was not called yet has sent nothing.                          *)
Unbegun == {"no", "begin", "call"}
StartInv ==
    \A r \in OwnRuns :
        /\ exec[r] \in Unbegun =>
              /\ run[r] = "new" /\ sent[r] = 0 /\ inbox[r] = << >> /\ ToShow(r) = 0
              /\ r \notin waiting /\ \A i \in DOMAIN up : up[i] # << "run", r >>
        /\ r \in waiting => exec[r] \in {"read", "event"}

(* While a run waits, the events on the socket are those after the ones     *)
(* received, in order and each once; a socket that is up has all of them.   *)
OnSocket(r, n, i) == down[i] = << "event", r, n >>
FramesInv(r) ==
    /\ Received(r) <= sent[r]
    /\ \A i \in DOMAIN down, n \in Nat : OnSocket(r, n, i) =>
          /\ n > Received(r)
          /\ \A m \in (Received(r) + 1) .. (n - 1) : \E j \in 1 .. (i - 1) : OnSocket(r, m, j)
          /\ \A j \in DOMAIN down : OnSocket(r, n, j) => j = i
    /\ link = "up" => \A n \in (Received(r) + 1) .. sent[r] : \E j \in DOMAIN down : OnSocket(r, n, j)
InboxInv(r) ==
    \A i \in DOMAIN inbox[r] :
        \/ inbox[r][i] = << "event", r, Fetched(r) + i >>
        \/ inbox[r][i] = << "done", r >> /\ i = Len(inbox[r]) /\ r \notin waiting
SocketInv ==
    \A r \in OwnRuns :
        /\ \A i \in DOMAIN down, n \in Nat : OnSocket(r, n, i) => 1 <= n /\ n <= sent[r]
        /\ exec[r] \in {"read", "event"} => InboxInv(r)
        /\ r \in waiting => FramesInv(r)

WindowInv ==
    /\ WindowTyped /\ LinkInv /\ AskedInv /\ ScreenInv /\ StartInv /\ SocketInv
    /\ NoPromptMislaid
-----------------------------------------------------------------------------
(* Frames and queues.                                                       *)

LEMMA DownKinds ==
    ASSUME NEW f \in DownFrames
    PROVE  /\ f[1] \in {"event", "done", "ask", "eof"}
           /\ f[1] = "event" => f[2] \in OwnRuns /\ f[3] \in Nat /\ f = << "event", f[2], f[3] >>
           /\ f[1] = "done" => f[2] \in OwnRuns /\ f = << "done", f[2] >>
           /\ f[1] = "ask" => f[2] \in Prompts /\ f = << "ask", f[2] >>
           /\ f[1] # "event" => \A r, n : f # << "event", r, n >>
           /\ f[1] # "ask" => \A p : f # << "ask", p >>
<1>1. CASE f \in {"event"} \X OwnRuns \X Nat
  <2>1. PICK r \in OwnRuns, n \in Nat : f = << "event", r, n >>  BY <1>1
  <2> QED  BY <2>1
<1>2. CASE f \in {"done"} \X OwnRuns
  <2>1. PICK r \in OwnRuns : f = << "done", r >>  BY <1>2
  <2> QED  BY <2>1
<1>3. CASE f \in {"ask"} \X Prompts
  <2>1. PICK p \in Prompts : f = << "ask", p >>  BY <1>3
  <2> QED  BY <2>1
<1>4. CASE f = << "eof" >>  BY <1>4
<1> QED  BY <1>1, <1>2, <1>3, <1>4 DEF DownFrames

LEMMA DownHas ==
    /\ \A r \in OwnRuns, n \in Nat : << "event", r, n >> \in DownFrames
    /\ \A r \in OwnRuns : << "done", r >> \in DownFrames
    /\ \A p \in Prompts : << "ask", p >> \in DownFrames
    /\ << "eof" >> \in DownFrames
BY DEF DownFrames

LEMMA UpKinds ==
    ASSUME NEW f \in UpFrames
    PROVE  /\ f[1] \in {"run", "cancel", "reply"}
           /\ f[1] \in {"run", "cancel"} => f[2] \in OwnRuns /\ f = << f[1], f[2] >>
           /\ f[1] = "reply" => f[2] \in Prompts /\ f[3] \in BOOLEAN /\ f = << "reply", f[2], f[3] >>
           /\ f[1] # "reply" => \A p, ok : f # << "reply", p, ok >>
           /\ f[1] # "run" => \A r : f # << "run", r >>
<1>1. CASE f \in {"run", "cancel"} \X OwnRuns
  <2>1. PICK k \in {"run", "cancel"}, r \in OwnRuns : f = << k, r >>  BY <1>1
  <2> QED  BY <2>1
<1>2. CASE f \in {"reply"} \X Prompts \X BOOLEAN
  <2>1. PICK p \in Prompts, ok \in BOOLEAN : f = << "reply", p, ok >>  BY <1>2
  <2> QED  BY <2>1
<1> QED  BY <1>1, <1>2 DEF UpFrames

LEMMA UpHas ==
    /\ \A r \in OwnRuns : << "run", r >> \in UpFrames /\ << "cancel", r >> \in UpFrames
    /\ \A p \in Prompts, ok \in BOOLEAN : << "reply", p, ok >> \in UpFrames
BY DEF UpFrames

LEMMA AppendTo ==
    ASSUME NEW T, NEW s \in Seq(T), NEW e \in T
    PROVE  /\ Append(s, e) \in Seq(T) /\ ToSet(Append(s, e)) = ToSet(s) \cup {e}
           /\ DOMAIN Append(s, e) = DOMAIN s \cup {Len(s) + 1} /\ Len(s) + 1 \notin DOMAIN s
           /\ Append(s, e)[Len(s) + 1] = e /\ Len(Append(s, e)) = Len(s) + 1
           /\ \A i \in DOMAIN s : Append(s, e)[i] = s[i]
<1>1. /\ Append(s, e) \in Seq(T) /\ Len(Append(s, e)) = Len(s) + 1 /\ Append(s, e)[Len(s) + 1] = e
      /\ DOMAIN s = 1 .. Len(s) /\ DOMAIN Append(s, e) = 1 .. (Len(s) + 1) /\ Len(s) \in Nat
      /\ \A i \in 1 .. Len(s) : Append(s, e)[i] = s[i]
  OBVIOUS
<1>2. DOMAIN Append(s, e) = DOMAIN s \cup {Len(s) + 1} /\ Len(s) + 1 \notin DOMAIN s  BY <1>1
<1>3. ToSet(Append(s, e)) = ToSet(s) \cup {e}  BY <1>1, <1>2 DEF ToSet
<1> QED  BY <1>1, <1>2, <1>3

LEMMA TailOf ==
    ASSUME NEW T, NEW s \in Seq(T), s # << >>
    PROVE  /\ Head(s) \in T /\ Head(s) = s[1] /\ Tail(s) \in Seq(T) /\ Len(Tail(s)) = Len(s) - 1
           /\ Len(s) \in Nat /\ Len(s) >= 1 /\ 1 \in DOMAIN s
           /\ DOMAIN Tail(s) = 1 .. (Len(s) - 1)
           /\ \A i \in DOMAIN Tail(s) : i + 1 \in DOMAIN s /\ Tail(s)[i] = s[i + 1]
           /\ \A i \in DOMAIN s : i = 1 \/ (i - 1 \in DOMAIN Tail(s) /\ Tail(s)[i - 1] = s[i])
           /\ ToSet(s) = {Head(s)} \cup ToSet(Tail(s))
<1>1. /\ Head(s) \in T /\ Head(s) = s[1] /\ Tail(s) \in Seq(T) /\ Len(Tail(s)) = Len(s) - 1
      /\ Len(s) \in Nat /\ Len(s) >= 1 /\ DOMAIN s = 1 .. Len(s)
      /\ DOMAIN Tail(s) = 1 .. (Len(s) - 1)
      /\ \A i \in 1 .. (Len(s) - 1) : Tail(s)[i] = s[i + 1]
  OBVIOUS
<1>2. \A i \in DOMAIN s : i = 1 \/ (i - 1 \in DOMAIN Tail(s) /\ Tail(s)[i - 1] = s[i])
  <2>1. ASSUME NEW i \in DOMAIN s, i # 1 PROVE i - 1 \in 1 .. (Len(s) - 1) /\ (i - 1) + 1 = i
    BY <1>1, <2>1
  <2> QED  BY <1>1, <2>1
<1>3. \A i \in DOMAIN Tail(s) : i + 1 \in DOMAIN s /\ Tail(s)[i] = s[i + 1]  BY <1>1
<1>4. ASSUME NEW x \in ToSet(s) PROVE x \in {Head(s)} \cup ToSet(Tail(s))
  <2>1. PICK i \in DOMAIN s : x = s[i]  BY DEF ToSet
  <2>2. CASE i = 1  BY <1>1, <2>1, <2>2
  <2>3. CASE i # 1
    <3>1. i - 1 \in DOMAIN Tail(s) /\ Tail(s)[i - 1] = x  BY <1>2, <2>1, <2>3
    <3> QED  BY <3>1 DEF ToSet
  <2> QED  BY <2>2, <2>3
<1>5. ASSUME NEW x \in ToSet(Tail(s)) PROVE x \in ToSet(s)
  <2>1. PICK i \in DOMAIN Tail(s) : x = Tail(s)[i]  BY DEF ToSet
  <2>2. i + 1 \in DOMAIN s /\ s[i + 1] = x  BY <1>3, <2>1
  <2> QED  BY <2>2 DEF ToSet
<1>6. Head(s) \in ToSet(s) /\ 1 \in DOMAIN s  BY <1>1 DEF ToSet
<1>7. ToSet(s) = {Head(s)} \cup ToSet(Tail(s))  BY <1>4, <1>5, <1>6
<1> QED  BY <1>1, <1>2, <1>3, <1>6, <1>7

(* What the client sends goes up while the link is, and finds out that the  *)
(* other end is gone otherwise.                                             *)
LEMMA SendEffect ==
    ASSUME WindowTyped, NEW f \in UpFrames, Send(f)
    PROVE  /\ up' \in Seq(UpFrames) /\ down' \in Seq(DownFrames)
           /\ link = "up" => up' = Append(up, f) /\ down' = down /\ ToSet(up') = ToSet(up) \cup {f}
           /\ link # "up" => up' = up
           /\ down' = down \/ (link = "cut" /\ down' = << << "eof" >> >>)
           /\ \A i \in DOMAIN up' : up'[i] = f \/ (i \in DOMAIN up /\ up'[i] = up[i])
<1>0. up \in Seq(UpFrames) /\ down \in Seq(DownFrames) /\ link \in {"up", "cut", "off"}
  BY DEF WindowTyped, SocketTyped
<1>1. CASE link = "up"
  <2>1. up' = Append(up, f) /\ down' = down  BY <1>1 DEF Send
  <2> QED  BY <1>0, <1>1, <2>1, AppendTo
<1>2. CASE link = "cut"
  <2>1. up' = up /\ down' = << << "eof" >> >>  BY <1>2 DEF Send
  <2>2. << << "eof" >> >> \in Seq(DownFrames)  BY DownHas
  <2> QED  BY <1>0, <1>2, <2>1, <2>2
<1>3. CASE link = "off"
  <2>1. up' = up /\ down' = down  BY <1>3 DEF Send
  <2> QED  BY <1>0, <1>3, <2>1
<1> QED  BY <1>0, <1>1, <1>2, <1>3
-----------------------------------------------------------------------------
(* The screen: what is shown, and queued while a popup is open.             *)

LEMMA MineFacts ==
    ASSUME ScreenTyped, NEW r \in OwnRuns
    PROVE  /\ Len(eventQueue) \in Nat /\ DOMAIN eventQueue = 1 .. Len(eventQueue)
           /\ Mine(r) \subseteq 1 .. Len(eventQueue) /\ IsFiniteSet(Mine(r))
           /\ Cardinality(Mine(r)) \in Nat /\ Len(shown[r]) \in Nat
           /\ ToShow(r) \in Nat /\ Fetched(r) \in Nat
<1>1. Len(eventQueue) \in Nat /\ DOMAIN eventQueue = 1 .. Len(eventQueue)  BY DEF ScreenTyped
<1>2. Mine(r) \subseteq 1 .. Len(eventQueue)  BY <1>1 DEF Mine, From
<1>3. IsFiniteSet(Mine(r)) /\ Cardinality(Mine(r)) \in Nat  BY <1>1, <1>2, Positions
<1>4. shown[r] \in Seq(Nat)  BY DEF ScreenTyped
<1>5. Len(shown[r]) \in Nat  BY <1>4
<1>6. ToShow(r) \in Nat  BY <1>3, <1>5 DEF ToShow
<1>7. Fetched(r) \in Nat  BY <1>6 DEF Fetched
<1> QED  BY <1>1, <1>2, <1>3, <1>5, <1>6, <1>7

(* One more position after all of them.                                     *)
LEMMA RankNext ==
    ASSUME NEW n \in Nat, NEW S \in SUBSET (1 .. n)
    PROVE  /\ Cardinality(S \cup {n + 1}) = Cardinality(S) + 1
           /\ Rank(S \cup {n + 1}, n + 1) = Cardinality(S) + 1
           /\ \A i \in S : Rank(S \cup {n + 1}, i) = Rank(S, i)
<1> DEFINE m == n + 1
<1>0. ASSUME NEW i \in S PROVE i \in Nat /\ i <= n /\ i < m /\ ~(m <= i)
  <2>1. i \in 1 .. n  OBVIOUS
  <2> QED  BY <2>1
<1>1. IsFiniteSet(S)  BY Positions
<1>5. m \notin S
  <2>1. ~(m < m)  OBVIOUS
  <2> QED  BY <1>0, <2>1
<1>2. Cardinality(S \cup {m}) = Cardinality(S) + 1  BY <1>1, <1>5, FS_AddElement
<1>3. {j \in S \cup {m} : j <= m} = S \cup {m}
  <2>1. m <= m  OBVIOUS
  <2>2. \A j \in S : j <= m
    <3>1. ASSUME NEW j \in S PROVE j <= m
      <4>1. j \in 1 .. n  OBVIOUS
      <4> QED  BY <4>1
    <3> QED  BY <3>1
  <2> QED  BY <2>1, <2>2
<1>4. \A i \in S : {j \in S \cup {m} : j <= i} = {j \in S : j <= i}
  <2>1. ASSUME NEW i \in S PROVE ~(m <= i)  BY <1>0
  <2> QED  BY <2>1
<1> QED  BY <1>2, <1>3, <1>4 DEF Rank

LEMMA RankOne ==
    Cardinality({1}) = 1 /\ Rank({1}, 1) = 1
<1>1. {j \in {1} : j <= 1} = {1}  OBVIOUS
<1> QED  BY <1>1, FS_Singleton DEF Rank

(* Events that go on where the screen ends are shown in their order.        *)
LEMMA ShownGoesOn ==
    ASSUME ScreenTyped, NEW q \in Seq(OwnRuns \X Nat), NEW r \in OwnRuns,
           \A i \in DOMAIN shown[r] : shown[r][i] = i,
           \A i \in From(q, r) : q[i][2] = Len(shown[r]) + Rank(From(q, r), i)
    PROVE  /\ Shown(q)[r] \in Seq(Nat) /\ Len(Shown(q)[r]) = Len(shown[r]) + Cardinality(From(q, r))
           /\ \A i \in DOMAIN Shown(q)[r] : Shown(q)[r][i] = i
<1> DEFINE P == From(q, r)
           t == Pick(q, P)
           s == shown[r]
           u == [k \in DOMAIN t |-> t[k][2]]
<1>0. P = { i \in DOMAIN q : q[i][1] = r }  BY DEF From
<1> HIDE DEF P
<1>10. P \subseteq DOMAIN q  BY <1>0
<1>1. /\ t \in Seq(OwnRuns \X Nat) /\ Len(t) = Cardinality(P) /\ Cardinality(P) \in Nat
      /\ \A k \in 1 .. Cardinality(P) : Nth(P, k) \in P /\ Rank(P, Nth(P, k)) = k
                                        /\ t[k] = q[Nth(P, k)]
  BY <1>10, PickProperties
<1>2. s \in Seq(Nat) /\ Len(s) \in Nat  BY DEF ScreenTyped
<1>3. DOMAIN t = 1 .. Cardinality(P)  BY <1>1
<1>4. \A k \in 1 .. Cardinality(P) : t[k][2] = Len(s) + k
  <2>1. \A i \in P : q[i][2] = Len(s) + Rank(P, i)  BY DEF P
  <2> QED  BY <1>1, <2>1
<1> HIDE DEF t, s
<1>5. u \in Seq(Nat) /\ Len(u) = Cardinality(P)
  <2>0. PICK c \in Nat : c = Cardinality(P)  BY <1>1
  <2>3. \A k \in 1 .. c : t[k][2] \in Nat  BY <1>1, <1>2, <1>4, <2>0
  <2>1. u \in [1 .. c -> Nat]  BY <1>3, <2>0, <2>3
  <2> HIDE DEF u
  <2>2. u \in Seq(Nat) /\ Len(u) = c  BY <2>1
  <2> QED  BY <2>0, <2>2
<1>6. \A k \in 1 .. Cardinality(P) : u[k] = Len(s) + k  BY <1>3, <1>4
<1>7. Shown(q)[r] = s \o u  BY <1>0 DEF Shown, s, t
<1>8. \A i \in DOMAIN s : s[i] = i  BY DEF s
<1> HIDE DEF u
<1> HIDE DEF s
<1>9. /\ s \o u \in Seq(Nat) /\ Len(s \o u) = Len(s) + Len(u)
      /\ \A i \in DOMAIN (s \o u) : (s \o u)[i] = i
  <2>3. /\ s \o u \in Seq(Nat) /\ Len(s \o u) = Len(s) + Len(u)
        /\ \A i \in 1 .. Len(s) + Len(u) : (s \o u)[i] = IF i <= Len(s) THEN s[i] ELSE u[i - Len(s)]
    BY ONLY <1>2, <1>5, ConcatProperties
  <2>4. Len(u) \in Nat  BY <1>5
  <2>5. DOMAIN (s \o u) = 1 .. (Len(s) + Len(u))
    <3>1. DOMAIN (s \o u) = 1 .. Len(s \o u)  BY <2>3
    <3> QED  BY <2>3, <3>1
  <2>1. /\ s \o u \in Seq(Nat) /\ Len(s \o u) = Len(s) + Len(u)
        /\ DOMAIN (s \o u) = 1 .. (Len(s) + Len(u)) /\ Len(u) \in Nat
        /\ \A i \in 1 .. (Len(s) + Len(u)) : (s \o u)[i] = IF i <= Len(s) THEN s[i] ELSE u[i - Len(s)]
    BY <2>3, <2>4, <2>5
  <2>2. ASSUME NEW i \in 1 .. (Len(s) + Len(u)) PROVE (s \o u)[i] = i
    <3>1. CASE i <= Len(s)
      <4>1. i \in DOMAIN s  BY <1>2, <2>1, <3>1
      <4> QED  BY <1>8, <2>1, <3>1, <4>1
    <3>2. CASE ~(i <= Len(s))
      <4>1. i - Len(s) \in 1 .. Cardinality(P) /\ Len(s) + (i - Len(s)) = i
        BY <1>1, <1>2, <1>5, <2>1, <3>2
      <4> QED  BY <1>6, <2>1, <3>2, <4>1
    <3> QED  BY <3>1, <3>2
  <2> QED  BY <2>1, <2>2
<1> QED  BY <1>5, <1>7, <1>9 DEF s, P

(* The queue is shown and emptied: no event is counted more or less.        *)
LEMMA Drained ==
    ASSUME WindowTyped, ScreenInv, shown' = Shown(eventQueue), eventQueue' = << >>
    PROVE  /\ shown' \in [OwnRuns -> Seq(Nat)] /\ eventQueue' \in Seq(OwnRuns \X Nat)
           /\ \A r \in OwnRuns : /\ \A i \in DOMAIN shown'[r] : shown'[r][i] = i
                                 /\ Mine(r)' = {} /\ ToShow(r)' = ToShow(r)
<1>0. ScreenTyped /\ eventQueue \in Seq(OwnRuns \X Nat)  BY DEF WindowTyped, ScreenTyped
<1>1. ASSUME NEW r \in OwnRuns
      PROVE  /\ shown'[r] \in Seq(Nat) /\ Len(shown'[r]) = ToShow(r)
             /\ \A i \in DOMAIN shown'[r] : shown'[r][i] = i
  <2>1. /\ \A i \in DOMAIN shown[r] : shown[r][i] = i
        /\ \A i \in Mine(r) : eventQueue[i][2] = Len(shown[r]) + Rank(Mine(r), i)
    BY DEF ScreenInv
  <2>3. /\ Shown(eventQueue)[r] \in Seq(Nat)
        /\ Len(Shown(eventQueue)[r]) = Len(shown[r]) + Cardinality(Mine(r))
        /\ \A i \in DOMAIN Shown(eventQueue)[r] : Shown(eventQueue)[r][i] = i
    BY <1>0, <2>1, ShownGoesOn DEF Mine
  <2> QED  BY <2>3 DEF ToShow
<1>2. shown' = [r \in OwnRuns |-> shown'[r]]  BY DEF Shown
<1>3. shown' \in [OwnRuns -> Seq(Nat)]  BY <1>1, <1>2
<1>4. ASSUME NEW r \in OwnRuns PROVE Mine(r)' = {} /\ ToShow(r)' = ToShow(r)
  <2>1. Mine(r)' = {}  BY DEF Mine, From
  <2>2. Cardinality(Mine(r)') = 0  BY <2>1, FS_EmptySet
  <2>3. ToShow(r)' = Len(shown'[r]) + 0  BY <2>2 DEF ToShow
  <2>4. ToShow(r) \in Nat  BY <1>0, MineFacts
  <2> QED  BY <1>1, <2>1, <2>3, <2>4
<1>5. eventQueue' \in Seq(OwnRuns \X Nat)  OBVIOUS
<1> QED  BY <1>1, <1>3, <1>4, <1>5
-----------------------------------------------------------------------------
(* What most steps keep: the events counted, the frames on their way, and   *)
(* the prompts the window holds.                                            *)

Screens ==
    \/ UNCHANGED << eventQueue, shown >> /\ (popup' = Nobody => eventQueue = << >>)
    \/ shown' = Shown(eventQueue) /\ eventQueue' = << >>
EventsSame ==
    \A r \in OwnRuns : /\ (exec'[r] = "event") <=> (exec[r] = "event")
                       /\ exec[r] = "event" => event'[r] = event[r]

StartStep ==
    \A r \in OwnRuns :
        /\ exec'[r] \in Unbegun =>
              exec[r] \in Unbegun /\ run'[r] = run[r] /\ sent'[r] = sent[r] /\ inbox'[r] = inbox[r]
        /\ r \in waiting' => r \in waiting /\ exec'[r] \in {"read", "event"}
        /\ \A i \in DOMAIN up' : up'[i] = << "run", r >> => \E j \in DOMAIN up : up[j] = << "run", r >>

Silent(r) ==
    \/ down' = down
    \/ \E f \in DownFrames : (\A n \in Nat : f # << "event", r, n >>) /\ down' = Append(down, f)
    \/ down' = << << "eof" >> >> /\ link' # "up"
SocketStep ==
    /\ sent' = sent /\ inbox' = inbox /\ waiting' \subseteq waiting
    /\ link' = "up" => link = "up" \/ waiting' = {}
    /\ \A r \in OwnRuns : /\ exec'[r] \in {"read", "event"} => exec[r] \in {"read", "event"}
                          /\ Silent(r)

AtHand(p) ==
    \/ p \in covered
    \/ hand = p \/ popup = p \/ p \in ToSet(popupQueue)
    \/ << "ask", p >> \in ToSet(down)
    \/ \E ok \in BOOLEAN : << "reply", p, ok >> \in ToSet(up) \/ << p, ok >> \in replying
PromptStep ==
    link' = "up" /\ served' = "open" => \A p \in asks' : p \in Unsettled' =>
        \/ AtHand(p)'
        \/ /\ link = "up" /\ served = "open" /\ p \in asks /\ p \in Unsettled
           /\ AtHand(p) => AtHand(p)'

LEMMA ScreenKept ==
    ASSUME WindowTyped, ScreenInv, Screens, EventsSame
    PROVE  /\ shown' \in [OwnRuns -> Seq(Nat)] /\ eventQueue' \in Seq(OwnRuns \X Nat)
           /\ ScreenInv'
           /\ \A r \in OwnRuns : ToShow(r)' = ToShow(r) /\ Fetched(r)' = Fetched(r)
<1>0. /\ shown \in [OwnRuns -> Seq(Nat)] /\ eventQueue \in Seq(OwnRuns \X Nat)
  BY DEF WindowTyped, ScreenTyped
<1>1. CASE UNCHANGED << eventQueue, shown >> /\ (popup' = Nobody => eventQueue = << >>)
  <2>1. \A r \in OwnRuns : Mine(r)' = Mine(r) /\ ToShow(r)' = ToShow(r)
    BY <1>1 DEF Mine, From, ToShow
  <2>2. \A r \in OwnRuns : Fetched(r)' = Fetched(r)  BY <2>1 DEF Fetched, EventsSame
  <2>3. \A r \in OwnRuns : exec'[r] = "event" => event'[r] = ToShow(r)' + 1
    BY <2>1 DEF ScreenInv, EventsSame
  <2>4. ScreenInv'  BY <1>1, <2>1, <2>3 DEF ScreenInv
  <2> QED  BY <1>0, <1>1, <2>1, <2>2, <2>4
<1>2. CASE shown' = Shown(eventQueue) /\ eventQueue' = << >>
  <2>1. /\ shown' \in [OwnRuns -> Seq(Nat)] /\ eventQueue' \in Seq(OwnRuns \X Nat)
        /\ \A r \in OwnRuns : /\ \A i \in DOMAIN shown'[r] : shown'[r][i] = i
                              /\ Mine(r)' = {} /\ ToShow(r)' = ToShow(r)
    BY <1>2, Drained
  <2>2. \A r \in OwnRuns : Fetched(r)' = Fetched(r)  BY <2>1 DEF Fetched, EventsSame
  <2>3. \A r \in OwnRuns : exec'[r] = "event" => event'[r] = ToShow(r)' + 1
    BY <2>1 DEF ScreenInv, EventsSame
  <2>4. ScreenInv'  BY <1>2, <2>1, <2>3 DEF ScreenInv
  <2> QED  BY <2>1, <2>2, <2>4
<1> QED  BY <1>1, <1>2 DEF Screens

LEMMA StartKept ==
    ASSUME StartInv, StartStep, \A r \in OwnRuns : ToShow(r)' = ToShow(r)
    PROVE  StartInv'
BY DEF StartInv, StartStep

LEMMA PromptsKept ==
    ASSUME NoPromptMislaid, PromptStep
    PROVE  NoPromptMislaid'
<1>1. link = "up" /\ served = "open" => \A p \in asks : p \in Unsettled => AtHand(p)
  BY DEF NoPromptMislaid, AtHand
<1>2. link' = "up" /\ served' = "open" => \A p \in asks' : p \in Unsettled' => AtHand(p)'
  BY <1>1 DEF PromptStep
<1> QED  BY <1>2 DEF NoPromptMislaid, AtHand

(* The frames of a run stay what they are when none of its own is added.    *)
LEMMA FramesKept ==
    ASSUME WindowTyped, NEW r \in OwnRuns, sent'[r] = sent[r], Silent(r)
    PROVE  /\ (\A i \in DOMAIN down, n \in Nat : OnSocket(r, n, i) => 1 <= n /\ n <= sent[r])
              => \A i \in DOMAIN down', n \in Nat : OnSocket(r, n, i)' => 1 <= n /\ n <= sent'[r]
           /\ FramesInv(r) /\ Received(r)' = Received(r) /\ (link' = "up" => link = "up")
              => FramesInv(r)'
<1>0. down \in Seq(DownFrames)  BY DEF WindowTyped, SocketTyped
<1>1. CASE down' = down
  <2>1. \A i, n : OnSocket(r, n, i)' <=> OnSocket(r, n, i)  BY <1>1 DEF OnSocket
  <2> QED  BY <1>1, <2>1 DEF FramesInv
<1>2. ASSUME NEW f \in DownFrames, \A n \in Nat : f # << "event", r, n >>, down' = Append(down, f)
      PROVE  /\ (\A i \in DOMAIN down, n \in Nat : OnSocket(r, n, i) => 1 <= n /\ n <= sent[r])
                => \A i \in DOMAIN down', n \in Nat : OnSocket(r, n, i)' => 1 <= n /\ n <= sent'[r]
             /\ FramesInv(r) /\ Received(r)' = Received(r) /\ (link' = "up" => link = "up")
                => FramesInv(r)'
  <2>1. /\ DOMAIN down' = DOMAIN down \cup {Len(down) + 1} /\ down'[Len(down) + 1] = f
        /\ \A i \in DOMAIN down : down'[i] = down[i]
    BY <1>0, <1>2, AppendTo
  <2>2. \A i \in DOMAIN down', n \in Nat : OnSocket(r, n, i)' => i \in DOMAIN down /\ OnSocket(r, n, i)
    BY <1>2, <2>1 DEF OnSocket
  <2>3. \A i \in DOMAIN down, n \in Nat : i \in DOMAIN down' /\ (OnSocket(r, n, i)' <=> OnSocket(r, n, i))
    BY <2>1 DEF OnSocket
  <2>4. (\A i \in DOMAIN down, n \in Nat : OnSocket(r, n, i) => 1 <= n /\ n <= sent[r])
        => \A i \in DOMAIN down', n \in Nat : OnSocket(r, n, i)' => 1 <= n /\ n <= sent'[r]
    BY <2>2
  <2>5. ASSUME FramesInv(r), Received(r)' = Received(r), link' = "up" => link = "up"
        PROVE  FramesInv(r)'
    <3>1. Received(r)' <= sent'[r]  BY <2>5 DEF FramesInv
    <3>2. ASSUME NEW i \in DOMAIN down', NEW n \in Nat, OnSocket(r, n, i)'
          PROVE  /\ n > Received(r)'
                 /\ \A m \in (Received(r)' + 1) .. (n - 1) : \E j \in 1 .. (i - 1) : OnSocket(r, m, j)'
                 /\ \A j \in DOMAIN down' : OnSocket(r, n, j)' => j = i
      <4>1. i \in DOMAIN down /\ OnSocket(r, n, i)  BY <2>2, <3>2
      <4>2. /\ n > Received(r)
            /\ \A m \in (Received(r) + 1) .. (n - 1) : \E j \in 1 .. (i - 1) : OnSocket(r, m, j)
            /\ \A j \in DOMAIN down : OnSocket(r, n, j) => j = i
        BY <2>5, <4>1 DEF FramesInv
      <4>3. \A j \in 1 .. (i - 1) : j \in DOMAIN down  BY <1>0, <4>1
      <4>4. \A m, j : j \in DOMAIN down => (OnSocket(r, m, j)' <=> OnSocket(r, m, j))  BY <2>1 DEF OnSocket
      <4> QED  BY <2>2, <2>5, <4>2, <4>3, <4>4
    <3>3. link' = "up" => \A n \in (Received(r)' + 1) .. sent'[r] : \E j \in DOMAIN down' : OnSocket(r, n, j)'
      <4>4. \A m, j : j \in DOMAIN down => (OnSocket(r, m, j)' <=> OnSocket(r, m, j))  BY <2>1 DEF OnSocket
      <4> QED  BY <2>1, <2>5, <4>4 DEF FramesInv
    <3> QED  BY <3>1, <3>2, <3>3 DEF FramesInv
  <2> QED  BY <2>4, <2>5
<1>3. CASE down' = << << "eof" >> >> /\ link' # "up"
  <2>1. \A i \in DOMAIN down', n \in Nat : ~ OnSocket(r, n, i)'
    <3>1. DOMAIN down' = {1} /\ down'[1] = << "eof" >>  BY <1>3
    <3>2. \A n \in Nat : << "eof" >> # << "event", r, n >>  OBVIOUS
    <3> QED  BY <3>1, <3>2 DEF OnSocket
  <2>2. FramesInv(r) /\ Received(r)' = Received(r) => Received(r)' <= sent'[r]  BY DEF FramesInv
  <2> QED  BY <1>3, <2>1, <2>2 DEF FramesInv
<1> QED  BY <1>1, <1>2, <1>3 DEF Silent

LEMMA SocketKept ==
    ASSUME WindowTyped, SocketInv, SocketStep, \A r \in OwnRuns : Fetched(r)' = Fetched(r)
    PROVE  SocketInv'
<1> SUFFICES ASSUME NEW r \in OwnRuns
             PROVE  /\ \A i \in DOMAIN down', n \in Nat : OnSocket(r, n, i)' => 1 <= n /\ n <= sent'[r]
                    /\ exec'[r] \in {"read", "event"} => InboxInv(r)'
                    /\ r \in waiting' => FramesInv(r)'
  BY DEF SocketInv
<1>1. \A i \in DOMAIN down, n \in Nat : OnSocket(r, n, i) => 1 <= n /\ n <= sent[r]  BY DEF SocketInv
<1>2. sent'[r] = sent[r] /\ Silent(r)  BY DEF SocketStep
<1>3. Received(r)' = Received(r)  BY DEF Received, SocketStep
<1>4. exec'[r] \in {"read", "event"} => InboxInv(r)'  BY DEF SocketInv, SocketStep, InboxInv
<1>5. r \in waiting' => FramesInv(r) /\ (link' = "up" => link = "up")  BY DEF SocketInv, SocketStep
<1> QED  BY <1>1, <1>2, <1>3, <1>4, <1>5, FramesKept

(* A step that keeps all of them keeps the invariant.                       *)
LEMMA Kept ==
    ASSUME WindowInv, Screens, EventsSame, StartStep, SocketStep, PromptStep,
           DaemonTyped', SocketTyped', LinkInv', AskedInv',
           shown' \in [OwnRuns -> Seq(Nat)] /\ eventQueue' \in Seq(OwnRuns \X Nat) => ScreenTyped'
    PROVE  WindowInv'
<1>1. /\ WindowTyped /\ ScreenInv /\ StartInv /\ SocketInv /\ NoPromptMislaid  BY DEF WindowInv
<1>2. /\ shown' \in [OwnRuns -> Seq(Nat)] /\ eventQueue' \in Seq(OwnRuns \X Nat) /\ ScreenInv'
      /\ \A r \in OwnRuns : ToShow(r)' = ToShow(r) /\ Fetched(r)' = Fetched(r)
  BY <1>1, ScreenKept
<1>3. WindowTyped'  BY <1>2 DEF WindowTyped
<1>4. StartInv'  BY <1>1, <1>2, StartKept
<1>5. SocketInv'  BY <1>1, <1>2, SocketKept
<1>6. NoPromptMislaid'  BY <1>1, PromptsKept
<1> QED  BY <1>2, <1>3, <1>4, <1>5, <1>6 DEF WindowInv
-----------------------------------------------------------------------------
(* The daemon's steps.                                                      *)

Still == UNCHANGED << execVars, tuiVars, popupVars, choices, login, asked, endMissed, covered >>

LEMMA DaemonKept ==
    ASSUME WindowInv, Still, UNCHANGED << sent, inbox, waiting >>,
           \A r \in OwnRuns : exec[r] \in Unbegun => run'[r] = run[r],
           \A r \in OwnRuns : \A i \in DOMAIN up' :
              up'[i] = << "run", r >> => \E j \in DOMAIN up : up[j] = << "run", r >>,
           link' = "up" => link = "up" \/ waiting' = {},
           \A r \in OwnRuns : Silent(r),
           PromptStep, DaemonTyped', SocketTyped', LinkInv', AskedInv'
    PROVE  WindowInv'
<1>1. /\ UNCHANGED << exec, event, handle, popup, popupQueue, eventQueue, shown, choices >>
  BY DEF Still, execVars, tuiVars, popupVars
<1>2. ScreenTyped'  BY <1>1 DEF WindowInv, WindowTyped, ScreenTyped
<1>3. Screens  BY <1>1 DEF Screens, WindowInv, ScreenInv
<1>4. EventsSame  BY <1>1 DEF EventsSame
<1>5. StartStep  BY <1>1 DEF StartStep, WindowInv, StartInv
<1>6. SocketStep  BY <1>1 DEF SocketStep
<1> QED  BY <1>2, <1>3, <1>4, <1>5, <1>6, Kept

(* A step that leaves the frames that come down, and the link, alone.       *)
LEMMA DaemonQuiet ==
    ASSUME WindowInv, Still, UNCHANGED << sent, inbox, waiting, link, down, hand, quit >>,
           \A r \in OwnRuns : exec[r] \in Unbegun => run'[r] = run[r],
           up' = up \/ (up # << >> /\ up' = Tail(up)),
           PromptStep, DaemonTyped',
           ~quit /\ link = "up" => served' = "open",
           ~quit /\ link # "up" => served' = "none" /\ asks' = {} /\ matched' = Nobody
                                   /\ \A r \in OwnRuns : run'[r] \in {"new", "over"},
           AskedInv'
    PROVE  WindowInv'
<1>1. up \in Seq(UpFrames) /\ SocketTyped /\ LinkInv  BY DEF WindowInv, WindowTyped, SocketTyped
<1>2. CASE up' = up
  <2>1. SocketTyped'  BY <1>1, <1>2 DEF SocketTyped
  <2>2. LinkInv'  BY <1>1 DEF LinkInv
  <2>3. \A r \in OwnRuns : Silent(r)  BY DEF Silent
  <2> QED  BY <1>2, <2>1, <2>2, <2>3, DaemonKept
<1>3. CASE up # << >> /\ up' = Tail(up)
  <2>0. /\ Tail(up) \in Seq(UpFrames)
        /\ \A i \in DOMAIN Tail(up) : i + 1 \in DOMAIN up /\ Tail(up)[i] = up[i + 1]
    BY <1>1, <1>3, TailOf
  <2>1. SocketTyped'  BY <1>1, <1>3, <2>0 DEF SocketTyped
  <2>2. LinkInv'  BY <1>1 DEF LinkInv
  <2>3. \A r \in OwnRuns : Silent(r)  BY DEF Silent
  <2>4. \A r \in OwnRuns : \A i \in DOMAIN up' :
           up'[i] = << "run", r >> => \E j \in DOMAIN up : up[j] = << "run", r >>
    BY <1>3, <2>0
  <2> QED  BY <2>1, <2>2, <2>3, <2>4, DaemonKept
<1> QED  BY <1>2, <1>3

LEMMA WindowParts ==
    ASSUME WindowInv
    PROVE  /\ DaemonTyped /\ SocketTyped /\ ScreenTyped /\ WindowTyped
           /\ LinkInv /\ AskedInv /\ ScreenInv /\ StartInv /\ SocketInv /\ NoPromptMislaid
           /\ up \in Seq(UpFrames) /\ down \in Seq(DownFrames)
           /\ Unsettled \subseteq Prompts
BY DEF WindowInv, WindowTyped, SocketTyped, Unsettled

LEMMA ServeRunKept ==
    ASSUME WindowInv, ServeRun, Still
    PROVE  WindowInv'
<1>0. DaemonTyped /\ LinkInv /\ AskedInv /\ StartInv /\ up \in Seq(UpFrames)  BY WindowParts
<1>1. PICK q \in OwnRuns : Head(up) = << "run", q >> /\ q = Head(up)[2]
  <2>1. Head(up) \in UpFrames  BY <1>0, TailOf DEF ServeRun
  <2> QED  BY <2>1, UpKinds DEF ServeRun
<1>2. run' = [run EXCEPT ![q] = "on"]  BY <1>1 DEF ServeRun
<1>3. UNCHANGED << sent, stop, prompt, asks, matched, served, replying, restarts, link, down,
                   waiting, hand, inbox, quit, covered, popup, popupQueue >>
  BY DEF ServeRun, Still, clientVars, popupVars
<1>4. up # << >> /\ up' = Tail(up) /\ served = "open"  BY DEF ServeRun
<1>5. Head(up) = up[1] /\ 1 \in DOMAIN up /\ ToSet(up) = {Head(up)} \cup ToSet(Tail(up))
  BY <1>0, <1>4, TailOf
<1>6. exec[q] \notin Unbegun  BY <1>0, <1>1, <1>5 DEF StartInv
<1>7. \A r \in OwnRuns : exec[r] \in Unbegun => run'[r] = run[r]
  BY <1>0, <1>2, <1>6 DEF DaemonTyped, Runs
<1>8. DaemonTyped'  BY <1>0, <1>2, <1>3 DEF DaemonTyped
<1>9. \A p, ok : << "reply", p, ok >> \in ToSet(up) => << "reply", p, ok >> \in ToSet(up')
  BY <1>1, <1>4, <1>5
<1>10. Unsettled' = Unsettled  BY <1>3 DEF Unsettled
<1>11. PromptStep  BY <1>3, <1>9, <1>10 DEF PromptStep, AtHand
<1>12. AskedInv'
  <2>1. \A r \in Runs : run[r] # "new" => run'[r] # "new"  BY <1>0, <1>2 DEF DaemonTyped
  <2>2. \A p \in Unsettled : Of[p] \in Runs  BY IpcAssumption DEF Unsettled
  <2> QED  BY <1>0, <1>3, <1>10, <2>1, <2>2 DEF AskedInv
<1> QED  BY <1>0, <1>3, <1>4, <1>7, <1>8, <1>11, <1>12, DaemonQuiet DEF LinkInv

LEMMA ServeCancelKept ==
    ASSUME WindowInv, ServeCancel, Still
    PROVE  WindowInv'
<1>0. DaemonTyped /\ LinkInv /\ AskedInv /\ up \in Seq(UpFrames)  BY WindowParts
<1>3. UNCHANGED << run, sent, prompt, asks, matched, served, replying, restarts, link, down,
                   waiting, hand, inbox, quit, covered, popup, popupQueue >>
  BY DEF ServeCancel, Still, clientVars, popupVars
<1>4. up # << >> /\ up' = Tail(up) /\ Head(up)[1] = "cancel"  BY DEF ServeCancel
<1>5. Head(up) \in UpFrames /\ ToSet(up) = {Head(up)} \cup ToSet(Tail(up))  BY <1>0, <1>4, TailOf
<1>8. DaemonTyped'  BY <1>0, <1>3 DEF DaemonTyped
<1>9. \A p, ok : << "reply", p, ok >> \in ToSet(up) => << "reply", p, ok >> \in ToSet(up')
  BY <1>4, <1>5, UpKinds
<1>10. Unsettled' = Unsettled  BY <1>3 DEF Unsettled
<1>11. PromptStep  BY <1>3, <1>9, <1>10 DEF PromptStep, AtHand
<1>12. AskedInv'  BY <1>0, <1>3, <1>10 DEF AskedInv
<1> QED  BY <1>0, <1>3, <1>4, <1>8, <1>11, <1>12, DaemonQuiet DEF LinkInv

LEMMA ServeReplyKept ==
    ASSUME WindowInv, ServeReply, Still
    PROVE  WindowInv'
<1>0. DaemonTyped /\ LinkInv /\ AskedInv /\ up \in Seq(UpFrames)  BY WindowParts
<1>3. UNCHANGED << run, sent, prompt, asks, matched, served, restarts, link, down,
                   waiting, hand, inbox, quit, covered, popup, popupQueue >>
  BY DEF ServeReply, Still, clientVars, popupVars
<1>4. up # << >> /\ up' = Tail(up) /\ Head(up)[1] = "reply"
      /\ replying' = replying \cup {<< Head(up)[2], Head(up)[3] >>}
  BY DEF ServeReply
<1>5. Head(up) \in UpFrames /\ ToSet(up) = {Head(up)} \cup ToSet(Tail(up))  BY <1>0, <1>4, TailOf
<1>6. PICK q \in Prompts, k \in BOOLEAN : Head(up) = << "reply", q, k >>  BY <1>4, <1>5, UpKinds
<1>7. replying' = replying \cup {<< q, k >>}  BY <1>4, <1>6
<1>8. DaemonTyped'  BY <1>0, <1>3, <1>7 DEF DaemonTyped
<1>9. \A p, ok : << "reply", p, ok >> \in ToSet(up)
                 => << "reply", p, ok >> \in ToSet(up') \/ << p, ok >> \in replying'
  BY <1>4, <1>5, <1>6, <1>7
<1>10. Unsettled' = Unsettled  BY <1>3 DEF Unsettled
<1>11. PromptStep
  <2>1. \A p : AtHand(p) => AtHand(p)'  BY <1>3, <1>7, <1>9 DEF AtHand
  <2> QED  BY <1>3, <1>10, <2>1 DEF PromptStep
<1>12. AskedInv'  BY <1>0, <1>3, <1>10 DEF AskedInv
<1> QED  BY <1>0, <1>3, <1>4, <1>8, <1>11, <1>12, DaemonQuiet DEF LinkInv

(* A settled prompt stays settled, and settling begins no run.              *)
LEMMA SettleEffect ==
    ASSUME DaemonTyped, AskedInv, NEW ps, NEW ok \in BOOLEAN, Settle(ps, ok)
    PROVE  /\ run' \in [Runs -> {"new", "sent", "on", "check", "wait", "ended", "over"}]
           /\ prompt' \in [Prompts -> {"new", "open", "picked", "yes", "no", "dropped", "skipped"}]
           /\ Unsettled' \subseteq Unsettled \ ps
           /\ \A p \in Prompts : prompt[p] # "new" => prompt'[p] # "new"
           /\ \A r \in Runs : /\ run[r] = "new" => run'[r] = "new"
                              /\ run[r] # "new" => run'[r] # "new"
           /\ ps = {} => run' = run
<1>1. /\ prompt' = [p \in Prompts |-> IF p \in ps \cap Unsettled THEN (IF ok THEN "yes" ELSE "no") ELSE prompt[p]]
      /\ run' = [r \in Runs |-> IF \E p \in ps \cap Unsettled : Of[p] = r
                                THEN (IF ok THEN "on" ELSE "ended") ELSE run[r]]
  BY DEF Settle
<1>2. /\ run \in [Runs -> {"new", "sent", "on", "check", "wait", "ended", "over"}]
      /\ prompt \in [Prompts -> {"new", "open", "picked", "yes", "no", "dropped", "skipped"}]
  BY DEF DaemonTyped
<1>3. run' \in [Runs -> {"new", "sent", "on", "check", "wait", "ended", "over"}]  BY <1>1, <1>2
<1>4. prompt' \in [Prompts -> {"new", "open", "picked", "yes", "no", "dropped", "skipped"}]  BY <1>1, <1>2
<1>5. Unsettled' \subseteq Unsettled \ ps  BY <1>1, <1>2 DEF Unsettled
<1>6. \A p \in Prompts : prompt[p] # "new" => prompt'[p] # "new"  BY <1>1, <1>2
<1>7. \A p \in ps \cap Unsettled : run[Of[p]] # "new"  BY DEF AskedInv
<1>8. \A r \in Runs : /\ run[r] = "new" => run'[r] = "new"
                      /\ run[r] # "new" => run'[r] # "new"
  BY <1>1, <1>2, <1>7
<1>9. ps = {} => run' = run  BY <1>1, <1>2
<1> QED  BY <1>3, <1>4, <1>5, <1>6, <1>8, <1>9

LEMMA ReplyKept ==
    ASSUME WindowInv, Reply, Still
    PROVE  WindowInv'
<1>0. DaemonTyped /\ LinkInv /\ AskedInv /\ StartInv /\ Unsettled \subseteq Prompts  BY WindowParts
<1>1. PICK x \in replying :
        /\ replying' = replying \ {x}
        /\ asks' = asks \ {x[1]}
        /\ IF x[1] \in asks THEN Settle({x[1]}, x[2]) ELSE UNCHANGED << prompt, run >>
        /\ UNCHANGED << sent, stop, owns, matched, served, restarts, link, up, down, clientVars, quit >>
  BY DEF Reply
<1>2. PICK q \in Prompts, k \in BOOLEAN : x = << q, k >>  BY <1>0, <1>1 DEF DaemonTyped
<1>3. UNCHANGED << sent, matched, served, restarts, link, up, down,
                   waiting, hand, inbox, quit, covered, popup, popupQueue >>
  BY <1>1 DEF Still, clientVars, popupVars
<1>4. replying' = replying \ {<< q, k >>} /\ asks' = asks \ {q}
      /\ IF q \in asks THEN Settle({q}, k) ELSE UNCHANGED << prompt, run >>
  BY <1>1, <1>2
<1>5. /\ run' \in [Runs -> {"new", "sent", "on", "check", "wait", "ended", "over"}]
      /\ prompt' \in [Prompts -> {"new", "open", "picked", "yes", "no", "dropped", "skipped"}]
      /\ Unsettled' \subseteq Unsettled
      /\ \A p \in Prompts : prompt[p] # "new" => prompt'[p] # "new"
      /\ \A r \in Runs : /\ run[r] = "new" => run'[r] = "new"
                         /\ run[r] # "new" => run'[r] # "new"
      /\ asks = {} => run' = run
  <2>1. CASE q \in asks  BY <1>0, <1>4, <2>1, SettleEffect
  <2>2. CASE q \notin asks  BY <1>0, <1>4, <2>2 DEF DaemonTyped, Unsettled
  <2> QED  BY <2>1, <2>2
<1>6. \A r \in OwnRuns : exec[r] \in Unbegun => run'[r] = run[r]  BY <1>0, <1>5 DEF StartInv, Runs
<1>7. DaemonTyped'  BY <1>0, <1>3, <1>4, <1>5 DEF DaemonTyped
<1>8. PromptStep
  <2>1. \A p \in asks' : p \in asks /\ p # q  BY <1>4
  <2>2. \A p : p # q /\ AtHand(p) => AtHand(p)'  BY <1>3, <1>4 DEF AtHand
  <2> QED  BY <1>3, <1>5, <2>1, <2>2 DEF PromptStep
<1>9. AskedInv'
  <2>1. asks \subseteq Prompts /\ (matched # Nobody => matched \in Prompts)  BY <1>0 DEF DaemonTyped
  <2>2. \A p \in Prompts : Of[p] \in Runs  BY IpcAssumption
  <2> QED  BY <1>0, <1>3, <1>4, <1>5, <2>1, <2>2 DEF AskedInv
<1>10. ~quit /\ link = "up" => served' = "open"  BY <1>0, <1>3 DEF LinkInv
<1>11. ~quit /\ link # "up" => served' = "none" /\ asks' = {} /\ matched' = Nobody
                                /\ \A r \in OwnRuns : run'[r] \in {"new", "over"}
  BY <1>0, <1>3, <1>4, <1>5 DEF LinkInv
<1> QED  BY <1>3, <1>6, <1>7, <1>8, <1>9, <1>10, <1>11, DaemonQuiet

LEMMA GoneKept ==
    ASSUME WindowInv, Gone, Still
    PROVE  WindowInv'
<1>0. DaemonTyped /\ LinkInv /\ AskedInv /\ StartInv /\ Unsettled \subseteq Prompts  BY WindowParts
<1>1. /\ served = "open" /\ quit /\ served' = "gone" /\ asks' = {} /\ Settle(asks, FALSE)
      /\ UNCHANGED << sent, matched, replying, restarts, link, up, down,
                      waiting, hand, inbox, quit >>
  BY DEF Gone, clientVars
<1>2. /\ run' \in [Runs -> {"new", "sent", "on", "check", "wait", "ended", "over"}]
      /\ prompt' \in [Prompts -> {"new", "open", "picked", "yes", "no", "dropped", "skipped"}]
      /\ Unsettled' \subseteq Unsettled
      /\ \A p \in Prompts : prompt[p] # "new" => prompt'[p] # "new"
      /\ \A r \in Runs : /\ run[r] = "new" => run'[r] = "new"
                         /\ run[r] # "new" => run'[r] # "new"
  BY <1>0, <1>1, SettleEffect
<1>3. \A r \in OwnRuns : exec[r] \in Unbegun => run'[r] = run[r]  BY <1>0, <1>2 DEF StartInv, Runs
<1>4. DaemonTyped'  BY <1>0, <1>1, <1>2 DEF DaemonTyped
<1>5. PromptStep  BY <1>1 DEF PromptStep
<1>6. AskedInv'
  <2>1. matched # Nobody => matched \in Prompts  BY <1>0 DEF DaemonTyped
  <2>2. \A p \in Prompts : Of[p] \in Runs  BY IpcAssumption
  <2> QED  BY <1>0, <1>1, <1>2, <2>1, <2>2 DEF AskedInv
<1> QED  BY <1>1, <1>3, <1>4, <1>5, <1>6, DaemonQuiet

(* The steps of the asker and of a run that send nothing change one prompt, *)
(* or one run, that has begun.                                              *)
LEMMA OnePromptRun ==
    ASSUME WindowInv, Still,
           UNCHANGED << sent, asks, served, replying, link, up, down, waiting, hand, inbox, quit >>,
           DaemonTyped',
           \A r \in Runs : /\ run[r] = "new" => run'[r] = "new"
                           /\ run[r] # "new" => run'[r] # "new",
           \A p \in Prompts : prompt[p] # "new" => prompt'[p] # "new",
           \A p \in Unsettled' : run[Of[p]] # "new",
           \A p \in asks : p \in Unsettled' => p \in Unsettled,
           matched' # Nobody => prompt'[matched'] # "new",
           ~quit /\ link # "up" => matched' = Nobody /\ \A r \in OwnRuns : run'[r] \in {"new", "over"}
    PROVE  WindowInv'
<1>0. DaemonTyped /\ LinkInv /\ AskedInv /\ StartInv /\ Unsettled \subseteq Prompts  BY WindowParts
<1>1. \A r \in OwnRuns : exec[r] \in Unbegun => run'[r] = run[r]  BY <1>0 DEF StartInv, Runs
<1>2. UNCHANGED << covered, popup, popupQueue >>  BY DEF Still, popupVars
<1>3. PromptStep  BY <1>2 DEF PromptStep, AtHand
<1>4. AskedInv'
  <2>1. \A p \in Prompts : Of[p] \in Runs  BY IpcAssumption
  <2>2. \A p \in Unsettled' : p \in Prompts  BY DEF Unsettled
  <2>3. asks \subseteq Prompts  BY <1>0 DEF DaemonTyped
  <2> QED  BY <1>0, <2>1, <2>2, <2>3 DEF AskedInv
<1>5. /\ ~quit /\ link = "up" => served' = "open"
      /\ ~quit /\ link # "up" => served' = "none" /\ asks' = {}
  BY <1>0 DEF LinkInv
<1> QED  BY <1>1, <1>3, <1>4, <1>5, DaemonQuiet

LEMMA PickKept ==
    ASSUME WindowInv, PickNextMatch, Still
    PROVE  WindowInv'
<1>0. DaemonTyped /\ LinkInv /\ AskedInv  BY WindowParts
<1>1. PICK q \in Prompts : /\ prompt[q] = "open" /\ matched' = q
                           /\ prompt' = [prompt EXCEPT ![q] = "picked"]
  BY DEF PickNextMatch
<1>2. /\ served # "none"
      /\ UNCHANGED << run, sent, asks, served, replying, link, up, down, waiting, hand, inbox, quit >>
  BY DEF PickNextMatch, clientVars
<1>3. DaemonTyped'  BY <1>0, <1>1, <1>2 DEF DaemonTyped
<1>4. Unsettled' = Unsettled  BY <1>0, <1>1 DEF Unsettled, DaemonTyped
<1>5. \A p \in Prompts : prompt[p] # "new" => prompt'[p] # "new"  BY <1>0, <1>1 DEF DaemonTyped
<1>6. prompt'[matched'] # "new"  BY <1>0, <1>1 DEF DaemonTyped
<1>7. ~(~quit /\ link # "up")  BY <1>0, <1>2 DEF LinkInv
<1>8. \A p \in Unsettled' : run[Of[p]] # "new"  BY <1>0, <1>4 DEF AskedInv
<1> QED  BY <1>2, <1>3, <1>4, <1>5, <1>6, <1>7, <1>8, OnePromptRun

LEMMA AskerEndsKept ==
    ASSUME WindowInv, AskerEnds, Still
    PROVE  WindowInv'
<1>0. DaemonTyped /\ LinkInv /\ AskedInv /\ StartInv  BY WindowParts
<1>1. /\ served = "gone" /\ served' = "none" /\ matched = Nobody
      /\ UNCHANGED << run, sent, prompt, asks, matched, replying, link, up, down, waiting, hand, inbox, quit >>
  BY DEF AskerEnds, clientVars
<1>2. DaemonTyped'  BY <1>0, <1>1 DEF DaemonTyped
<1>3. PromptStep  BY <1>1 DEF PromptStep
<1>4. AskedInv'  BY <1>0, <1>1 DEF AskedInv, Unsettled
<1>5. quit  BY <1>0, <1>1 DEF LinkInv
<1> QED  BY <1>1, <1>2, <1>3, <1>4, <1>5, DaemonQuiet

LEMMA CheckKept ==
    ASSUME WindowInv, NEW q \in Runs, NEW p \in Prompts, Check(q, p), Still
    PROVE  WindowInv'
<1>0. DaemonTyped /\ LinkInv /\ AskedInv  BY WindowParts
<1>1. /\ run[q] = "on" /\ Of[p] = q /\ prompt[p] = "new"
      /\ \/ /\ served # "none" /\ run' = [run EXCEPT ![q] = "check"] /\ prompt' = prompt
         \/ prompt' = [prompt EXCEPT ![p] = "skipped"] /\ run' = run
      /\ UNCHANGED << sent, asks, matched, served, replying, link, up, down, waiting, hand, inbox, quit >>
  BY DEF Check, clientVars
<1>2. DaemonTyped'  BY <1>0, <1>1 DEF DaemonTyped
<1>3. \A r \in Runs : /\ run[r] = "new" => run'[r] = "new"
                      /\ run[r] # "new" => run'[r] # "new"
  BY <1>0, <1>1 DEF DaemonTyped
<1>4. \A s \in Prompts : prompt[s] # "new" => prompt'[s] # "new"  BY <1>0, <1>1 DEF DaemonTyped
<1>5. Unsettled' = Unsettled  BY <1>0, <1>1 DEF DaemonTyped, Unsettled
<1>6. matched' # Nobody => prompt'[matched'] # "new"  BY <1>0, <1>1, <1>4 DEF AskedInv, DaemonTyped
<1>7. ~quit /\ link # "up" => matched' = Nobody /\ \A r \in OwnRuns : run'[r] \in {"new", "over"}
  BY <1>0, <1>1 DEF LinkInv
<1>8. \A s \in Unsettled' : run[Of[s]] # "new"  BY <1>0, <1>5 DEF AskedInv
<1> QED  BY <1>1, <1>2, <1>3, <1>4, <1>5, <1>6, <1>7, <1>8, OnePromptRun

LEMMA AskKept ==
    ASSUME WindowInv, NEW q \in Runs, NEW p \in Prompts, Ask(q, p), Still
    PROVE  WindowInv'
<1>0. DaemonTyped /\ LinkInv /\ AskedInv  BY WindowParts
<1>1. /\ run[q] = "check" /\ Of[p] = q /\ prompt[p] = "new"
      /\ run' = [run EXCEPT ![q] = "wait"] /\ prompt' = [prompt EXCEPT ![p] = "open"]
      /\ UNCHANGED << sent, asks, matched, served, replying, link, up, down, waiting, hand, inbox, quit >>
  BY DEF Ask, clientVars
<1>2. DaemonTyped'  BY <1>0, <1>1 DEF DaemonTyped
<1>3. \A r \in Runs : /\ run[r] = "new" => run'[r] = "new"
                      /\ run[r] # "new" => run'[r] # "new"
  BY <1>0, <1>1 DEF DaemonTyped
<1>4. \A s \in Prompts : prompt[s] # "new" => prompt'[s] # "new"  BY <1>0, <1>1 DEF DaemonTyped
<1>5. Unsettled' = Unsettled \cup {p}  BY <1>0, <1>1 DEF DaemonTyped, Unsettled
<1>6. matched' # Nobody => prompt'[matched'] # "new"  BY <1>0, <1>1, <1>4 DEF AskedInv, DaemonTyped
<1>7. p \notin asks  BY <1>0, <1>1 DEF AskedInv
<1>8. \A s \in Unsettled' : run[Of[s]] # "new"  BY <1>0, <1>1, <1>5 DEF AskedInv
<1>9. ~quit /\ link # "up" => matched' = Nobody /\ \A r \in OwnRuns : run'[r] \in {"new", "over"}
  <2>1. SUFFICES ASSUME ~quit, link # "up"
                 PROVE  matched' = Nobody /\ \A r \in OwnRuns : run'[r] \in {"new", "over"}
    OBVIOUS
  <2>2. matched = Nobody /\ \A r \in OwnRuns : run[r] \in {"new", "over"}  BY <1>0, <2>1 DEF LinkInv
  <2>3. q \notin OwnRuns  BY <1>1, <2>2
  <2> QED  BY <1>0, <1>1, <2>2, <2>3 DEF DaemonTyped, Runs
<1> QED  BY <1>1, <1>2, <1>3, <1>4, <1>5, <1>6, <1>7, <1>8, <1>9, OnePromptRun

LEMMA StoppedKept ==
    ASSUME WindowInv, NEW q \in Runs, Stopped(q), Still
    PROVE  WindowInv'
<1>0. DaemonTyped /\ LinkInv /\ AskedInv  BY WindowParts
<1>1. /\ run[q] \in {"on", "check", "wait"}
      /\ run' = [run EXCEPT ![q] = "ended"]
      /\ prompt' = [p \in Prompts |-> IF Of[p] = q /\ p \in Unsettled THEN "dropped" ELSE prompt[p]]
      /\ UNCHANGED << sent, asks, matched, served, replying, link, up, down, waiting, hand, inbox, quit >>
  BY DEF Stopped, clientVars
<1>2. DaemonTyped'  BY <1>0, <1>1 DEF DaemonTyped
<1>3. \A r \in Runs : /\ run[r] = "new" => run'[r] = "new"
                      /\ run[r] # "new" => run'[r] # "new"
  BY <1>0, <1>1 DEF DaemonTyped
<1>4. \A s \in Prompts : prompt[s] # "new" => prompt'[s] # "new"  BY <1>0, <1>1 DEF DaemonTyped
<1>5. Unsettled' \subseteq Unsettled  BY <1>0, <1>1 DEF DaemonTyped, Unsettled
<1>6. matched' # Nobody => prompt'[matched'] # "new"  BY <1>0, <1>1, <1>4 DEF AskedInv, DaemonTyped
<1>8. \A s \in Unsettled' : run[Of[s]] # "new"  BY <1>0, <1>5 DEF AskedInv
<1>9. ~quit /\ link # "up" => matched' = Nobody /\ \A r \in OwnRuns : run'[r] \in {"new", "over"}
  <2>1. SUFFICES ASSUME ~quit, link # "up"
                 PROVE  matched' = Nobody /\ \A r \in OwnRuns : run'[r] \in {"new", "over"}
    OBVIOUS
  <2>2. matched = Nobody /\ \A r \in OwnRuns : run[r] \in {"new", "over"}  BY <1>0, <2>1 DEF LinkInv
  <2>3. q \notin OwnRuns  BY <1>1, <2>2
  <2> QED  BY <1>0, <1>1, <2>2, <2>3 DEF DaemonTyped, Runs
<1> QED  BY <1>1, <1>2, <1>3, <1>4, <1>5, <1>6, <1>8, <1>9, OnePromptRun

LEMMA FinishKept ==
    ASSUME WindowInv, NEW q \in Runs, Finish(q), Still
    PROVE  WindowInv'
<1>0. DaemonTyped /\ LinkInv /\ AskedInv  BY WindowParts
<1>1. /\ run[q] = "on" /\ run' = [run EXCEPT ![q] = "ended"]
      /\ UNCHANGED << sent, prompt, asks, matched, served, replying, link, up, down, waiting, hand, inbox, quit >>
  BY DEF Finish, clientVars
<1>2. DaemonTyped'  BY <1>0, <1>1 DEF DaemonTyped
<1>3. \A r \in Runs : /\ run[r] = "new" => run'[r] = "new"
                      /\ run[r] # "new" => run'[r] # "new"
  BY <1>0, <1>1 DEF DaemonTyped
<1>5. Unsettled' = Unsettled  BY <1>1 DEF Unsettled
<1>8. \A s \in Unsettled' : run[Of[s]] # "new"  BY <1>0, <1>5 DEF AskedInv
<1>9. ~quit /\ link # "up" => matched' = Nobody /\ \A r \in OwnRuns : run'[r] \in {"new", "over"}
  <2>1. SUFFICES ASSUME ~quit, link # "up"
                 PROVE  matched' = Nobody /\ \A r \in OwnRuns : run'[r] \in {"new", "over"}
    OBVIOUS
  <2>2. matched = Nobody /\ \A r \in OwnRuns : run[r] \in {"new", "over"}  BY <1>0, <2>1 DEF LinkInv
  <2>3. q \notin OwnRuns  BY <1>1, <2>2
  <2> QED  BY <1>0, <1>1, <2>2, <2>3 DEF DaemonTyped, Runs
<1>10. matched' # Nobody => prompt'[matched'] # "new"  BY <1>0, <1>1 DEF AskedInv
<1>11. \A s \in Prompts : prompt[s] # "new" => prompt'[s] # "new"  BY <1>1
<1> QED  BY <1>1, <1>2, <1>3, <1>5, <1>8, <1>9, <1>10, <1>11, OnePromptRun
-----------------------------------------------------------------------------
(* What the daemon tells the window.                                        *)

LEMMA TellEffect ==
    ASSUME WindowTyped, LinkInv, NEW f \in DownFrames, f # << "eof" >>, Tell(f)
    PROVE  /\ down' \in Seq(DownFrames)
           /\ ToSet(down) \subseteq ToSet(down')
           /\ down' = down \/ down' = Append(down, f)
           /\ link = "up" => down' = Append(down, f) /\ f \in ToSet(down')
           /\ link = "off" => down' = down
           /\ link = "up" => \A i \in DOMAIN down' : down'[i] # << "eof" >>
<1>0. down \in Seq(DownFrames)  BY DEF WindowTyped, SocketTyped
<1>1. /\ Append(down, f) \in Seq(DownFrames) /\ ToSet(Append(down, f)) = ToSet(down) \cup {f}
      /\ DOMAIN Append(down, f) = DOMAIN down \cup {Len(down) + 1}
      /\ Append(down, f)[Len(down) + 1] = f
      /\ \A i \in DOMAIN down : Append(down, f)[i] = down[i]
  BY <1>0, AppendTo
<1>2. down' = IF served = "open" /\ ~quit THEN Append(down, f) ELSE down  BY DEF Tell
<1>3. link = "up" => served = "open" /\ ~quit  BY DEF LinkInv
<1>4. link = "off" => ~(served = "open" /\ ~quit)  BY DEF LinkInv
<1>5. link = "up" => \A i \in DOMAIN down : down[i] # << "eof" >>  BY DEF LinkInv
<1>6. link = "up" => \A i \in DOMAIN down' : down'[i] # << "eof" >>  BY <1>1, <1>2, <1>3, <1>5
<1> QED  BY <1>0, <1>1, <1>2, <1>3, <1>4, <1>6

LEMMA PutKept ==
    ASSUME WindowInv, Put, Still
    PROVE  WindowInv'
<1>0. /\ DaemonTyped /\ SocketTyped /\ WindowTyped /\ LinkInv /\ AskedInv /\ StartInv
      /\ down \in Seq(DownFrames)
  BY WindowParts
<1>1. PICK q \in Prompts : q = matched  BY <1>0 DEF Put, DaemonTyped
<1>2. PICK f \in DownFrames : f = << "ask", q >>  BY DownHas
<1>3. /\ asks' = asks \cup {q} /\ matched' = Nobody /\ Tell(f)
      /\ UNCHANGED << run, sent, prompt, served, replying, link, up, waiting, hand, inbox, quit,
                      covered, popup, popupQueue >>
  BY <1>1, <1>2 DEF Put, clientVars, Still, popupVars
<1>4. f # << "eof" >> /\ \A r, n : f # << "event", r, n >>  BY <1>2
<1>5. /\ down' \in Seq(DownFrames) /\ ToSet(down) \subseteq ToSet(down')
      /\ down' = down \/ down' = Append(down, f)
      /\ link = "up" => f \in ToSet(down')
      /\ link = "off" => down' = down
      /\ link = "up" => \A i \in DOMAIN down' : down'[i] # << "eof" >>
  BY <1>0, <1>3, <1>4, TellEffect
<1>6. DaemonTyped'  BY <1>0, <1>1, <1>3 DEF DaemonTyped
<1>7. SocketTyped'  BY <1>0, <1>3, <1>5 DEF SocketTyped
<1>8. LinkInv'
  <2>1. ~(~quit /\ link # "up")  BY <1>0, <1>1, IpcAssumption DEF LinkInv, Put
  <2> QED  BY <1>0, <1>3, <1>5, <2>1 DEF LinkInv
<1>9. AskedInv'
  <2>1. prompt[q] # "new"  BY <1>0, <1>1 DEF AskedInv, Put
  <2> QED  BY <1>0, <1>3, <2>1 DEF AskedInv, Unsettled
<1>10. PromptStep
  <2>1. link = "up" => AtHand(q)'  BY <1>2, <1>5 DEF AtHand
  <2>2. \A p : AtHand(p) => AtHand(p)'  BY <1>3, <1>5 DEF AtHand
  <2>3. Unsettled' = Unsettled  BY <1>3 DEF Unsettled
  <2> QED  BY <1>3, <2>1, <2>2, <2>3 DEF PromptStep
<1>11. \A r \in OwnRuns : Silent(r)  BY <1>4, <1>5 DEF Silent
<1> QED  BY <1>3, <1>6, <1>7, <1>8, <1>9, <1>10, <1>11, DaemonKept

LEMMA DoneKept ==
    ASSUME WindowInv, NEW q \in Runs, Done(q), Still
    PROVE  WindowInv'
<1>0. /\ DaemonTyped /\ SocketTyped /\ WindowTyped /\ LinkInv /\ AskedInv /\ StartInv
      /\ down \in Seq(DownFrames)
  BY WindowParts
<1>1. /\ run[q] = "ended" /\ run' = [run EXCEPT ![q] = "over"]
      /\ UNCHANGED << sent, prompt, asks, matched, served, replying, link, up, waiting, hand, inbox, quit,
                      covered, popup, popupQueue >>
  BY DEF Done, clientVars, Still, popupVars
<1>2. /\ down' \in Seq(DownFrames) /\ ToSet(down) \subseteq ToSet(down')
      /\ \A r \in OwnRuns : Silent(r)
      /\ link = "off" => down' = down
      /\ link = "up" => \A i \in DOMAIN down' : down'[i] # << "eof" >>
  <2>1. CASE q \in OwnRuns
    <3>1. PICK f \in DownFrames : f = << "done", q >>  BY <2>1, DownHas
    <3>2. f # << "eof" >> /\ (\A r, n : f # << "event", r, n >>) /\ Tell(f)  BY <2>1, <3>1 DEF Done
    <3>3. /\ down' \in Seq(DownFrames) /\ ToSet(down) \subseteq ToSet(down')
          /\ down' = down \/ down' = Append(down, f)
          /\ link = "off" => down' = down
          /\ link = "up" => \A i \in DOMAIN down' : down'[i] # << "eof" >>
      BY <1>0, <3>2, TellEffect
    <3> QED  BY <3>2, <3>3 DEF Silent
  <2>2. CASE q \notin OwnRuns
    <3>1. down' = down  BY <2>2 DEF Done
    <3> QED  BY <1>0, <3>1 DEF Silent, LinkInv
  <2> QED  BY <2>1, <2>2
<1>3. \A r \in Runs : /\ run[r] = "new" => run'[r] = "new"
                      /\ run[r] # "new" => run'[r] # "new"
  BY <1>0, <1>1 DEF DaemonTyped
<1>4. DaemonTyped'  BY <1>0, <1>1 DEF DaemonTyped
<1>5. SocketTyped'  BY <1>0, <1>1, <1>2 DEF SocketTyped
<1>6. LinkInv'
  <2>1. \A r \in OwnRuns : run[r] \in {"new", "over"} => run'[r] \in {"new", "over"}
    BY <1>0, <1>1 DEF DaemonTyped, Runs
  <2> QED  BY <1>0, <1>1, <1>2, <2>1 DEF LinkInv
<1>7. Unsettled' = Unsettled  BY <1>1 DEF Unsettled
<1>8. AskedInv'
  <2>1. \A p \in Unsettled : Of[p] \in Runs  BY IpcAssumption DEF Unsettled
  <2> QED  BY <1>0, <1>1, <1>3, <1>7, <2>1 DEF AskedInv
<1>9. PromptStep
  <2>1. \A p : AtHand(p) => AtHand(p)'  BY <1>1, <1>2 DEF AtHand
  <2> QED  BY <1>1, <1>7, <2>1 DEF PromptStep
<1>10. \A r \in OwnRuns : exec[r] \in Unbegun => run'[r] = run[r]  BY <1>0, <1>3 DEF StartInv, Runs
<1> QED  BY <1>1, <1>2, <1>4, <1>5, <1>6, <1>8, <1>9, <1>10, DaemonKept

LEMMA RestartKept ==
    ASSUME WindowInv, Restart, Still
    PROVE  WindowInv'
<1>0. /\ DaemonTyped /\ SocketTyped /\ WindowTyped /\ LinkInv /\ AskedInv /\ StartInv
      /\ down \in Seq(DownFrames)
  BY WindowParts
<1>1. PICK f \in DownFrames : f = << "eof" >>  BY DownHas
<1>2. /\ link = "up" /\ ~quit /\ link' = "cut" /\ up' = << >> /\ down' = Append(down, f)
      /\ run' = [r \in Runs |-> IF run[r] = "new" THEN "new" ELSE "over"]
      /\ prompt' = [p \in Prompts |-> IF p \in Unsettled THEN "dropped" ELSE prompt[p]]
      /\ asks' = {} /\ matched' = Nobody /\ served' = "none" /\ replying' = {}
      /\ UNCHANGED << sent, waiting, hand, inbox, quit >>
  BY <1>1 DEF Restart, clientVars
<1>3. (\A r, n : f # << "event", r, n >>) /\ Append(down, f) \in Seq(DownFrames)
  BY <1>0, <1>1, AppendTo
<1>4. DaemonTyped'  BY <1>0, <1>2 DEF DaemonTyped
<1>5. SocketTyped'  BY <1>0, <1>2, <1>3 DEF SocketTyped
<1>6. \A r \in OwnRuns : run'[r] \in {"new", "over"}  BY <1>2 DEF Runs
<1>7. LinkInv'  BY <1>0, <1>2, <1>6 DEF LinkInv
<1>8. Unsettled' = {}  BY <1>2 DEF Unsettled
<1>9. AskedInv'  BY <1>2, <1>8 DEF AskedInv
<1>10. PromptStep  BY <1>2 DEF PromptStep
<1>11. \A r \in OwnRuns : exec[r] \in Unbegun => run'[r] = run[r]  BY <1>0, <1>2 DEF StartInv, Runs
<1>12. \A r \in OwnRuns : Silent(r)  BY <1>2, <1>3 DEF Silent
<1> QED  BY <1>2, <1>4, <1>5, <1>7, <1>9, <1>10, <1>11, <1>12, DaemonKept

LEMMA ReconnectKept ==
    ASSUME WindowInv, Reconnect, Still
    PROVE  WindowInv'
<1>0. /\ DaemonTyped /\ SocketTyped /\ WindowTyped /\ LinkInv /\ AskedInv /\ StartInv
  BY WindowParts
<1>1. /\ ~quit /\ link = "off" /\ link' = "up" /\ hand' = "back" /\ served' = "open"
      /\ UNCHANGED << run, sent, prompt, asks, matched, replying, up, down, waiting, inbox, quit >>
  BY DEF Reconnect
<1>2. DaemonTyped'  BY <1>0, <1>1 DEF DaemonTyped
<1>3. SocketTyped'  BY <1>0, <1>1 DEF SocketTyped
<1>4. LinkInv'  BY <1>0, <1>1 DEF LinkInv
<1>5. AskedInv'  BY <1>0, <1>1 DEF AskedInv, Unsettled
<1>6. asks = {} /\ waiting = {}  BY <1>0, <1>1 DEF LinkInv
<1>7. PromptStep  BY <1>1, <1>6 DEF PromptStep
<1>8. \A r \in OwnRuns : Silent(r)  BY <1>1 DEF Silent
<1> QED  BY <1>1, <1>2, <1>3, <1>4, <1>5, <1>6, <1>7, <1>8, DaemonKept

LEMMA DaemonScreen ==
    ASSUME WindowInv, Still
    PROVE  /\ ScreenTyped' /\ ScreenInv'
           /\ \A r \in OwnRuns : ToShow(r)' = ToShow(r) /\ Fetched(r)' = Fetched(r)
<1>1. UNCHANGED << exec, event, handle, popup, popupQueue, eventQueue, shown, choices >>
  BY DEF Still, execVars, tuiVars, popupVars
<1>2. WindowTyped /\ ScreenTyped /\ ScreenInv  BY WindowParts
<1>3. Screens /\ EventsSame  BY <1>1, <1>2 DEF Screens, EventsSame, ScreenInv
<1>4. ScreenTyped'  BY <1>1, <1>2 DEF ScreenTyped
<1> QED  BY <1>2, <1>3, <1>4, ScreenKept

LEMMA EmitKept ==
    ASSUME WindowInv, NEW q \in Runs, Emit(q), Still
    PROVE  WindowInv'
<1>0. /\ DaemonTyped /\ SocketTyped /\ WindowTyped /\ LinkInv /\ AskedInv /\ StartInv /\ SocketInv
      /\ down \in Seq(DownFrames) /\ NoPromptMislaid
  BY WindowParts
<1>1. q \in OwnRuns /\ run[q] = "on"  BY DEF Emit
<1>2. PICK k \in Nat : k = sent[q] + 1  BY <1>0 DEF Emit, DaemonTyped
<1>3. PICK f \in DownFrames : f = << "event", q, k >>  BY <1>1, <1>2, DownHas
<1>4. /\ sent' = [sent EXCEPT ![q] = k] /\ Tell(f)
      /\ UNCHANGED << run, prompt, asks, matched, served, replying, link, up, waiting, hand, inbox, quit,
                      exec, covered, popup, popupQueue >>
  BY <1>2, <1>3 DEF Emit, clientVars, Still, popupVars, execVars
<1>5. f # << "eof" >> /\ \A r, n : r # q => f # << "event", r, n >>  BY <1>3
<1>6. /\ down' \in Seq(DownFrames) /\ ToSet(down) \subseteq ToSet(down')
      /\ down' = down \/ down' = Append(down, f)
      /\ link = "up" => down' = Append(down, f)
      /\ link = "off" => down' = down
      /\ link = "up" => \A i \in DOMAIN down' : down'[i] # << "eof" >>
  BY <1>0, <1>4, <1>5, TellEffect
<1>7. link = "up" \/ link = "off"  BY <1>0, <1>1 DEF LinkInv, SocketTyped
<1>8. DaemonTyped'  BY <1>0, <1>2, <1>4 DEF DaemonTyped
<1>9. SocketTyped'  BY <1>0, <1>4, <1>6 DEF SocketTyped
<1>10. LinkInv'  BY <1>0, <1>4, <1>6, <1>7 DEF LinkInv
<1>11. AskedInv'  BY <1>0, <1>4 DEF AskedInv, Unsettled
<1>12. PromptStep
  <2>1. \A p : AtHand(p) => AtHand(p)'  BY <1>4, <1>6 DEF AtHand
  <2> QED  BY <1>4, <2>1 DEF PromptStep, Unsettled
<1>13. /\ ScreenTyped' /\ ScreenInv'
       /\ \A r \in OwnRuns : ToShow(r)' = ToShow(r) /\ Fetched(r)' = Fetched(r)
  BY DaemonScreen
<1>14. StartInv'
  <2>1. \A r \in OwnRuns : exec[r] \in Unbegun => r # q  BY <1>0, <1>1 DEF StartInv
  <2>2. \A r \in OwnRuns : r # q => sent'[r] = sent[r]  BY <1>0, <1>4 DEF DaemonTyped, Runs
  <2>3. StartStep  BY <1>0, <1>4, <2>1, <2>2 DEF StartStep, StartInv
  <2> QED  BY <1>0, <1>13, <2>3, StartKept
<1>15. SocketInv'
  <2> SUFFICES ASSUME NEW r \in OwnRuns
               PROVE  /\ \A i \in DOMAIN down', n \in Nat : OnSocket(r, n, i)' => 1 <= n /\ n <= sent'[r]
                      /\ exec'[r] \in {"read", "event"} => InboxInv(r)'
                      /\ r \in waiting' => FramesInv(r)'
    BY DEF SocketInv
  <2>1. /\ \A i \in DOMAIN down, n \in Nat : OnSocket(r, n, i) => 1 <= n /\ n <= sent[r]
        /\ exec[r] \in {"read", "event"} => InboxInv(r)
        /\ r \in waiting => FramesInv(r)
    BY <1>0 DEF SocketInv
  <2>2. Received(r)' = Received(r)  BY <1>4, <1>13 DEF Received
  <2>3. exec'[r] \in {"read", "event"} => InboxInv(r)'  BY <1>4, <1>13, <2>1 DEF InboxInv
  <2>4. CASE r # q
    <3>1. Silent(r) /\ sent'[r] = sent[r]  BY <1>0, <1>4, <1>5, <1>6, <2>4 DEF Silent, DaemonTyped, Runs
    <3> QED  BY <1>0, <1>4, <2>1, <2>2, <2>3, <3>1, FramesKept
  <2>5. CASE r = q /\ link = "off"
    <3>1. down' = << >> /\ waiting' = {}  BY <1>0, <1>4, <1>6, <2>5 DEF LinkInv
    <3> QED  BY <2>3, <3>1
  <2>6. CASE r = q /\ link = "up"
    <3>0. PICK l \in Nat : l = Len(down)  BY <1>0
    <3>1. /\ DOMAIN down' = DOMAIN down \cup {l + 1} /\ down'[l + 1] = f
          /\ \A i \in DOMAIN down : down'[i] = down[i]
          /\ l + 1 \notin DOMAIN down /\ DOMAIN down = 1 .. l
      <4>1. DOMAIN down = 1 .. l  BY <1>0, <3>0
      <4> QED  BY <1>0, <1>6, <2>6, <3>0, <4>1, AppendTo
    <3>2. sent'[r] = k /\ k = sent[r] + 1 /\ sent[r] \in Nat  BY <1>0, <1>2, <1>4, <2>6 DEF DaemonTyped
    <3>3. \A i, n : i \in DOMAIN down => (OnSocket(r, n, i)' <=> OnSocket(r, n, i))  BY <3>1 DEF OnSocket
    <3>4. OnSocket(r, k, l + 1)' /\ \A n \in Nat : OnSocket(r, n, l + 1)' => n = k
      <4>1. down'[l + 1] = << "event", r, k >>  BY <1>3, <2>6, <3>1
      <4>2. \A n \in Nat : << "event", r, n >> = << "event", r, k >> => n = k  OBVIOUS
      <4> QED  BY <4>1, <4>2 DEF OnSocket
    <3>5. \A i \in DOMAIN down, n \in Nat : OnSocket(r, n, i) => n < k  BY <2>1, <3>2
    <3>6. \A i \in DOMAIN down', n \in Nat : OnSocket(r, n, i)' => 1 <= n /\ n <= sent'[r]
      BY <2>1, <3>1, <3>2, <3>3, <3>4
    <3>7. ASSUME r \in waiting' PROVE FramesInv(r)'
      <4>1. FramesInv(r)  BY <1>4, <2>1, <3>7
      <4>2. Received(r)' \in Nat /\ Received(r)' <= sent'[r] /\ Received(r)' <= sent[r]
        <5>1. Received(r) \in Nat
          <6>1. Fetched(r) \in Nat  BY <1>0, MineFacts DEF WindowTyped
          <6>2. Len(inbox[r]) \in Nat
            <7>1. inbox[r] \in Seq(DownFrames)  BY <1>0 DEF SocketTyped
            <7> QED  BY <7>1
          <6> QED  BY <6>1, <6>2 DEF Received
        <5>2. Received(r) <= sent[r]  BY <4>1 DEF FramesInv
        <5> QED  BY <2>2, <3>2, <5>1, <5>2
      <4>3. \A n \in (Received(r) + 1) .. sent[r] : \E j \in DOMAIN down : OnSocket(r, n, j)
        BY <2>6, <4>1 DEF FramesInv
      <4>4. ASSUME NEW i \in DOMAIN down', NEW n \in Nat, OnSocket(r, n, i)'
            PROVE  /\ n > Received(r)'
                   /\ \A m \in (Received(r)' + 1) .. (n - 1) : \E j \in 1 .. (i - 1) : OnSocket(r, m, j)'
                   /\ \A j \in DOMAIN down' : OnSocket(r, n, j)' => j = i
        <5>1. CASE i \in DOMAIN down
          <6>1. /\ n > Received(r)
                /\ \A m \in (Received(r) + 1) .. (n - 1) : \E j \in 1 .. (i - 1) : OnSocket(r, m, j)
                /\ \A j \in DOMAIN down : OnSocket(r, n, j) => j = i
            BY <3>3, <4>1, <4>4, <5>1 DEF FramesInv
          <6>2. n # k  BY <3>2, <3>3, <3>5, <4>4, <5>1
          <6>3. \A j \in 1 .. (i - 1) : j \in DOMAIN down  BY <3>1, <5>1
          <6> QED  BY <2>2, <3>1, <3>3, <3>4, <6>1, <6>2, <6>3
        <5>2. CASE i = l + 1
          <6>1. n = k  BY <3>4, <4>4, <5>2
          <6>2. \A m \in (Received(r) + 1) .. sent[r] : \E j \in 1 .. (i - 1) : OnSocket(r, m, j)'
            <7>1. i - 1 = l  BY <3>1, <5>2
            <7> QED  BY <3>1, <3>3, <4>3, <7>1
          <6>3. \A j \in DOMAIN down' : OnSocket(r, n, j)' => j = i
            <7>1. ASSUME NEW j \in DOMAIN down, OnSocket(r, n, j)' PROVE FALSE
              BY <3>2, <3>3, <3>5, <6>1, <7>1
            <7> QED  BY <3>1, <5>2, <7>1
          <6>4. n - 1 = sent[r]  BY <3>2, <6>1
          <6>5. n > Received(r)'  BY <3>2, <4>2, <6>1
          <6> QED  BY <2>2, <6>2, <6>3, <6>4, <6>5
        <5> QED  BY <3>1, <4>4, <5>1, <5>2
      <4>5. \A n \in (Received(r)' + 1) .. sent'[r] : \E j \in DOMAIN down' : OnSocket(r, n, j)'
        <5>1. ASSUME NEW n \in (Received(r)' + 1) .. sent'[r]
              PROVE  \E j \in DOMAIN down' : OnSocket(r, n, j)'
          <6>1. CASE n = k  BY <3>1, <3>4, <6>1
          <6>2. CASE n # k
            <7>1. n \in (Received(r) + 1) .. sent[r]  BY <2>2, <3>2, <6>2
            <7> QED  BY <3>1, <3>3, <4>3, <7>1
          <6> QED  BY <6>1, <6>2
        <5> QED  BY <5>1
      <4> QED  BY <4>2, <4>4, <4>5 DEF FramesInv
    <3> QED  BY <2>3, <3>6, <3>7
  <2> QED  BY <1>7, <2>4, <2>5, <2>6
<1> QED  BY <1>0, <1>8, <1>9, <1>10, <1>11, <1>12, <1>13, <1>14, <1>15, PromptsKept DEF WindowInv, WindowTyped

(* The reader takes the first frame: the rest are those on their way.  When *)
(* the first is the next event of a run, that run has received one more.    *)
LEMMA TailFrames ==
    ASSUME WindowTyped, NEW r \in OwnRuns, down # << >>, down' = Tail(down),
           sent' = sent, link' = link
    PROVE  /\ (\A i \in DOMAIN down, n \in Nat : OnSocket(r, n, i) => 1 <= n /\ n <= sent[r])
              => \A i \in DOMAIN down', n \in Nat : OnSocket(r, n, i)' => 1 <= n /\ n <= sent'[r]
           /\ FramesInv(r) /\ Received(r)' = Received(r) /\ (\A n \in Nat : ~ OnSocket(r, n, 1))
              => FramesInv(r)'
           /\ /\ FramesInv(r) /\ Received(r)' = Received(r) + 1 /\ OnSocket(r, Received(r) + 1, 1)
              /\ Received(r) + 1 <= sent[r]
              => FramesInv(r)'
<1>0. /\ Tail(down) \in Seq(DownFrames)
      /\ DOMAIN Tail(down) = 1 .. (Len(down) - 1) /\ DOMAIN down = 1 .. Len(down) /\ Len(down) \in Nat
      /\ \A i \in DOMAIN Tail(down) : i + 1 \in DOMAIN down /\ Tail(down)[i] = down[i + 1]
      /\ \A i \in DOMAIN down : i = 1 \/ (i - 1 \in DOMAIN Tail(down) /\ Tail(down)[i - 1] = down[i])
      /\ 1 \in DOMAIN down
  <2>1. down \in Seq(DownFrames)  BY DEF WindowTyped, SocketTyped
  <2>2. DOMAIN down = 1 .. Len(down)  BY <2>1
  <2> QED  BY <2>1, <2>2, TailOf
<1>1. \A i \in DOMAIN down' : i + 1 \in DOMAIN down /\ \A n \in Nat : OnSocket(r, n, i)' <=> OnSocket(r, n, i + 1)
  <2>1. ASSUME NEW i \in DOMAIN down', NEW n \in Nat
        PROVE  i + 1 \in DOMAIN down /\ (OnSocket(r, n, i)' <=> OnSocket(r, n, i + 1))
    BY <1>0 DEF OnSocket
  <2>2. \A i \in DOMAIN down' : i + 1 \in DOMAIN down  BY <1>0
  <2> QED  BY <2>1, <2>2
<1>2. ASSUME NEW i \in DOMAIN down, NEW n \in Nat, OnSocket(r, n, i), i # 1
      PROVE  i - 1 \in DOMAIN down' /\ OnSocket(r, n, i - 1)'
  <2>1. PICK j : j = i - 1  OBVIOUS
  <2>2. j \in DOMAIN down' /\ down'[j] = down[i]  BY <1>0, <1>2, <2>1
  <2>3. OnSocket(r, n, j)'  BY <1>2, <2>2 DEF OnSocket
  <2> QED  BY <2>1, <2>2, <2>3
<1>3. (\A i \in DOMAIN down, n \in Nat : OnSocket(r, n, i) => 1 <= n /\ n <= sent[r])
      => \A i \in DOMAIN down', n \in Nat : OnSocket(r, n, i)' => 1 <= n /\ n <= sent'[r]
  BY <1>1
<1>4. PICK R \in Nat : R = Received(r)
  <2>1. Fetched(r) \in Nat  BY MineFacts DEF WindowTyped
  <2>2. Len(inbox[r]) \in Nat
    <3>1. inbox[r] \in Seq(DownFrames)  BY DEF WindowTyped, SocketTyped
    <3> QED  BY <3>1
  <2> QED  BY <2>1, <2>2 DEF Received
<1>5. ASSUME FramesInv(r), NEW d \in {0, 1}, Received(r)' = R + d, R + d <= sent[r],
             \A n \in Nat : OnSocket(r, n, 1) => n = R + 1 /\ d = 1,
             d = 1 => OnSocket(r, R + 1, 1)
      PROVE  FramesInv(r)'
  <2>1. /\ \A i \in DOMAIN down, n \in Nat : OnSocket(r, n, i) =>
             /\ n > R
             /\ \A m \in (R + 1) .. (n - 1) : \E j \in 1 .. (i - 1) : OnSocket(r, m, j)
             /\ \A j \in DOMAIN down : OnSocket(r, n, j) => j = i
        /\ link = "up" => \A n \in (R + 1) .. sent[r] : \E j \in DOMAIN down : OnSocket(r, n, j)
    BY <1>4, <1>5 DEF FramesInv
  <2>2. ASSUME NEW i \in DOMAIN down', NEW n \in Nat, OnSocket(r, n, i)'
        PROVE  /\ n > R + d
               /\ \A m \in (R + d + 1) .. (n - 1) : \E j \in 1 .. (i - 1) : OnSocket(r, m, j)'
               /\ \A j \in DOMAIN down' : OnSocket(r, n, j)' => j = i
    <3>1. i + 1 \in DOMAIN down /\ OnSocket(r, n, i + 1)  BY <1>1, <2>2
    <3>2. i \in Nat /\ i >= 1 /\ (i + 1) - 1 = i /\ i + 1 # 1  BY <1>0
    <3>3. /\ n > R
          /\ \A m \in (R + 1) .. (n - 1) : \E j \in 1 .. i : OnSocket(r, m, j)
          /\ \A j \in DOMAIN down : OnSocket(r, n, j) => j = i + 1
      BY <2>1, <3>1, <3>2
    <3>4. n > R + d
      <4>1. CASE d = 0  BY <3>3, <4>1
      <4>2. CASE d = 1
        <5>1. n # R + 1  BY <1>0, <1>5, <3>2, <3>3, <4>2
        <5> QED  BY <1>4, <3>3, <4>2, <5>1
      <4> QED  BY <4>1, <4>2
    <3>5. ASSUME NEW m \in (R + d + 1) .. (n - 1) PROVE \E j \in 1 .. (i - 1) : OnSocket(r, m, j)'
      <4>1. m \in Nat /\ m \in (R + 1) .. (n - 1) /\ m > R + d  BY <1>4
      <4>2. PICK j \in 1 .. i : OnSocket(r, m, j)  BY <3>3, <4>1
      <4>3. j # 1  BY <1>5, <4>1, <4>2
      <4>4. j \in DOMAIN down  BY <1>0, <3>1, <3>2
      <4>5. OnSocket(r, m, j - 1)'  BY <1>2, <4>1, <4>2, <4>3, <4>4
      <4>6. j - 1 \in 1 .. (i - 1)  BY <3>2, <4>3
      <4> QED  BY <4>5, <4>6
    <3>6. ASSUME NEW j \in DOMAIN down', OnSocket(r, n, j)' PROVE j = i
      <4>1. j + 1 \in DOMAIN down /\ OnSocket(r, n, j + 1)  BY <1>1, <3>6
      <4>2. j + 1 = i + 1  BY <3>3, <4>1
      <4>3. j \in Nat  BY <1>0
      <4> QED  BY <3>2, <4>2, <4>3
    <3> QED  BY <3>4, <3>5, <3>6
  <2>3. ASSUME link' = "up", NEW n \in (R + d + 1) .. sent'[r]
        PROVE  \E j \in DOMAIN down' : OnSocket(r, n, j)'
    <3>1. n \in Nat /\ n \in (R + 1) .. sent[r] /\ n > R + d  BY <1>4
    <3>2. PICK j \in DOMAIN down : OnSocket(r, n, j)  BY <2>1, <2>3, <3>1
    <3>3. j # 1  BY <1>5, <3>1, <3>2
    <3> QED  BY <1>2, <3>1, <3>2, <3>3
  <2>4. Received(r)' <= sent'[r]  BY <1>5
  <2> QED  BY <1>5, <2>2, <2>3, <2>4 DEF FramesInv
<1>6. ASSUME FramesInv(r), Received(r)' = Received(r), \A n \in Nat : ~ OnSocket(r, n, 1)
      PROVE  FramesInv(r)'
  <2>1. R <= sent[r]  BY <1>4, <1>6 DEF FramesInv
  <2> QED  BY <1>4, <1>5, <1>6, <2>1
<1>7. ASSUME FramesInv(r), Received(r)' = Received(r) + 1, OnSocket(r, Received(r) + 1, 1),
             Received(r) + 1 <= sent[r]
      PROVE  FramesInv(r)'
  <2>1. OnSocket(r, R + 1, 1) /\ R + 1 <= sent[r] /\ Received(r)' = R + 1  BY <1>4, <1>7
  <2>2. \A n \in Nat : OnSocket(r, n, 1) => n = R + 1
    <3>1. \A n \in Nat : << "event", r, n >> = << "event", r, R + 1 >> => n = R + 1  BY <1>4
    <3> QED  BY <2>1, <3>1 DEF OnSocket
  <2> QED  BY <1>5, <1>7, <2>1, <2>2
<1> QED  BY <1>3, <1>6, <1>7

LEMMA ReadKept ==
    ASSUME WindowInv, Read, Still
    PROVE  WindowInv'
<1>0. /\ DaemonTyped /\ SocketTyped /\ WindowTyped /\ LinkInv /\ AskedInv /\ StartInv /\ SocketInv
      /\ down \in Seq(DownFrames) /\ NoPromptMislaid
  BY WindowParts
<1>1. /\ ~quit /\ hand = Nobody /\ down # << >> /\ Head(down)[1] # "eof" /\ down' = Tail(down)
      /\ UNCHANGED << run, sent, prompt, asks, matched, served, replying, link, up, quit,
                      exec, covered, popup, popupQueue >>
  BY DEF Read, daemonVars, Still, execVars, popupVars
<1>2. /\ Tail(down) \in Seq(DownFrames) /\ Head(down) \in DownFrames /\ Head(down) = down[1]
      /\ ToSet(down) = {Head(down)} \cup ToSet(Tail(down))
      /\ \A i \in DOMAIN Tail(down) : i + 1 \in DOMAIN down /\ Tail(down)[i] = down[i + 1]
      /\ 1 \in DOMAIN down
  BY <1>0, <1>1, TailOf
<1>3. PICK f \in DownFrames : f = Head(down)  BY <1>2
<1>4. IF f[1] = "ask"
      THEN hand' = f[2] /\ UNCHANGED << waiting, inbox >>
      ELSE /\ waiting' = IF f[1] = "done" THEN waiting \ {f[2]} ELSE waiting
           /\ inbox' = IF f[2] \in waiting THEN [inbox EXCEPT ![f[2]] = Append(@, f)] ELSE inbox
           /\ UNCHANGED hand
  BY <1>3 DEF Read
<1>5. DaemonTyped'  BY <1>0, <1>1 DEF DaemonTyped
<1>6. AskedInv'  BY <1>0, <1>1 DEF AskedInv, Unsettled
<1>7. waiting' \subseteq waiting  BY <1>4
<1>8. LinkInv'
  <2>1. link # "off"  BY <1>0, <1>1 DEF LinkInv
  <2>2. link = "up" => \A i \in DOMAIN down' : down'[i] # << "eof" >>  BY <1>0, <1>1, <1>2 DEF LinkInv
  <2> QED  BY <1>0, <1>1, <2>1, <2>2 DEF LinkInv
<1>9. /\ ScreenTyped' /\ ScreenInv'
      /\ \A r \in OwnRuns : ToShow(r)' = ToShow(r) /\ Fetched(r)' = Fetched(r)
  BY DaemonScreen
<1>10. /\ hand' \in Prompts \cup {Nobody, "lost", "back"}
       /\ \A p : hand # p /\ << "ask", p >> = f => hand' = p
       /\ f[1] # "ask" => hand' = hand
  <2>1. CASE f[1] = "ask"
    <3>1. PICK p \in Prompts : f = << "ask", p >>  BY <2>1, DownKinds
    <3>2. hand' = p  BY <1>4, <3>1
    <3> QED  BY <2>1, <3>1, <3>2
  <2>2. CASE f[1] # "ask"
    <3>1. \A p : f # << "ask", p >>  BY <2>2, DownKinds
    <3> QED  BY <1>0, <1>4, <2>2, <3>1 DEF SocketTyped
  <2> QED  BY <2>1, <2>2
<1>11. PromptStep
  <2>1. \A p \in Prompts : AtHand(p) => AtHand(p)'
    <3>1. \A p \in Prompts : hand # p  BY <1>1, IpcAssumption
    <3>2. \A p : << "ask", p >> \in ToSet(down) => << "ask", p >> = f \/ << "ask", p >> \in ToSet(down')
      BY <1>1, <1>2, <1>3
    <3>3. ASSUME NEW p \in Prompts, AtHand(p) PROVE AtHand(p)'
      <4>1. CASE << "ask", p >> \in ToSet(down)  BY <1>10, <3>1, <3>2, <4>1 DEF AtHand
      <4>2. CASE << "ask", p >> \notin ToSet(down)  BY <1>1, <3>1, <3>3, <4>2 DEF AtHand
      <4> QED  BY <4>1, <4>2
    <3> QED  BY <3>3
  <2> QED  BY <1>0, <1>1, <2>1 DEF PromptStep, Unsettled, DaemonTyped
<1>12. inbox' \in [OwnRuns -> Seq(DownFrames)]
       /\ \A r \in OwnRuns : r \notin waiting \/ f[1] = "ask" \/ f[2] # r => inbox'[r] = inbox[r]
  <2>1. CASE f[1] = "ask"  BY <1>0, <1>4, <2>1 DEF SocketTyped
  <2>2. CASE f[1] # "ask" /\ f[2] \in waiting
    <3>1. inbox' = [inbox EXCEPT ![f[2]] = Append(inbox[f[2]], f)]  BY <1>4, <2>2
    <3>2. f[2] \in OwnRuns /\ inbox \in [OwnRuns -> Seq(DownFrames)]  BY <1>0, <2>2 DEF SocketTyped
    <3>3. Append(inbox[f[2]], f) \in Seq(DownFrames)  BY <3>2, AppendTo
    <3> QED  BY <2>2, <3>1, <3>2, <3>3
  <2>3. CASE f[1] # "ask" /\ f[2] \notin waiting  BY <1>0, <1>4, <2>3 DEF SocketTyped
  <2> QED  BY <2>1, <2>2, <2>3
<1>13. SocketTyped'  BY <1>0, <1>1, <1>2, <1>7, <1>10, <1>12 DEF SocketTyped
<1>14. StartInv'
  <2>1. StartStep  BY <1>0, <1>1, <1>7, <1>12 DEF StartStep, StartInv
  <2> QED  BY <1>0, <1>9, <2>1, StartKept
<1>15. SocketInv'
  <2> SUFFICES ASSUME NEW r \in OwnRuns
               PROVE  /\ \A i \in DOMAIN down', n \in Nat : OnSocket(r, n, i)' => 1 <= n /\ n <= sent'[r]
                      /\ exec'[r] \in {"read", "event"} => InboxInv(r)'
                      /\ r \in waiting' => FramesInv(r)'
    BY DEF SocketInv
  <2>1. /\ \A i \in DOMAIN down, n \in Nat : OnSocket(r, n, i) => 1 <= n /\ n <= sent[r]
        /\ exec[r] \in {"read", "event"} => InboxInv(r)
        /\ r \in waiting => FramesInv(r)
    BY <1>0 DEF SocketInv
  <2>2. /\ \A i \in DOMAIN down', n \in Nat : OnSocket(r, n, i)' => 1 <= n /\ n <= sent'[r]
        /\ FramesInv(r) /\ Received(r)' = Received(r) /\ (\A n \in Nat : ~ OnSocket(r, n, 1))
           => FramesInv(r)'
        /\ /\ FramesInv(r) /\ Received(r)' = Received(r) + 1 /\ OnSocket(r, Received(r) + 1, 1)
           /\ Received(r) + 1 <= sent[r]
           => FramesInv(r)'
    BY <1>0, <1>1, <2>1, TailFrames
  <2>3. /\ Fetched(r)' = Fetched(r) /\ Fetched(r) \in Nat
        /\ inbox[r] \in Seq(DownFrames) /\ Len(inbox[r]) \in Nat
        /\ Received(r) = Fetched(r) + Len(inbox[r]) /\ Received(r) \in Nat
    <3>1. Fetched(r) \in Nat  BY <1>0, MineFacts DEF WindowTyped
    <3>2. inbox[r] \in Seq(DownFrames)  BY <1>0 DEF SocketTyped
    <3>3. Len(inbox[r]) \in Nat  BY <3>2
    <3> QED  BY <1>9, <3>1, <3>2, <3>3 DEF Received
  <2>4. CASE r \notin waiting \/ f[1] = "ask" \/ f[2] # r
    <3>1. inbox'[r] = inbox[r]  BY <1>12, <2>4
    <3>2. Received(r)' = Received(r)  BY <2>3, <3>1 DEF Received
    <3>3. exec'[r] \in {"read", "event"} => InboxInv(r)'  BY <1>1, <1>7, <2>1, <2>3, <3>1 DEF InboxInv
    <3>4. ASSUME r \in waiting' PROVE FramesInv(r)'
      <4>1. r \in waiting  BY <1>7, <3>4
      <4>2. ASSUME NEW n \in Nat, OnSocket(r, n, 1) PROVE FALSE
        <5>1. f = << "event", r, n >>  BY <1>2, <1>3, <4>2 DEF OnSocket
        <5> QED  BY <2>4, <4>1, <5>1
      <4> QED  BY <2>1, <2>2, <3>2, <4>1, <4>2
    <3> QED  BY <2>2, <3>3, <3>4
  <2>5. CASE r \in waiting /\ f[1] # "ask" /\ f[2] = r
    <3>1. inbox'[r] = Append(inbox[r], f)  BY <1>0, <1>4, <2>5 DEF SocketTyped
    <3>2. PICK l \in Nat : l = Len(inbox[r])  BY <2>3
    <3>3. /\ DOMAIN inbox'[r] = DOMAIN inbox[r] \cup {l + 1} /\ inbox'[r][l + 1] = f /\ Len(inbox'[r]) = l + 1
          /\ \A i \in DOMAIN inbox[r] : inbox'[r][i] = inbox[r][i]
      BY <2>3, <3>1, <3>2, AppendTo
    <3>4. FramesInv(r) /\ exec[r] \in {"read", "event"} /\ InboxInv(r)  BY <1>0, <2>1, <2>5 DEF StartInv
    <3>5. \A i \in DOMAIN inbox[r] : inbox[r][i] = << "event", r, Fetched(r) + i >>
      BY <2>5, <3>4 DEF InboxInv
    <3>6. Received(r)' = Received(r) + 1
      <4>1. Received(r)' = Fetched(r) + (l + 1)  BY <2>3, <3>3 DEF Received
      <4> QED  BY <2>3, <3>2, <4>1
    <3>7. CASE f[1] = "event"
      <4>1. PICK n \in Nat : f = << "event", r, n >>  BY <2>5, <3>7, DownKinds
      <4>2. OnSocket(r, n, 1)  BY <1>2, <1>3, <4>1 DEF OnSocket
      <4>3. n <= sent[r]  BY <1>2, <2>1, <4>2
      <4>4. n = Received(r) + 1
        <5>1. n > Received(r)  BY <1>2, <3>4, <4>2 DEF FramesInv
        <5>2. \A m \in (Received(r) + 1) .. (n - 1) : FALSE
          <6>1. \A m \in (Received(r) + 1) .. (n - 1) : \E j \in 1 .. (1 - 1) : OnSocket(r, m, j)
            BY <1>2, <3>4, <4>2 DEF FramesInv
          <6> QED  BY <6>1
        <5>3. CASE n - 1 >= Received(r) + 1  BY <2>3, <5>2, <5>3
        <5>4. CASE ~(n - 1 >= Received(r) + 1)  BY <2>3, <5>1, <5>4
        <5> QED  BY <5>3, <5>4
      <4>5. FramesInv(r)'  BY <2>2, <3>4, <3>6, <4>2, <4>3, <4>4
      <4>6. InboxInv(r)'
        <5>1. f = << "event", r, Fetched(r) + (l + 1) >>  BY <2>3, <3>2, <4>1, <4>4
        <5>2. \A i \in DOMAIN inbox'[r] : inbox'[r][i] = << "event", r, Fetched(r)' + i >>
          BY <2>3, <3>3, <3>5, <5>1
        <5> QED  BY <5>2 DEF InboxInv
      <4> QED  BY <2>2, <4>5, <4>6
    <3>8. CASE f[1] = "done"
      <4>1. f = << "done", r >> /\ r \notin waiting'  BY <1>4, <2>5, <3>8, DownKinds
      <4>2. InboxInv(r)'
        <5>1. \A i \in DOMAIN inbox[r] : inbox'[r][i] = << "event", r, Fetched(r)' + i >>
          BY <2>3, <3>3, <3>5
        <5>2. inbox'[r][l + 1] = << "done", r >> /\ l + 1 = Len(inbox'[r])  BY <3>3, <4>1
        <5> QED  BY <3>3, <4>1, <5>1, <5>2 DEF InboxInv
      <4> QED  BY <2>2, <4>1, <4>2
    <3>9. f[1] \in {"event", "done"}  BY <1>1, <1>3, <2>5, DownKinds
    <3> QED  BY <3>7, <3>8, <3>9
  <2> QED  BY <2>4, <2>5
<1> QED  BY <1>0, <1>5, <1>6, <1>8, <1>9, <1>11, <1>13, <1>14, <1>15, PromptsKept DEF WindowInv, WindowTyped

LEMMA DetachKept ==
    ASSUME WindowInv, Detach, Still
    PROVE  WindowInv'
<1>0. /\ DaemonTyped /\ SocketTyped /\ WindowTyped /\ LinkInv /\ AskedInv /\ StartInv /\ SocketInv
      /\ down \in Seq(DownFrames) /\ NoPromptMislaid
  BY WindowParts
<1>1. /\ ~quit /\ down # << >> /\ Head(down)[1] = "eof"
      /\ link' = "off" /\ down' = << >> /\ hand' = "lost" /\ waiting' = {}
      /\ inbox' = [r \in OwnRuns |-> IF r \in waiting THEN Append(inbox[r], << "done", r >>) ELSE inbox[r]]
      /\ UNCHANGED << run, sent, prompt, asks, matched, served, replying, up, quit, exec >>
  BY DEF Detach, daemonVars, Still, execVars
<1>2. link # "up"
  <2>1. Head(down) \in DownFrames /\ Head(down) = down[1] /\ 1 \in DOMAIN down  BY <1>0, <1>1, TailOf
  <2>2. down[1] = << "eof" >>  BY <1>1, <2>1, DownKinds DEF DownFrames
  <2> QED  BY <1>0, <2>1, <2>2 DEF LinkInv
<1>3. DaemonTyped'  BY <1>0, <1>1 DEF DaemonTyped
<1>4. AskedInv'  BY <1>0, <1>1 DEF AskedInv, Unsettled
<1>5. LinkInv'  BY <1>0, <1>1, <1>2 DEF LinkInv
<1>6. /\ ScreenTyped' /\ ScreenInv'
      /\ \A r \in OwnRuns : ToShow(r)' = ToShow(r) /\ Fetched(r)' = Fetched(r)
  BY DaemonScreen
<1>7. NoPromptMislaid'  BY <1>1 DEF NoPromptMislaid
<1>8. ASSUME NEW r \in OwnRuns
      PROVE  /\ inbox[r] \in Seq(DownFrames) /\ inbox'[r] \in Seq(DownFrames)
             /\ r \notin waiting => inbox'[r] = inbox[r]
             /\ r \in waiting => /\ DOMAIN inbox'[r] = DOMAIN inbox[r] \cup {Len(inbox[r]) + 1}
                                 /\ inbox'[r][Len(inbox[r]) + 1] = << "done", r >>
                                 /\ Len(inbox'[r]) = Len(inbox[r]) + 1
                                 /\ \A i \in DOMAIN inbox[r] : inbox'[r][i] = inbox[r][i]
  <2>1. inbox[r] \in Seq(DownFrames) /\ << "done", r >> \in DownFrames  BY <1>0, DownHas DEF SocketTyped
  <2>2. CASE r \in waiting
    <3>1. inbox'[r] = Append(inbox[r], << "done", r >>)  BY <1>1, <2>2
    <3> QED  BY <2>1, <2>2, <3>1, AppendTo
  <2>3. CASE r \notin waiting  BY <1>1, <2>1, <2>3
  <2> QED  BY <2>2, <2>3
<1>9. SocketTyped'
  <2>1. inbox' \in [OwnRuns -> Seq(DownFrames)]
    <3>1. inbox' = [r \in OwnRuns |-> inbox'[r]]  BY <1>1
    <3> QED  BY <1>8, <3>1
  <2> QED  BY <1>0, <1>1, <2>1 DEF SocketTyped
<1>10. StartInv'
  <2>1. StartStep  BY <1>0, <1>1, <1>8 DEF StartStep, StartInv
  <2> QED  BY <1>0, <1>6, <2>1, StartKept
<1>11. SocketInv'
  <2>1. ASSUME NEW r \in OwnRuns, exec'[r] \in {"read", "event"} PROVE InboxInv(r)'
    <3>1. InboxInv(r) /\ Fetched(r)' = Fetched(r)  BY <1>0, <1>1, <1>6, <2>1 DEF SocketInv
    <3>2. CASE r \in waiting
      <4>1. \A i \in DOMAIN inbox[r] : inbox[r][i] = << "event", r, Fetched(r) + i >>
        BY <3>1, <3>2 DEF InboxInv
      <4> QED  BY <1>1, <1>8, <3>1, <3>2, <4>1 DEF InboxInv
    <3>3. CASE r \notin waiting  BY <1>1, <1>8, <3>1, <3>3 DEF InboxInv
    <3> QED  BY <3>2, <3>3
  <2> QED  BY <1>1, <2>1 DEF SocketInv
<1> QED  BY <1>3, <1>4, <1>5, <1>6, <1>7, <1>9, <1>10, <1>11 DEF WindowInv, WindowTyped

LEMMA DaemonStepKept ==
    ASSUME WindowInv, Daemon
    PROVE  WindowInv'
<1>1. Still  BY DEF Daemon, Still
<1>2. CASE Conn
  BY <1>1, <1>2, ServeRunKept, ServeCancelKept, ServeReplyKept, ReplyKept, GoneKept, PickKept, PutKept,
     AskerEndsKept DEF Conn
<1>3. CASE Read  BY <1>1, <1>3, ReadKept
<1>4. CASE Detach  BY <1>1, <1>4, DetachKept
<1>5. CASE Reconnect  BY <1>1, <1>5, ReconnectKept
<1>6. CASE Restart  BY <1>1, <1>6, RestartKept
<1>7. ASSUME NEW r \in Runs, RunStep(r) PROVE WindowInv'
  BY <1>1, <1>7, EmitKept, StoppedKept, FinishKept, DoneKept, CheckKept, AskKept DEF RunStep
<1> QED  BY <1>2, <1>3, <1>4, <1>5, <1>6, <1>7 DEF Daemon
-----------------------------------------------------------------------------
(* The keyboard, and the messages that change what is on the screen.        *)

OnScreen(p) == hand = p \/ popup = p \/ p \in ToSet(popupQueue)
ScreenStep ==
    /\ UNCHANGED << run, sent, prompt, asks, matched, served, replying, link, inbox, waiting, quit >>
    /\ UNCHANGED << up, down >> \/ \E f \in UpFrames : f[1] # "run" /\ Send(f)
    /\ Screens /\ EventsSame
    /\ \A r \in OwnRuns : /\ exec'[r] \in Unbegun => exec[r] \in Unbegun
                          /\ exec'[r] \in {"read", "event"} <=> exec[r] \in {"read", "event"}
    /\ covered \subseteq covered'
    /\ link = "up" => \A p \in Prompts : OnScreen(p) =>
          OnScreen(p)' \/ p \in covered' \/ \E ok \in BOOLEAN : << "reply", p, ok >> \in ToSet(up')

LEMMA ScreenStepKept ==
    ASSUME WindowInv, ScreenStep,
           hand' \in Prompts \cup {Nobody, "lost", "back"},
           shown' \in [OwnRuns -> Seq(Nat)] /\ eventQueue' \in Seq(OwnRuns \X Nat) => ScreenTyped'
    PROVE  WindowInv'
<1>0. /\ DaemonTyped /\ SocketTyped /\ WindowTyped /\ LinkInv /\ AskedInv /\ StartInv /\ SocketInv
      /\ up \in Seq(UpFrames) /\ down \in Seq(DownFrames)
  BY WindowParts
<1>1. /\ UNCHANGED << run, sent, prompt, asks, matched, served, replying, link, inbox, waiting, quit >>
      /\ UNCHANGED << up, down >> \/ \E f \in UpFrames : f[1] # "run" /\ Send(f)
      /\ Screens /\ EventsSame
      /\ \A r \in OwnRuns : /\ exec'[r] \in Unbegun => exec[r] \in Unbegun
                            /\ exec'[r] \in {"read", "event"} <=> exec[r] \in {"read", "event"}
  BY DEF ScreenStep
<1>2. /\ up' \in Seq(UpFrames) /\ down' \in Seq(DownFrames)
      /\ link = "up" => down' = down /\ ToSet(up) \subseteq ToSet(up')
      /\ down' = down \/ (link = "cut" /\ down' = << << "eof" >> >>)
      /\ \A r \in OwnRuns : \A i \in DOMAIN up' :
           up'[i] = << "run", r >> => \E j \in DOMAIN up : up[j] = << "run", r >>
  <2>1. CASE UNCHANGED << up, down >>  BY <1>0, <2>1
  <2>2. ASSUME NEW f \in UpFrames, f[1] # "run", Send(f)
        PROVE  /\ up' \in Seq(UpFrames) /\ down' \in Seq(DownFrames)
               /\ link = "up" => down' = down /\ ToSet(up) \subseteq ToSet(up')
               /\ down' = down \/ (link = "cut" /\ down' = << << "eof" >> >>)
               /\ \A r \in OwnRuns : \A i \in DOMAIN up' :
                    up'[i] = << "run", r >> => \E j \in DOMAIN up : up[j] = << "run", r >>
    <3>1. /\ up' \in Seq(UpFrames) /\ down' \in Seq(DownFrames)
          /\ link = "up" => down' = down /\ ToSet(up') = ToSet(up) \cup {f}
          /\ down' = down \/ (link = "cut" /\ down' = << << "eof" >> >>)
          /\ \A i \in DOMAIN up' : up'[i] = f \/ (i \in DOMAIN up /\ up'[i] = up[i])
      BY <1>0, <2>2, SendEffect
    <3>2. \A r : f # << "run", r >>  BY <2>2, UpKinds
    <3> QED  BY <3>1, <3>2
  <2> QED  BY <1>1, <2>1, <2>2
<1>3. DaemonTyped'  BY <1>0, <1>1 DEF DaemonTyped
<1>4. SocketTyped'  BY <1>0, <1>1, <1>2 DEF SocketTyped
<1>5. LinkInv'  BY <1>0, <1>1, <1>2 DEF LinkInv
<1>6. AskedInv'  BY <1>0, <1>1 DEF AskedInv, Unsettled
<1>7. StartStep  BY <1>0, <1>1, <1>2 DEF StartStep, StartInv
<1>8. SocketStep
  <2>1. \A r \in OwnRuns : Silent(r)  BY <1>1, <1>2 DEF Silent
  <2> QED  BY <1>1, <2>1 DEF SocketStep
<1>9. PromptStep
  <2>1. ASSUME link = "up", NEW p \in Prompts, AtHand(p) PROVE AtHand(p)'
    <3>1. CASE OnScreen(p)
      <4>1. OnScreen(p)' \/ p \in covered' \/ \E ok \in BOOLEAN : << "reply", p, ok >> \in ToSet(up')
        BY <2>1, <3>1 DEF ScreenStep
      <4> QED  BY <4>1 DEF AtHand, OnScreen
    <3>2. CASE ~ OnScreen(p)
      <4>1. covered \subseteq covered'  BY DEF ScreenStep
      <4> QED  BY <1>1, <1>2, <2>1, <3>2, <4>1 DEF AtHand, OnScreen
    <3> QED  BY <3>1, <3>2
  <2> QED  BY <1>0, <1>1, <2>1 DEF PromptStep, Unsettled, DaemonTyped
<1> QED  BY <1>1, <1>3, <1>4, <1>5, <1>6, <1>7, <1>8, <1>9, Kept

LEMMA BecomesEffect ==
    ASSUME ScreenInv, NEW p, Becomes(p)
    PROVE  Screens /\ popup' = p
BY DEF Becomes, Screens, ScreenInv

LEMMA ClosePopupEffect ==
    ASSUME ScreenTyped, ScreenInv, ClosePopup
    PROVE  /\ Screens
           /\ popup' \in Prompts \cup {Nobody} /\ popupQueue' \in Seq(Prompts)
           /\ \A p : p \in ToSet(popupQueue) => popup' = p \/ p \in ToSet(popupQueue')
<1>0. popupQueue \in Seq(Prompts)  BY DEF ScreenTyped
<1>1. CASE popupQueue = << >>
  <2>1. popupQueue' = << >> /\ Becomes(Nobody)  BY <1>1 DEF ClosePopup
  <2>2. Screens /\ popup' = Nobody  BY <2>1, BecomesEffect
  <2>3. popupQueue' \in Seq(Prompts) /\ popupQueue' = popupQueue  BY <1>1, <2>1
  <2> QED  BY <2>2, <2>3
<1>2. CASE popupQueue # << >>
  <2>1. popupQueue' = Tail(popupQueue) /\ Becomes(Head(popupQueue))  BY <1>2 DEF ClosePopup
  <2>2. Screens /\ popup' = Head(popupQueue)  BY <2>1, BecomesEffect
  <2>3. /\ Head(popupQueue) \in Prompts /\ Tail(popupQueue) \in Seq(Prompts)
        /\ ToSet(popupQueue) = {Head(popupQueue)} \cup ToSet(Tail(popupQueue))
    BY <1>0, <1>2, TailOf
  <2> QED  BY <2>1, <2>2, <2>3
<1> QED  BY <1>1, <1>2

(* A step of the popups alone.                                              *)
LEMMA PopupKept ==
    ASSUME WindowInv,
           UNCHANGED << run, sent, prompt, asks, matched, served, replying, link, inbox, waiting, quit,
                        hand, exec, event, handle >>,
           UNCHANGED << up, down >> \/ \E f \in UpFrames : f[1] # "run" /\ Send(f),
           Screens, covered \subseteq covered',
           popup' \in Prompts \cup Pages \cup {Nobody}, popupQueue' \in Seq(Prompts),
           choices' \subseteq {"stop", "login", "paste"},
           popup \notin Prompts \/ popup' = popup \/ popup \in covered'
              \/ (link = "up" => \E ok \in BOOLEAN : << "reply", popup, ok >> \in ToSet(up')),
           \A p : p \in ToSet(popupQueue) => popup' = p \/ p \in ToSet(popupQueue') \/ p \in covered'
    PROVE  WindowInv'
<1>0. SocketTyped /\ ScreenTyped  BY WindowParts
<1>1. EventsSame  BY DEF EventsSame
<1>2. link = "up" => \A p \in Prompts : OnScreen(p) =>
          OnScreen(p)' \/ p \in covered' \/ \E ok \in BOOLEAN : << "reply", p, ok >> \in ToSet(up')
  BY DEF OnScreen
<1>3. ScreenStep  BY <1>1, <1>2 DEF ScreenStep
<1>4. hand' \in Prompts \cup {Nobody, "lost", "back"}  BY <1>0 DEF SocketTyped
<1>5. shown' \in [OwnRuns -> Seq(Nat)] /\ eventQueue' \in Seq(OwnRuns \X Nat) => ScreenTyped'
  BY <1>0 DEF ScreenTyped
<1> QED  BY <1>3, <1>4, <1>5, ScreenStepKept

LEMMA NobodyApart ==
    /\ Nobody \notin Prompts /\ Nobody \notin OwnRuns /\ \A p \in Prompts : p \notin Pages
    /\ "lost" \notin Prompts /\ "back" \notin Prompts
BY IpcAssumption, WindowAssumption DEF Runs

LEMMA CancelEffect ==
    ASSUME NEW r \in OwnRuns, Cancel(r)
    PROVE  UNCHANGED << up, down >> \/ \E f \in UpFrames : f[1] # "run" /\ Send(f)
<1>1. CASE r \in hashes
  <2>1. PICK f \in UpFrames : f = << "cancel", r >>  BY UpHas
  <2>2. Send(f) /\ f[1] # "run"  BY <1>1, <2>1 DEF Cancel
  <2> QED  BY <2>2
<1>2. CASE r \notin hashes  BY <1>2 DEF Cancel
<1> QED  BY <1>1, <1>2

LEMMA ReplyEffect ==
    ASSUME WindowTyped, NEW p \in Prompts, NEW ok \in BOOLEAN, Send(<< "reply", p, ok >>)
    PROVE  /\ \E f \in UpFrames : f[1] # "run" /\ Send(f)
           /\ link = "up" => << "reply", p, ok >> \in ToSet(up')
<1>1. PICK f \in UpFrames : f = << "reply", p, ok >>  BY UpHas
<1>2. f[1] # "run" /\ Send(f)  BY <1>1
<1>3. link = "up" => ToSet(up') = ToSet(up) \cup {f}  BY <1>2, SendEffect
<1> QED  BY <1>1, <1>2, <1>3

LEMMA SubmitKept ==
    ASSUME WindowInv, NEW q \in OwnRuns, Submit(q)
    PROVE  WindowInv'
<1>0. SocketTyped /\ ScreenTyped /\ ScreenInv  BY WindowParts
<1>1. /\ UNCHANGED << run, sent, prompt, asks, matched, served, replying, link, inbox, waiting, quit,
                      hand, up, down, event, handle, popup, popupQueue, eventQueue, shown, choices, covered >>
      /\ exec[q] = "no" /\ exec' = [exec EXCEPT ![q] = "begin"]
  BY DEF Submit, ipcVars, daemonVars, clientVars, popupVars
<1>2. exec' \in [OwnRuns -> {"no", "begin", "call", "read", "event", "done", "over"}]
      /\ \A r \in OwnRuns : exec'[r] = IF r = q THEN "begin" ELSE exec[r]
  BY <1>0, <1>1 DEF ScreenTyped
<1>3. Screens /\ EventsSame  BY <1>0, <1>1, <1>2 DEF Screens, EventsSame, ScreenInv
<1>4. \A p \in Prompts : OnScreen(p) => OnScreen(p)'  BY <1>1 DEF OnScreen
<1>5. ScreenStep  BY <1>1, <1>2, <1>3, <1>4 DEF ScreenStep, Unbegun
<1>6. ScreenTyped' /\ hand' \in Prompts \cup {Nobody, "lost", "back"}
  BY <1>0, <1>1, <1>2 DEF ScreenTyped, SocketTyped
<1> QED  BY <1>5, <1>6, ScreenStepKept

LEMMA InterruptKept ==
    ASSUME WindowInv, Interrupt
    PROVE  WindowInv'
<1>0. ScreenTyped /\ ScreenInv  BY WindowParts
<1>1. /\ UNCHANGED << run, sent, prompt, asks, matched, served, replying, link, inbox, waiting, quit,
                      hand, exec, event, handle, choices, covered >>
      /\ popup = Nobody /\ handle \in OwnRuns
      /\ \/ Cancel(handle) /\ UNCHANGED popupVars
         \/ Becomes("confirm") /\ UNCHANGED << up, down, popupQueue >>
  BY <1>0 DEF Interrupt, daemonVars, clientVars, ScreenTyped
<1>2. popup \notin Prompts /\ "confirm" \in Pages  BY <1>1, NobodyApart DEF Pages
<1>3. CASE Cancel(handle) /\ UNCHANGED popupVars
  <2>1. UNCHANGED << popup, popupQueue, eventQueue, shown >>  BY <1>3 DEF popupVars
  <2>2. Screens  BY <1>0, <2>1 DEF Screens, ScreenInv
  <2>3. UNCHANGED << up, down >> \/ \E f \in UpFrames : f[1] # "run" /\ Send(f)  BY <1>1, <1>3, CancelEffect
  <2> QED  BY <1>0, <1>1, <2>1, <2>2, <2>3, PopupKept DEF ScreenTyped
<1>4. CASE Becomes("confirm") /\ UNCHANGED << up, down, popupQueue >>
  <2>1. Screens /\ popup' = "confirm"  BY <1>0, <1>4, BecomesEffect
  <2> QED  BY <1>0, <1>1, <1>2, <1>4, <2>1, PopupKept DEF ScreenTyped
<1> QED  BY <1>1, <1>3, <1>4

LEMMA PageKept ==
    ASSUME WindowInv,
           UNCHANGED << run, sent, prompt, asks, matched, served, replying, link, inbox, waiting, quit,
                        hand, up, down, exec, event, handle, popupQueue >>,
           popup \notin Prompts, NEW p \in Pages, Becomes(p), covered' = covered,
           choices' \subseteq {"stop", "login", "paste"}
    PROVE  WindowInv'
<1>0. ScreenTyped /\ ScreenInv  BY WindowParts
<1>1. Screens /\ popup' = p  BY <1>0, BecomesEffect
<1> QED  BY <1>0, <1>1, PopupKept DEF ScreenTyped

LEMMA ReplyKeptUp ==
    ASSUME WindowInv, popup \in Prompts, NEW ok \in BOOLEAN, Send(<< "reply", popup, ok >>), ClosePopup,
           UNCHANGED << daemonVars, restarts, link, clientVars, quit, execVars, busy, handle,
                        connecting, choices, login, asked, endMissed, covered >>
    PROVE  WindowInv'
<1>0. WindowTyped /\ ScreenTyped /\ ScreenInv  BY WindowParts
<1>1. UNCHANGED << run, sent, prompt, asks, matched, served, replying, link, inbox, waiting, quit,
                   hand, exec, event, handle, choices, covered >>
  BY DEF daemonVars, clientVars, execVars
<1>2. /\ \E f \in UpFrames : f[1] # "run" /\ Send(f)
      /\ link = "up" => << "reply", popup, ok >> \in ToSet(up')
  BY <1>0, ReplyEffect
<1>3. /\ Screens
      /\ popup' \in Prompts \cup {Nobody} /\ popupQueue' \in Seq(Prompts)
      /\ \A p : p \in ToSet(popupQueue) => popup' = p \/ p \in ToSet(popupQueue')
  BY <1>0, ClosePopupEffect
<1> QED  BY <1>0, <1>1, <1>2, <1>3, PopupKept DEF ScreenTyped

LEMMA ClosedKept ==
    ASSUME WindowInv, popup \notin Prompts, ClosePopup, choices' \subseteq {"stop", "login", "paste"},
           UNCHANGED << ipcVars, execVars, busy, handle, connecting, login, endMissed, covered >>
    PROVE  WindowInv'
<1>0. ScreenTyped /\ ScreenInv  BY WindowParts
<1>1. UNCHANGED << run, sent, prompt, asks, matched, served, replying, link, inbox, waiting, quit,
                   up, down, hand, exec, event, handle, covered >>
  BY DEF ipcVars, daemonVars, clientVars, execVars
<1>2. /\ Screens
      /\ popup' \in Prompts \cup {Nobody} /\ popupQueue' \in Seq(Prompts)
      /\ \A p : p \in ToSet(popupQueue) => popup' = p \/ p \in ToSet(popupQueue')
  BY <1>0, ClosePopupEffect
<1> QED  BY <1>0, <1>1, <1>2, PopupKept

LEMMA KeysKept ==
    ASSUME WindowInv, Keys
    PROVE  WindowInv'
<1>0. ScreenTyped /\ ScreenInv  BY WindowParts
<1>1. ASSUME NEW r \in OwnRuns, Submit(r) PROVE WindowInv'  BY <1>1, SubmitKept
<1>2. CASE Interrupt  BY <1>2, InterruptKept
<1>3. CASE OpenMenu
  <2>1. /\ UNCHANGED << run, sent, prompt, asks, matched, served, replying, link, inbox, waiting, quit,
                        hand, up, down, exec, event, handle, popupQueue, choices, covered >>
        /\ popup = Nobody /\ Becomes("menu")
    BY <1>3 DEF OpenMenu, ipcVars, daemonVars, clientVars, execVars
  <2>2. popup \notin Prompts /\ "menu" \in Pages  BY <2>1, NobodyApart DEF Pages
  <2> QED  BY <1>0, <2>1, <2>2, PageKept DEF ScreenTyped
<1>4. CASE Advance
  <2>1. UNCHANGED << run, sent, prompt, asks, matched, served, replying, link, inbox, waiting, quit,
                     hand, up, down, exec, event, handle, popup, popupQueue, eventQueue, shown, choices, covered >>
    BY <1>4 DEF Advance, ipcVars, daemonVars, clientVars, execVars, tuiVars
  <2>2. Screens  BY <1>0, <2>1 DEF Screens, ScreenInv
  <2> QED  BY <1>0, <2>1, <2>2, PopupKept DEF ScreenTyped
<1>5. CASE Answer
  <2>1. TRUE \in BOOLEAN  OBVIOUS
  <2> QED  BY <1>5, <2>1, ReplyKeptUp DEF Answer
<1>6. CASE Abort
  <2>1. FALSE \in BOOLEAN  OBVIOUS
  <2> QED  BY <1>6, <2>1, ReplyKeptUp DEF Abort
<1>7. CASE Choose
  <2>1. popup \notin Prompts  BY <1>7, NobodyApart DEF Choose, Pages
  <2>2. choices' \subseteq {"stop", "login", "paste"}  BY <1>0, <1>7 DEF Choose, ScreenTyped
  <2> QED  BY <1>7, <2>1, <2>2, ClosedKept DEF Choose
<1>8. CASE Dismiss
  <2>1. popup \notin Prompts  BY <1>8, NobodyApart DEF Dismiss, Pages
  <2>2. choices' \subseteq {"stop", "login", "paste"}  BY <1>0, <1>8 DEF Dismiss, ScreenTyped
  <2> QED  BY <1>8, <2>1, <2>2, ClosedKept DEF Dismiss
<1>9. CASE OpenPaste
  <2>1. /\ UNCHANGED << run, sent, prompt, asks, matched, served, replying, link, inbox, waiting, quit,
                        hand, up, down, exec, event, handle, popupQueue, choices, covered >>
        /\ popup = "login" /\ Becomes("paste")
    BY <1>9 DEF OpenPaste, ipcVars, daemonVars, clientVars, execVars
  <2>2. popup \notin Prompts /\ "paste" \in Pages  BY <2>1, NobodyApart DEF Pages
  <2> QED  BY <1>0, <2>1, <2>2, PageKept DEF ScreenTyped
<1> QED  BY <1>1, <1>2, <1>3, <1>4, <1>5, <1>6, <1>7, <1>8, <1>9 DEF Keys

LEMMA ChildKept ==
    ASSUME WindowInv, Child
    PROVE  WindowInv'
<1>0. ScreenTyped /\ ScreenInv  BY WindowParts
<1>1. PICK c \in choices : /\ choices' = choices \ {c}
                           /\ IF popup = Nobody THEN Taken(c)
                              ELSE UNCHANGED << up, down, pending, popupVars, emitted, login >>
  BY DEF Child
<1>2. UNCHANGED << run, sent, prompt, asks, matched, served, replying, link, inbox, waiting, quit,
                   hand, exec, event, handle, covered >>
  BY DEF Child, daemonVars, clientVars
<1>3. choices' \subseteq {"stop", "login", "paste"} /\ c \in {"stop", "login", "paste"}
  BY <1>0, <1>1 DEF ScreenTyped
<1>4. ASSUME UNCHANGED << popup, popupQueue, eventQueue, shown >>,
             UNCHANGED << up, down >> \/ \E f \in UpFrames : f[1] # "run" /\ Send(f)
      PROVE  WindowInv'
  <2>1. Screens  BY <1>0, <1>4 DEF Screens, ScreenInv
  <2> QED  BY <1>0, <1>2, <1>3, <1>4, <2>1, PopupKept DEF ScreenTyped
<1>5. CASE popup # Nobody  BY <1>1, <1>4, <1>5 DEF popupVars
<1>6. CASE popup = Nobody
  <2>0. Taken(c) /\ popup \notin Prompts /\ "login" \in Pages  BY <1>1, <1>6, NobodyApart DEF Pages
  <2>1. CASE c = "stop"
    <3>1. /\ IF handle # Nobody THEN Cancel(handle) ELSE UNCHANGED << up, down, pending >>
          /\ UNCHANGED popupVars
      BY <2>0, <2>1 DEF Taken
    <3>2. UNCHANGED << up, down >> \/ \E f \in UpFrames : f[1] # "run" /\ Send(f)
      <4>1. CASE handle # Nobody
        <5>1. handle \in OwnRuns /\ Cancel(handle)  BY <1>0, <3>1, <4>1 DEF ScreenTyped
        <5> QED  BY <5>1, CancelEffect
      <4>2. CASE handle = Nobody  BY <3>1, <4>2
      <4> QED  BY <4>1, <4>2
    <3> QED  BY <1>4, <3>1, <3>2 DEF popupVars
  <2>2. ASSUME Becomes("login"), UNCHANGED << up, down, popupQueue >> PROVE WindowInv'
    BY <1>2, <1>3, <2>0, <2>2, PageKept
  <2>3. CASE c = "login"
    <3>1. CASE login = "off"
      <4>1. Becomes("login") /\ UNCHANGED << up, down, popupQueue >>  BY <2>0, <2>3, <3>1 DEF Taken
      <4> QED  BY <2>2, <4>1
    <3>2. CASE login # "off"
      <4>1. UNCHANGED << up, down, popupVars >>  BY <2>0, <2>3, <3>2 DEF Taken
      <4> QED  BY <1>4, <4>1 DEF popupVars
    <3> QED  BY <3>1, <3>2
  <2>4. CASE c = "paste"
    <3>1. Becomes("login") /\ UNCHANGED << up, down, popupQueue >>  BY <2>0, <2>4 DEF Taken
    <3> QED  BY <2>2, <3>1
  <2> QED  BY <1>3, <2>1, <2>3, <2>4
<1> QED  BY <1>5, <1>6

LEMMA PendingKept ==
    ASSUME WindowInv, PendingMsg
    PROVE  WindowInv'
<1>0. ScreenTyped /\ ScreenInv /\ popupQueue \in Seq(Prompts)  BY WindowParts DEF ScreenTyped
<1>1. PICK q \in Prompts : q = hand  BY DEF PendingMsg
<1>2. /\ UNCHANGED << run, sent, prompt, asks, matched, served, replying, link, inbox, waiting, quit,
                      up, down, exec, event, handle, choices, covered >>
      /\ hand' = Nobody
      /\ IF popup = Nobody
         THEN Becomes(q) /\ UNCHANGED popupQueue
         ELSE popupQueue' = Append(popupQueue, q) /\ UNCHANGED << popup, eventQueue, shown >>
  BY <1>1 DEF PendingMsg, daemonVars, execVars
<1>3. /\ Screens
      /\ popup' \in Prompts \cup Pages \cup {Nobody} /\ popupQueue' \in Seq(Prompts)
      /\ \A p \in Prompts : OnScreen(p) => OnScreen(p)'
  <2>1. CASE popup = Nobody
    <3>1. Screens /\ popup' = q /\ popupQueue' = popupQueue  BY <1>0, <1>2, <2>1, BecomesEffect
    <3>2. \A p \in Prompts : OnScreen(p) => OnScreen(p)'  BY <1>1, <2>1, <3>1, NobodyApart DEF OnScreen
    <3> QED  BY <1>0, <3>1, <3>2
  <2>2. CASE popup # Nobody
    <3>1. popupQueue' = Append(popupQueue, q) /\ UNCHANGED << popup, eventQueue, shown >>  BY <1>2, <2>2
    <3>2. popupQueue' \in Seq(Prompts) /\ ToSet(popupQueue') = ToSet(popupQueue) \cup {q}
      BY <1>0, <3>1, AppendTo
    <3>3. \A p \in Prompts : OnScreen(p) => OnScreen(p)'  BY <1>1, <3>1, <3>2 DEF OnScreen
    <3> QED  BY <1>0, <2>2, <3>1, <3>2, <3>3 DEF Screens, ScreenTyped
  <2> QED  BY <2>1, <2>2
<1>4. EventsSame  BY <1>2 DEF EventsSame
<1>5. ScreenStep  BY <1>2, <1>3, <1>4 DEF ScreenStep
<1>6. shown' \in [OwnRuns -> Seq(Nat)] /\ eventQueue' \in Seq(OwnRuns \X Nat) => ScreenTyped'
  BY <1>0, <1>2, <1>3 DEF ScreenTyped
<1> QED  BY <1>2, <1>5, <1>6, ScreenStepKept

LEMMA DaemonStateKept ==
    ASSUME WindowInv, DaemonState
    PROVE  WindowInv'
<1>0. ScreenTyped /\ ScreenInv  BY WindowParts
<1>1. /\ UNCHANGED << run, sent, prompt, asks, matched, served, replying, link, inbox, waiting, quit,
                      up, down, exec, event, handle, choices, covered, popup, popupQueue, eventQueue, shown >>
      /\ hand \in {"lost", "back"} /\ hand' = Nobody
  BY DEF DaemonState, daemonVars, execVars, popupVars
<1>2. Screens /\ EventsSame  BY <1>0, <1>1 DEF Screens, EventsSame, ScreenInv
<1>3. \A p \in Prompts : OnScreen(p) => OnScreen(p)'  BY <1>1, NobodyApart DEF OnScreen
<1>4. ScreenStep  BY <1>1, <1>2, <1>3 DEF ScreenStep
<1>5. ScreenTyped'  BY <1>0, <1>1 DEF ScreenTyped
<1> QED  BY <1>1, <1>4, <1>5, ScreenStepKept

LEMMA LoginKept ==
    ASSUME WindowInv, LoginEnds \/ LoginDone
    PROVE  WindowInv'
<1>0. ScreenTyped /\ ScreenInv  BY WindowParts
<1>1. CASE LoginEnds
  <2>1. UNCHANGED << run, sent, prompt, asks, matched, served, replying, link, inbox, waiting, quit,
                     hand, up, down, exec, event, handle, popup, popupQueue, eventQueue, shown, choices, covered >>
    BY <1>1 DEF LoginEnds, ipcVars, daemonVars, clientVars, execVars, tuiVars, popupVars
  <2>2. Screens  BY <1>0, <2>1 DEF Screens, ScreenInv
  <2> QED  BY <1>0, <2>1, <2>2, PopupKept DEF ScreenTyped
<1>2. CASE LoginDone
  <2>1. /\ UNCHANGED << run, sent, prompt, asks, matched, served, replying, link, inbox, waiting, quit,
                        hand, up, down, exec, event, handle, popupQueue, choices >>
        /\ covered' = (covered \cup ({popup} \cap Prompts)) \cup ToSet(popupQueue)
        /\ Becomes(Nobody)
    BY <1>2 DEF LoginDone, ipcVars, daemonVars, clientVars, execVars
  <2>2. Screens /\ popup' = Nobody  BY <1>0, <2>1, BecomesEffect
  <2> QED  BY <1>0, <2>1, <2>2, PopupKept DEF ScreenTyped
<1> QED  BY <1>1, <1>2
-----------------------------------------------------------------------------
(* runExec, and what its events do to the screen.                           *)

LEMMA AgentExecKept ==
    ASSUME WindowInv, NEW q \in OwnRuns, AgentExec(q) \/ AgentExecDone(q)
    PROVE  WindowInv'
<1>0. SocketTyped /\ ScreenTyped /\ ScreenInv  BY WindowParts
<1>1. PICK v \in {"call", "over"} :
      /\ UNCHANGED << run, sent, prompt, asks, matched, served, replying, link, inbox, waiting, quit,
                      hand, up, down, event, popup, popupQueue, eventQueue, shown, choices, covered >>
      /\ (exec[q] = "begin" /\ v = "call") \/ (exec[q] = "done" /\ v = "over")
      /\ exec' = [exec EXCEPT ![q] = v] /\ handle' \in OwnRuns \cup {Nobody}
  <2>1. CASE AgentExec(q)
    <3>1. handle' \in OwnRuns \cup {Nobody}  BY <1>0, <2>1 DEF AgentExec, ScreenTyped
    <3> QED  BY <2>1, <3>1 DEF AgentExec, ipcVars, daemonVars, clientVars, popupVars
  <2>2. CASE AgentExecDone(q)
    <3>1. handle' \in OwnRuns \cup {Nobody}  BY <1>0, <2>2 DEF AgentExecDone, ScreenTyped
    <3> QED  BY <2>2, <3>1 DEF AgentExecDone, ipcVars, daemonVars, clientVars, popupVars
  <2> QED  BY <2>1, <2>2
<1>2. exec' \in [OwnRuns -> {"no", "begin", "call", "read", "event", "done", "over"}]
      /\ \A r \in OwnRuns : exec'[r] = IF r = q THEN v ELSE exec[r]
  BY <1>0, <1>1 DEF ScreenTyped
<1>3. Screens  BY <1>0, <1>1 DEF Screens, ScreenInv
<1>4. EventsSame  BY <1>1, <1>2 DEF EventsSame
<1>5. \A p \in Prompts : OnScreen(p) => OnScreen(p)'  BY <1>1 DEF OnScreen
<1>6. \A r \in OwnRuns : /\ exec'[r] \in Unbegun => exec[r] \in Unbegun
                         /\ exec'[r] \in {"read", "event"} <=> exec[r] \in {"read", "event"}
  BY <1>1, <1>2 DEF Unbegun
<1>7. ScreenStep  BY <1>1, <1>3, <1>4, <1>5, <1>6 DEF ScreenStep
<1>8. ScreenTyped' /\ hand' \in Prompts \cup {Nobody, "lost", "back"}
  BY <1>0, <1>1, <1>2 DEF ScreenTyped, SocketTyped
<1> QED  BY <1>7, <1>8, ScreenStepKept

LEMMA CallRunKept ==
    ASSUME WindowInv, NEW q \in OwnRuns, CallRun(q)
    PROVE  WindowInv'
<1>0. /\ DaemonTyped /\ SocketTyped /\ ScreenTyped /\ WindowTyped /\ LinkInv /\ AskedInv /\ ScreenInv
      /\ StartInv /\ SocketInv /\ NoPromptMislaid
      /\ up \in Seq(UpFrames) /\ down \in Seq(DownFrames)
  BY WindowParts
<1>1. PICK f \in UpFrames : f = << "run", q >>  BY UpHas
<1>2. /\ Send(f) /\ exec[q] = "call"
      /\ UNCHANGED << sent, prompt, asks, matched, served, replying, link, hand, inbox, quit,
                      event, handle, popup, popupQueue, eventQueue, shown, choices, covered >>
  BY <1>1 DEF CallRun, tuiVars, popupVars
<1>3. /\ up' \in Seq(UpFrames) /\ down' \in Seq(DownFrames)
      /\ link = "up" => up' = Append(up, f) /\ down' = down /\ ToSet(up') = ToSet(up) \cup {f}
      /\ link # "up" => up' = up
      /\ down' = down \/ (link = "cut" /\ down' = << << "eof" >> >>)
      /\ \A i \in DOMAIN up' : up'[i] = f \/ (i \in DOMAIN up /\ up'[i] = up[i])
  BY <1>0, <1>2, SendEffect
<1>4. PICK v \in {"read", "done"}, w \in {"sent", "over"} :
        /\ v = "read" <=> link = "up"
        /\ w = "sent" <=> link = "up"
        /\ exec' = [exec EXCEPT ![q] = v] /\ run' = [run EXCEPT ![q] = w]
        /\ waiting' = IF link = "up" THEN waiting \cup {q} ELSE waiting
  <2>1. CASE link = "up"
    <3>1. /\ exec' = [exec EXCEPT ![q] = "read"] /\ run' = [run EXCEPT ![q] = "sent"]
          /\ waiting' = waiting \cup {q}
      BY <2>1 DEF CallRun, CanSend
    <3> QED  BY <2>1, <3>1
  <2>2. CASE link # "up"
    <3>1. /\ exec' = [exec EXCEPT ![q] = "done"] /\ run' = [run EXCEPT ![q] = "over"]
          /\ waiting' = waiting
      BY <2>2 DEF CallRun, CanSend
    <3> QED  BY <2>2, <3>1
  <2> QED  BY <2>1, <2>2
<1>5. /\ run[q] = "new" /\ sent[q] = 0 /\ inbox[q] = << >> /\ ToShow(q) = 0 /\ q \notin waiting
  BY <1>0, <1>2 DEF StartInv, Unbegun
<1>6. /\ exec' \in [OwnRuns -> {"no", "begin", "call", "read", "event", "done", "over"}]
      /\ \A r \in OwnRuns : exec'[r] = IF r = q THEN v ELSE exec[r]
      /\ run' \in [Runs -> {"new", "sent", "on", "check", "wait", "ended", "over"}]
      /\ \A r \in Runs : run'[r] = IF r = q THEN w ELSE run[r]
  BY <1>0, <1>4 DEF ScreenTyped, DaemonTyped, Runs
<1>7. DaemonTyped'  BY <1>0, <1>2, <1>6 DEF DaemonTyped
<1>8. SocketTyped'  BY <1>0, <1>2, <1>3, <1>4 DEF SocketTyped
<1>9. LinkInv'
  <2>1. ~quit /\ link # "up" => \A r \in OwnRuns : run'[r] \in {"new", "over"}
    BY <1>0, <1>4, <1>6 DEF LinkInv, Runs
  <2> QED  BY <1>0, <1>2, <1>3, <1>4, <2>1 DEF LinkInv
<1>10. AskedInv'
  <2>1. \A p \in Unsettled : Of[p] \in Runs  BY IpcAssumption DEF Unsettled
  <2>2. Unsettled' = Unsettled  BY <1>2 DEF Unsettled
  <2> QED  BY <1>0, <1>2, <1>6, <2>1, <2>2 DEF AskedInv
<1>11. Screens  BY <1>0, <1>2 DEF Screens, ScreenInv
<1>12. EventsSame  BY <1>2, <1>4, <1>6 DEF EventsSame
<1>13. /\ ScreenInv' /\ \A r \in OwnRuns : ToShow(r)' = ToShow(r) /\ Fetched(r)' = Fetched(r)
  BY <1>0, <1>11, <1>12, ScreenKept
<1>14. ScreenTyped'  BY <1>0, <1>2, <1>6 DEF ScreenTyped
<1>15. NoPromptMislaid'
  <2>1. link = "up" => \A p \in Prompts : AtHand(p) => AtHand(p)'  BY <1>2, <1>3 DEF AtHand
  <2>2. PromptStep  BY <1>0, <1>2, <2>1 DEF PromptStep, Unsettled, DaemonTyped
  <2> QED  BY <1>0, <2>2, PromptsKept
<1>16. StartInv'
  <2> SUFFICES ASSUME NEW r \in OwnRuns
               PROVE  /\ exec'[r] \in Unbegun =>
                            /\ run'[r] = "new" /\ sent'[r] = 0 /\ inbox'[r] = << >> /\ ToShow(r)' = 0
                            /\ r \notin waiting' /\ \A i \in DOMAIN up' : up'[i] # << "run", r >>
                      /\ r \in waiting' => exec'[r] \in {"read", "event"}
    BY DEF StartInv
  <2>1. CASE r = q
    <3>1. exec'[r] = v /\ exec'[r] \notin Unbegun  BY <1>6, <2>1 DEF Unbegun
    <3>2. r \in waiting' => exec'[r] = "read"  BY <1>4, <1>5, <1>6, <2>1
    <3> QED  BY <3>1, <3>2
  <2>2. CASE r # q
    <3>1. exec'[r] = exec[r] /\ run'[r] = run[r]  BY <1>6, <2>2 DEF Runs
    <3>2. f # << "run", r >>  BY <1>1, <2>2
    <3>3. r \in waiting' <=> r \in waiting  BY <1>4, <2>2
    <3> QED  BY <1>0, <1>2, <1>3, <1>13, <3>1, <3>2, <3>3 DEF StartInv
  <2> QED  BY <2>1, <2>2
<1>17. SocketInv'
  <2> SUFFICES ASSUME NEW r \in OwnRuns
               PROVE  /\ \A i \in DOMAIN down', n \in Nat : OnSocket(r, n, i)' => 1 <= n /\ n <= sent'[r]
                      /\ exec'[r] \in {"read", "event"} => InboxInv(r)'
                      /\ r \in waiting' => FramesInv(r)'
    BY DEF SocketInv
  <2>0. /\ \A i \in DOMAIN down, n \in Nat : OnSocket(r, n, i) => 1 <= n /\ n <= sent[r]
        /\ exec[r] \in {"read", "event"} => InboxInv(r)
        /\ r \in waiting => FramesInv(r)
    BY <1>0 DEF SocketInv
  <2>1. Silent(r) /\ sent'[r] = sent[r]  BY <1>2, <1>3 DEF Silent
  <2>2. Received(r)' = Received(r)  BY <1>2, <1>13 DEF Received
  <2>3. \A i \in DOMAIN down', n \in Nat : OnSocket(r, n, i)' => 1 <= n /\ n <= sent'[r]
    BY <1>0, <2>0, <2>1, FramesKept
  <2>4. CASE r = q
    <3>1. InboxInv(r)'  BY <1>2, <1>5, <2>4 DEF InboxInv
    <3>2. Received(r)' = 0
      <4>1. Fetched(r) = 0  BY <1>2, <1>5, <2>4 DEF Fetched
      <4>2. Len(inbox[r]) = 0  BY <1>5, <2>4
      <4> QED  BY <2>2, <4>1, <4>2 DEF Received
    <3>3. sent'[r] = 0  BY <1>2, <1>5, <2>4
    <3>4. \A i \in DOMAIN down', n \in Nat : ~ OnSocket(r, n, i)'  BY <2>3, <3>3
    <3>5. FramesInv(r)'  BY <3>2, <3>3, <3>4 DEF FramesInv
    <3> QED  BY <2>3, <3>1, <3>5
  <2>5. CASE r # q
    <3>1. exec'[r] = exec[r] /\ (r \in waiting' <=> r \in waiting)  BY <1>4, <1>6, <2>5
    <3>2. exec'[r] \in {"read", "event"} => InboxInv(r)'  BY <1>2, <1>13, <2>0, <3>1 DEF InboxInv
    <3> QED  BY <1>0, <1>2, <2>0, <2>1, <2>2, <2>3, <3>1, <3>2, FramesKept
  <2> QED  BY <2>4, <2>5
<1> QED  BY <1>7, <1>8, <1>9, <1>10, <1>13, <1>14, <1>15, <1>16, <1>17 DEF WindowInv, WindowTyped

LEMMA NextFrameKept ==
    ASSUME WindowInv, NEW q \in OwnRuns, NextFrame(q)
    PROVE  WindowInv'
<1>0. /\ DaemonTyped /\ SocketTyped /\ ScreenTyped /\ WindowTyped /\ LinkInv /\ AskedInv /\ ScreenInv
      /\ StartInv /\ SocketInv /\ NoPromptMislaid
      /\ up \in Seq(UpFrames) /\ down \in Seq(DownFrames)
  BY WindowParts
<1>1. /\ exec[q] = "read" /\ inbox[q] # << >> /\ inbox[q] \in Seq(DownFrames)
      /\ inbox' = [inbox EXCEPT ![q] = Tail(inbox[q])]
      /\ UNCHANGED << run, sent, prompt, asks, matched, served, replying, link, waiting, hand, quit,
                      handle, popup, popupQueue, eventQueue, shown, choices, covered >>
  BY <1>0 DEF NextFrame, daemonVars, tuiVars, popupVars, SocketTyped
<1>2. /\ Head(inbox[q]) \in DownFrames /\ Head(inbox[q]) = inbox[q][1] /\ 1 \in DOMAIN inbox[q]
      /\ Tail(inbox[q]) \in Seq(DownFrames) /\ Len(Tail(inbox[q])) = Len(inbox[q]) - 1
      /\ Len(inbox[q]) \in Nat /\ Len(inbox[q]) >= 1
      /\ DOMAIN Tail(inbox[q]) = 1 .. (Len(inbox[q]) - 1)
      /\ \A i \in DOMAIN Tail(inbox[q]) : i + 1 \in DOMAIN inbox[q] /\ Tail(inbox[q])[i] = inbox[q][i + 1]
  BY <1>1, TailOf
<1>3. /\ inbox' \in [OwnRuns -> Seq(DownFrames)] /\ inbox'[q] = Tail(inbox[q])
      /\ \A r \in OwnRuns : r # q => inbox'[r] = inbox[r]
  BY <1>0, <1>1, <1>2 DEF SocketTyped
<1>4. InboxInv(q) /\ Fetched(q) = ToShow(q) /\ ToShow(q) \in Nat
  BY <1>0, <1>1, MineFacts DEF SocketInv, Fetched
<1>5. \/ Head(inbox[q]) = << "event", q, ToShow(q) + 1 >>
      \/ Head(inbox[q]) = << "done", q >> /\ Len(inbox[q]) = 1 /\ q \notin waiting
  BY <1>2, <1>4 DEF InboxInv
<1>6. PICK v \in {"event", "done"} :
        /\ exec' = [exec EXCEPT ![q] = v]
        /\ v = "done" => q \notin waiting /\ event' = event
        /\ v = "event" => event' = [event EXCEPT ![q] = ToShow(q) + 1]
        /\ UNCHANGED << up, down >> \/ \E f \in UpFrames : f[1] # "run" /\ Send(f)
  <2>1. CASE Head(inbox[q])[1] = "done"
    <3>1. q \notin waiting
      <4>1. << "event", q, ToShow(q) + 1 >>[1] = "event"  OBVIOUS
      <4> QED  BY <1>5, <2>1, <4>1
    <3>2. exec' = [exec EXCEPT ![q] = "done"] /\ UNCHANGED << up, down, event >>
      BY <2>1 DEF NextFrame
    <3> QED  BY <3>1, <3>2
  <2>2. CASE Head(inbox[q])[1] # "done"
    <3>1. Head(inbox[q]) = << "event", q, ToShow(q) + 1 >>
      <4>1. << "done", q >>[1] = "done"  OBVIOUS
      <4> QED  BY <1>5, <2>2, <4>1
    <3>2. Head(inbox[q])[3] = ToShow(q) + 1  BY <3>1
    <3>3. /\ exec' = [exec EXCEPT ![q] = "event"]
          /\ event' = [event EXCEPT ![q] = Head(inbox[q])[3]]
          /\ IF q \in pending \ hashes THEN Send(<< "cancel", q >>) ELSE UNCHANGED << up, down >>
      BY <2>2 DEF NextFrame
    <3>4. PICK f \in UpFrames : f = << "cancel", q >>  BY UpHas
    <3>5. f[1] # "run" /\ (Send(f) \/ UNCHANGED << up, down >>)  BY <3>3, <3>4
    <3> QED  BY <3>2, <3>3, <3>5
  <2> QED  BY <2>1, <2>2
<1>7. /\ up' \in Seq(UpFrames) /\ down' \in Seq(DownFrames)
      /\ link = "up" => down' = down /\ ToSet(up) \subseteq ToSet(up')
      /\ down' = down \/ (link = "cut" /\ down' = << << "eof" >> >>)
      /\ \A r \in OwnRuns : \A i \in DOMAIN up' :
           up'[i] = << "run", r >> => \E j \in DOMAIN up : up[j] = << "run", r >>
  <2>1. CASE UNCHANGED << up, down >>  BY <1>0, <2>1
  <2>2. ASSUME NEW f \in UpFrames, f[1] # "run", Send(f)
        PROVE  /\ up' \in Seq(UpFrames) /\ down' \in Seq(DownFrames)
               /\ link = "up" => down' = down /\ ToSet(up) \subseteq ToSet(up')
               /\ down' = down \/ (link = "cut" /\ down' = << << "eof" >> >>)
               /\ \A r \in OwnRuns : \A i \in DOMAIN up' :
                    up'[i] = << "run", r >> => \E j \in DOMAIN up : up[j] = << "run", r >>
    <3>1. /\ up' \in Seq(UpFrames) /\ down' \in Seq(DownFrames)
          /\ link = "up" => down' = down /\ ToSet(up') = ToSet(up) \cup {f}
          /\ down' = down \/ (link = "cut" /\ down' = << << "eof" >> >>)
          /\ \A i \in DOMAIN up' : up'[i] = f \/ (i \in DOMAIN up /\ up'[i] = up[i])
      BY <1>0, <2>2, SendEffect
    <3>2. \A r : f # << "run", r >>  BY <2>2, UpKinds
    <3> QED  BY <3>1, <3>2
  <2> QED  BY <1>6, <2>1, <2>2
<1>8. /\ exec' \in [OwnRuns -> {"no", "begin", "call", "read", "event", "done", "over"}]
      /\ \A r \in OwnRuns : exec'[r] = IF r = q THEN v ELSE exec[r]
      /\ event' \in [OwnRuns -> Nat] /\ \A r \in OwnRuns : r # q => event'[r] = event[r]
      /\ v = "event" => event'[q] = ToShow(q) + 1
  <2>1. PICK k \in Nat : k = ToShow(q) + 1  BY <1>4
  <2>2. event' = event \/ event' = [event EXCEPT ![q] = k]  BY <1>6, <2>1
  <2>3. v = "event" => event' = [event EXCEPT ![q] = k]  BY <1>6, <2>1
  <2> QED  BY <1>0, <1>6, <2>1, <2>2, <2>3 DEF ScreenTyped
<1>9. DaemonTyped'  BY <1>0, <1>1 DEF DaemonTyped
<1>10. SocketTyped'  BY <1>0, <1>1, <1>3, <1>7 DEF SocketTyped
<1>11. ScreenTyped'  BY <1>0, <1>1, <1>8 DEF ScreenTyped
<1>12. LinkInv'  BY <1>0, <1>1, <1>7 DEF LinkInv
<1>13. AskedInv'  BY <1>0, <1>1 DEF AskedInv, Unsettled
<1>14. NoPromptMislaid'
  <2>1. link = "up" => \A p \in Prompts : AtHand(p) => AtHand(p)'  BY <1>1, <1>7 DEF AtHand
  <2>2. PromptStep  BY <1>0, <1>1, <2>1 DEF PromptStep, Unsettled, DaemonTyped
  <2> QED  BY <1>0, <2>2, PromptsKept
<1>15. \A r \in OwnRuns : Mine(r)' = Mine(r) /\ ToShow(r)' = ToShow(r)  BY <1>1 DEF Mine, From, ToShow
<1>16. ScreenInv'
  <2>1. \A r \in OwnRuns : exec'[r] = "event" => event'[r] = ToShow(r)' + 1
    BY <1>0, <1>8, <1>15 DEF ScreenInv
  <2> QED  BY <1>0, <1>1, <1>15, <2>1 DEF ScreenInv
<1>17. StartInv'
  <2>1. \A r \in OwnRuns : r \in waiting => exec'[r] \in {"read", "event"}
    BY <1>0, <1>6, <1>8 DEF StartInv
  <2>2. \A r \in OwnRuns : exec'[r] \in Unbegun => r # q /\ exec[r] \in Unbegun
    BY <1>8 DEF Unbegun
  <2>3. StartStep  BY <1>1, <1>3, <1>7, <2>1, <2>2 DEF StartStep
  <2> QED  BY <1>0, <1>15, <2>3, StartKept
<1>18. SocketInv'
  <2> SUFFICES ASSUME NEW r \in OwnRuns
               PROVE  /\ \A i \in DOMAIN down', n \in Nat : OnSocket(r, n, i)' => 1 <= n /\ n <= sent'[r]
                      /\ exec'[r] \in {"read", "event"} => InboxInv(r)'
                      /\ r \in waiting' => FramesInv(r)'
    BY DEF SocketInv
  <2>0. /\ \A i \in DOMAIN down, n \in Nat : OnSocket(r, n, i) => 1 <= n /\ n <= sent[r]
        /\ exec[r] \in {"read", "event"} => InboxInv(r)
        /\ r \in waiting => FramesInv(r)
    BY <1>0 DEF SocketInv
  <2>1. Silent(r) /\ sent'[r] = sent[r]  BY <1>1, <1>7 DEF Silent
  <2>2. CASE r # q
    <3>1. exec'[r] = exec[r] /\ inbox'[r] = inbox[r] /\ Fetched(r)' = Fetched(r)
      BY <1>3, <1>8, <1>15, <2>2 DEF Fetched
    <3>2. Received(r)' = Received(r)  BY <3>1 DEF Received
    <3>3. exec'[r] \in {"read", "event"} => InboxInv(r)'  BY <1>1, <2>0, <3>1 DEF InboxInv
    <3> QED  BY <1>0, <1>1, <2>0, <2>1, <3>2, <3>3, FramesKept
  <2>3. CASE r = q /\ v = "done"
    <3>1. exec'[r] \notin {"read", "event"} /\ r \notin waiting'  BY <1>1, <1>6, <1>8, <2>3
    <3> QED  BY <1>0, <2>0, <2>1, <3>1, FramesKept
  <2>4. CASE r = q /\ v = "event"
    <3>1. Fetched(r)' = Fetched(r) + 1 /\ Fetched(r) \in Nat  BY <1>4, <1>8, <1>15, <2>4 DEF Fetched
    <3>2. PICK l \in Nat : l = Len(inbox[r])  BY <1>2, <2>4
    <3>3. Len(inbox'[r]) = l - 1  BY <1>2, <1>3, <2>4, <3>2
    <3>4. Received(r)' = Received(r)
      <4>1. Received(r)' = (Fetched(r) + 1) + (l - 1)  BY <3>1, <3>3 DEF Received
      <4>2. Received(r) = Fetched(r) + l  BY <3>2 DEF Received
      <4> QED  BY <3>1, <3>2, <4>1, <4>2
    <3>5. InboxInv(r)'
      <4>1. ASSUME NEW i \in DOMAIN inbox'[r]
            PROVE  \/ inbox'[r][i] = << "event", r, Fetched(r)' + i >>
                   \/ inbox'[r][i] = << "done", r >> /\ i = Len(inbox'[r]) /\ r \notin waiting'
        <5>1. i \in Nat /\ i + 1 \in DOMAIN inbox[r] /\ inbox'[r][i] = inbox[r][i + 1]
          <6>1. inbox'[r] = Tail(inbox[q]) /\ DOMAIN Tail(inbox[q]) = 1 .. (l - 1)
            BY <1>2, <1>3, <2>4, <3>2
          <6>2. i \in 1 .. (l - 1)  BY <6>1
          <6>3. i \in Nat  BY <6>2
          <6> QED  BY <1>2, <2>4, <6>1, <6>3
        <5>2. \/ inbox[r][i + 1] = << "event", r, Fetched(r) + (i + 1) >>
              \/ inbox[r][i + 1] = << "done", r >> /\ i + 1 = l /\ r \notin waiting
          BY <1>4, <2>4, <3>2, <5>1 DEF InboxInv
        <5>3. Fetched(r) + (i + 1) = Fetched(r)' + i  BY <3>1, <5>1
        <5>4. i + 1 = l => i = l - 1  BY <5>1
        <5> QED  BY <1>1, <3>3, <5>1, <5>2, <5>3, <5>4
      <4> QED  BY <4>1 DEF InboxInv
    <3> QED  BY <1>0, <1>1, <2>0, <2>1, <3>4, <3>5, FramesKept
  <2> QED  BY <2>2, <2>3, <2>4
<1> QED  BY <1>9, <1>10, <1>11, <1>12, <1>13, <1>14, <1>16, <1>17, <1>18 DEF WindowInv, WindowTyped

(* The event is shown at once, or queued behind the popup: either way it is *)
(* the next one of its run.                                                 *)
LEMMA AgentEventKept ==
    ASSUME WindowInv, NEW q \in OwnRuns, AgentEvent(q)
    PROVE  WindowInv'
<1>0. /\ DaemonTyped /\ SocketTyped /\ ScreenTyped /\ WindowTyped /\ LinkInv /\ AskedInv /\ ScreenInv
      /\ StartInv /\ SocketInv /\ NoPromptMislaid
  BY WindowParts
<1>1. /\ exec[q] = "event" /\ exec' = [exec EXCEPT ![q] = "read"] /\ event' = [event EXCEPT ![q] = 0]
      /\ IF popup = Nobody
         THEN shown' = Shown(<< << q, event[q] >> >>) /\ UNCHANGED eventQueue
         ELSE eventQueue' = Append(eventQueue, << q, event[q] >>) /\ UNCHANGED shown
      /\ UNCHANGED << run, sent, prompt, asks, matched, served, replying, link, up, down, waiting, hand,
                      inbox, quit, handle, popup, popupQueue, choices, covered >>
  BY DEF AgentEvent, ipcVars, daemonVars, clientVars
<1>2. /\ exec' \in [OwnRuns -> {"no", "begin", "call", "read", "event", "done", "over"}]
      /\ \A r \in OwnRuns : exec'[r] = IF r = q THEN "read" ELSE exec[r]
      /\ event' \in [OwnRuns -> Nat] /\ \A r \in OwnRuns : r # q => event'[r] = event[r]
  BY <1>0, <1>1 DEF ScreenTyped
<1>3. /\ \A r \in OwnRuns : ToShow(r) \in Nat /\ Len(shown[r]) \in Nat /\ Cardinality(Mine(r)) \in Nat
      /\ \A r \in OwnRuns : ToShow(r) = Len(shown[r]) + Cardinality(Mine(r))
      /\ \A r \in OwnRuns : Mine(r) \subseteq 1 .. Len(eventQueue)
      /\ Len(eventQueue) \in Nat
  BY <1>0, MineFacts DEF ToShow
<1>4. PICK k \in Nat : k = ToShow(q) + 1  BY <1>3
<1>5. event[q] = k  BY <1>0, <1>1, <1>4 DEF ScreenInv
<1>6. \A r \in OwnRuns : /\ \A i \in DOMAIN shown[r] : shown[r][i] = i
                         /\ \A i \in Mine(r) : eventQueue[i][2] = Len(shown[r]) + Rank(Mine(r), i)
                         /\ exec[r] = "event" => event[r] = ToShow(r) + 1
  BY <1>0 DEF ScreenInv
<1>7. /\ shown' \in [OwnRuns -> Seq(Nat)] /\ eventQueue' \in Seq(OwnRuns \X Nat)
      /\ popup' = Nobody => eventQueue' = << >>
      /\ \A r \in OwnRuns : /\ \A i \in DOMAIN shown'[r] : shown'[r][i] = i
                            /\ \A i \in Mine(r)' : eventQueue'[i][2] = Len(shown'[r]) + Rank(Mine(r)', i)
                            /\ ToShow(r)' = IF r = q THEN k ELSE ToShow(r)
  <2>1. CASE popup = Nobody
    <3>1. PICK s \in Seq(OwnRuns \X Nat) : s = << << q, k >> >>
      <4>1. << << q, k >> >> \in Seq(OwnRuns \X Nat)  OBVIOUS
      <4> QED  BY <4>1
    <3>2. shown' = Shown(s) /\ eventQueue' = << >> /\ eventQueue = << >>
      BY <1>0, <1>1, <1>5, <2>1, <3>1 DEF ScreenInv
    <3>3. \A r \in OwnRuns : Mine(r) = {} /\ Mine(r)' = {}  BY <3>2 DEF Mine, From
    <3>4. ASSUME NEW r \in OwnRuns PROVE ToShow(r) = Len(shown[r])
      <4>1. Cardinality(Mine(r)) = 0  BY <3>3, FS_EmptySet
      <4>2. ToShow(r) = Len(shown[r]) + 0  BY <1>3, <4>1
      <4> QED  BY <1>3, <4>2
    <3>5. DOMAIN s = {1} /\ s[1][1] = q /\ s[1][2] = k  BY <3>1
    <3>6. From(s, q) = {1} /\ \A r \in OwnRuns : r # q => From(s, r) = {}  BY <3>5 DEF From
    <3>7. ASSUME NEW r \in OwnRuns
          PROVE  /\ Shown(s)[r] \in Seq(Nat)
                 /\ Len(Shown(s)[r]) = IF r = q THEN k ELSE ToShow(r)
                 /\ \A i \in DOMAIN Shown(s)[r] : Shown(s)[r][i] = i
      <4>1. \A i \in From(s, r) : s[i][2] = Len(shown[r]) + Rank(From(s, r), i)
        <5>1. CASE r = q
          <6>1. k = Len(shown[r]) + 1  BY <1>4, <3>4, <5>1
          <6> QED  BY <3>5, <3>6, <5>1, <6>1, RankOne
        <5>2. CASE r # q  BY <3>6, <5>2
        <5> QED  BY <5>1, <5>2
      <4>2. \A i \in DOMAIN shown[r] : shown[r][i] = i  BY <1>6
      <4>3. /\ Shown(s)[r] \in Seq(Nat) /\ Len(Shown(s)[r]) = Len(shown[r]) + Cardinality(From(s, r))
            /\ \A i \in DOMAIN Shown(s)[r] : Shown(s)[r][i] = i
        BY <1>0, <4>1, <4>2, ShownGoesOn
      <4>4. CASE r = q
        <5>1. Cardinality(From(s, r)) = 1  BY <3>6, <4>4, RankOne
        <5> QED  BY <1>4, <3>4, <4>3, <4>4, <5>1
      <4>5. CASE r # q
        <5>1. Cardinality(From(s, r)) = 0  BY <3>6, <4>5, FS_EmptySet
        <5> QED  BY <1>3, <3>4, <4>3, <4>5, <5>1
      <4> QED  BY <4>4, <4>5
    <3>8. shown' \in [OwnRuns -> Seq(Nat)]
      <4>1. shown' = [r \in OwnRuns |-> Shown(s)[r]]  BY <3>2 DEF Shown
      <4> QED  BY <3>7, <4>1
    <3>9. ASSUME NEW r \in OwnRuns PROVE ToShow(r)' = IF r = q THEN k ELSE ToShow(r)
      <4>1. Cardinality(Mine(r)') = 0  BY <3>3, FS_EmptySet
      <4>2. ToShow(r)' = Len(Shown(s)[r]) + 0  BY <3>2, <4>1 DEF ToShow
      <4>3. Len(Shown(s)[r]) \in Nat  BY <1>3, <3>7
      <4> QED  BY <3>7, <4>2, <4>3
    <3>10. eventQueue' \in Seq(OwnRuns \X Nat)  BY <3>2
    <3> QED  BY <3>2, <3>3, <3>7, <3>8, <3>9, <3>10
  <2>2. CASE popup # Nobody
    <3>1. PICK e \in OwnRuns \X Nat : e = << q, k >>  OBVIOUS
    <3>2. shown' = shown /\ eventQueue' = Append(eventQueue, e)  BY <1>1, <1>5, <2>2, <3>1
    <3>3. PICK l \in Nat : l = Len(eventQueue)  BY <1>3
    <3>4. /\ eventQueue' \in Seq(OwnRuns \X Nat) /\ eventQueue'[l + 1] = e
          /\ DOMAIN eventQueue' = DOMAIN eventQueue \cup {l + 1} /\ l + 1 \notin DOMAIN eventQueue
          /\ \A i \in DOMAIN eventQueue : eventQueue'[i] = eventQueue[i]
      BY <1>0, <3>2, <3>3, AppendTo DEF ScreenTyped
    <3>5. Mine(q)' = Mine(q) \cup {l + 1} /\ \A r \in OwnRuns : r # q => Mine(r)' = Mine(r)
      <4>1. e[1] = q  BY <3>1
      <4>2. Mine(q)' = Mine(q) \cup {l + 1}  BY <3>4, <4>1 DEF Mine, From
      <4>3. ASSUME NEW r \in OwnRuns, r # q PROVE Mine(r)' = Mine(r)
        BY <3>4, <4>1, <4>3 DEF Mine, From
      <4> QED  BY <4>2, <4>3
    <3>6. PICK m \in Nat : m = l + 1  OBVIOUS
    <3>7. /\ Cardinality(Mine(q) \cup {m}) = Cardinality(Mine(q)) + 1
          /\ Rank(Mine(q) \cup {m}, m) = Cardinality(Mine(q)) + 1
          /\ \A i \in Mine(q) : Rank(Mine(q) \cup {m}, i) = Rank(Mine(q), i)
      <4>1. Mine(q) \in SUBSET (1 .. l)  BY <1>3, <3>3
      <4> HIDE DEF Mine
      <4>2. /\ Cardinality(Mine(q) \cup {l + 1}) = Cardinality(Mine(q)) + 1
            /\ Rank(Mine(q) \cup {l + 1}, l + 1) = Cardinality(Mine(q)) + 1
            /\ \A i \in Mine(q) : Rank(Mine(q) \cup {l + 1}, i) = Rank(Mine(q), i)
        BY <4>1, RankNext
      <4> QED  BY <3>6, <4>2
    <3>8. ToShow(q)' = k
      <4>1. ToShow(q)' = Len(shown[q]) + (Cardinality(Mine(q)) + 1)  BY <3>2, <3>5, <3>6, <3>7 DEF ToShow
      <4> QED  BY <1>3, <1>4, <4>1
    <3>9. \A r \in OwnRuns : r # q => ToShow(r)' = ToShow(r)  BY <3>2, <3>5 DEF ToShow
    <3>10. \A i \in Mine(q)' : eventQueue'[i][2] = Len(shown'[q]) + Rank(Mine(q)', i)
      <4>1. ASSUME NEW i \in Mine(q)
            PROVE  eventQueue'[i][2] = Len(shown'[q]) + Rank(Mine(q) \cup {m}, i)
        <5>1. i \in DOMAIN eventQueue  BY DEF Mine, From
        <5>2. eventQueue'[i][2] = Len(shown[q]) + Rank(Mine(q), i)
          <6>1. eventQueue[i][2] = Len(shown[q]) + Rank(Mine(q), i)  BY <1>6
          <6> QED  BY <3>4, <5>1, <6>1
        <5>3. Rank(Mine(q) \cup {m}, i) = Rank(Mine(q), i)  BY <3>7
        <5> QED  BY <3>2, <5>2, <5>3
      <4>2. eventQueue'[m][2] = Len(shown'[q]) + Rank(Mine(q) \cup {m}, m)
        <5>1. eventQueue'[m][2] = k  BY <3>1, <3>4, <3>6
        <5>2. Len(shown[q]) + (Cardinality(Mine(q)) + 1) = k  BY <1>3, <1>4
        <5> QED  BY <3>2, <3>7, <5>1, <5>2
      <4> QED  BY <3>5, <3>6, <4>1, <4>2
    <3>11. ASSUME NEW r \in OwnRuns, r # q, NEW i \in Mine(r)'
           PROVE  eventQueue'[i][2] = Len(shown'[r]) + Rank(Mine(r)', i)
      <4>1. i \in Mine(r) /\ i \in DOMAIN eventQueue  BY <3>5, <3>11 DEF Mine, From
      <4> QED  BY <1>6, <3>2, <3>4, <3>5, <3>11, <4>1
    <3> QED  BY <1>0, <1>1, <1>6, <2>2, <3>2, <3>4, <3>8, <3>9, <3>10, <3>11 DEF ScreenTyped
  <2> QED  BY <2>1, <2>2
<1>8. ScreenTyped'  BY <1>0, <1>1, <1>2, <1>7 DEF ScreenTyped
<1>9. \A r \in OwnRuns : Fetched(r)' = Fetched(r)
  <2>1. Fetched(q)' = Fetched(q)  BY <1>1, <1>2, <1>4, <1>7 DEF Fetched
  <2>2. \A r \in OwnRuns : r # q => Fetched(r)' = Fetched(r)  BY <1>2, <1>7 DEF Fetched
  <2> QED  BY <2>1, <2>2
<1>10. ScreenInv'
  <2>1. \A r \in OwnRuns : exec'[r] = "event" => event'[r] = ToShow(r)' + 1
    BY <1>2, <1>6, <1>7
  <2> QED  BY <1>7, <2>1 DEF ScreenInv
<1>11. DaemonTyped' /\ SocketTyped'  BY <1>0, <1>1 DEF DaemonTyped, SocketTyped
<1>12. LinkInv' /\ AskedInv'  BY <1>0, <1>1 DEF LinkInv, AskedInv, Unsettled
<1>13. NoPromptMislaid'  BY <1>0, <1>1 DEF NoPromptMislaid, Unsettled
<1>14. StartInv'
  <2> SUFFICES ASSUME NEW r \in OwnRuns
               PROVE  /\ exec'[r] \in Unbegun =>
                            /\ run'[r] = "new" /\ sent'[r] = 0 /\ inbox'[r] = << >> /\ ToShow(r)' = 0
                            /\ r \notin waiting' /\ \A i \in DOMAIN up' : up'[i] # << "run", r >>
                      /\ r \in waiting' => exec'[r] \in {"read", "event"}
    BY DEF StartInv
  <2>1. exec'[r] \in Unbegun => r # q /\ exec[r] \in Unbegun  BY <1>2 DEF Unbegun
  <2> QED  BY <1>0, <1>1, <1>2, <1>7, <2>1 DEF StartInv
<1>15. SocketInv'
  <2>1. \A r \in OwnRuns : exec'[r] \in {"read", "event"} <=> exec[r] \in {"read", "event"}
    BY <1>1, <1>2
  <2>2. \A r \in OwnRuns : Silent(r)  BY <1>1 DEF Silent
  <2>3. SocketStep  BY <1>1, <2>1, <2>2 DEF SocketStep
  <2> QED  BY <1>0, <1>9, <2>3, SocketKept
<1> QED  BY <1>8, <1>10, <1>11, <1>12, <1>13, <1>14, <1>15 DEF WindowInv, WindowTyped

LEMMA CloseKept ==
    ASSUME WindowInv, CloseWindow
    PROVE  WindowInv'
<1>0. DaemonTyped /\ SocketTyped /\ AskedInv  BY WindowParts
<1>1. /\ UNCHANGED << run, sent, prompt, asks, matched, served, replying, up >>
      /\ quit' = TRUE /\ down' = << >> /\ hand' = Nobody /\ waiting' = {} /\ link' = "off"
      /\ inbox' = [r \in OwnRuns |-> << >>]
      /\ exec' = [r \in OwnRuns |-> "over"] /\ event' = [r \in OwnRuns |-> 0] /\ handle' = Nobody
      /\ popup' = Nobody /\ popupQueue' = << >> /\ eventQueue' = << >> /\ choices' = {}
      /\ shown' = [r \in OwnRuns |-> << >>]
  BY DEF CloseWindow, CloseClient, daemonVars
<1>2. DaemonTyped' /\ AskedInv'  BY <1>0, <1>1 DEF DaemonTyped, AskedInv, Unsettled
<1>3. SocketTyped'  BY <1>0, <1>1 DEF SocketTyped
<1>4. ScreenTyped'  BY <1>1 DEF ScreenTyped
<1>5. LinkInv' /\ NoPromptMislaid'  BY <1>1 DEF LinkInv, NoPromptMislaid
<1>6. ScreenInv'  BY <1>1 DEF ScreenInv, Mine, From
<1>7. StartInv'  BY <1>1 DEF StartInv, Unbegun
<1>8. SocketInv'  BY <1>1 DEF SocketInv
<1> QED  BY <1>2, <1>3, <1>4, <1>5, <1>6, <1>7, <1>8 DEF WindowInv, WindowTyped

LEMMA WindowBegins ==
    ASSUME WindowInit
    PROVE  WindowInv
<1>1. /\ run = [r \in Runs |-> IF r \in Resumed THEN "on" ELSE "new"]
      /\ sent = [r \in Runs |-> 0] /\ prompt = [p \in Prompts |-> "new"]
      /\ asks = {} /\ matched = Nobody /\ served = "open" /\ replying = {}
      /\ link = "up" /\ up = << >> /\ down = << >> /\ waiting = {} /\ hand = Nobody
      /\ inbox = [r \in OwnRuns |-> << >>] /\ quit = FALSE
      /\ exec = [r \in OwnRuns |-> "no"] /\ event = [r \in OwnRuns |-> 0] /\ handle = Nobody
      /\ popup = Nobody /\ popupQueue = << >> /\ eventQueue = << >> /\ choices = {}
      /\ shown = [r \in OwnRuns |-> << >>]
  BY DEF WindowInit, IpcInit
<1>2. DaemonTyped  BY <1>1 DEF DaemonTyped
<1>3. SocketTyped
  <2>1. up \in Seq(UpFrames) /\ down \in Seq(DownFrames)  BY <1>1
  <2>2. inbox \in [OwnRuns -> Seq(DownFrames)]  BY <1>1
  <2>3. hand \in Prompts \cup {Nobody, "lost", "back"} /\ waiting \subseteq OwnRuns  BY <1>1
  <2> QED  BY <1>1, <2>1, <2>2, <2>3 DEF SocketTyped
<1>4. ScreenTyped  BY <1>1 DEF ScreenTyped
<1>5. LinkInv /\ NoPromptMislaid  BY <1>1 DEF LinkInv, NoPromptMislaid
<1>6. Unsettled = {}  BY <1>1 DEF Unsettled
<1>7. AskedInv  BY <1>1, <1>6 DEF AskedInv
<1>8. ScreenInv  BY <1>1 DEF ScreenInv, Mine, From
<1>9. \A r \in OwnRuns : ToShow(r) = 0
  <2>1. ASSUME NEW r \in OwnRuns PROVE ToShow(r) = 0
    <3>1. Mine(r) = {} /\ shown[r] = << >>  BY <1>1 DEF Mine, From
    <3>2. Cardinality(Mine(r)) = 0 /\ Len(shown[r]) = 0  BY <3>1, FS_EmptySet
    <3> QED  BY <3>2 DEF ToShow
  <2> QED  BY <2>1
<1>10. StartInv
  <2>1. \A r \in OwnRuns : run[r] = "new" /\ sent[r] = 0  BY <1>1, IpcAssumption DEF Runs
  <2>2. \A r \in OwnRuns : r \notin waiting /\ inbox[r] = << >>  BY <1>1
  <2>3. DOMAIN up = {}  BY <1>1
  <2> QED  BY <1>9, <2>1, <2>2, <2>3 DEF StartInv
<1>11. SocketInv  BY <1>1 DEF SocketInv
<1> QED  BY <1>2, <1>3, <1>4, <1>5, <1>7, <1>8, <1>10, <1>11 DEF WindowInv, WindowTyped

(* Every step of the window, the socket and the daemon keeps the invariant. *)
LEMMA WindowStepKept ==
    ASSUME WindowInv, WindowNext
    PROVE  WindowInv'
<1>1. ASSUME NEW r \in OwnRuns, RunExec(r) PROVE WindowInv'
  BY <1>1, AgentExecKept, CallRunKept, NextFrameKept, AgentEventKept DEF RunExec
<1> QED
  BY <1>1, DaemonStepKept, KeysKept, CloseKept, ChildKept, PendingKept, DaemonStateKept, LoginKept
  DEF WindowNext

LEMMA WindowStutters ==
    ASSUME WindowInv, UNCHANGED windowVars
    PROVE  WindowInv'
<1>1. UNCHANGED << run, sent, prompt, asks, matched, served, replying, link, up, down, waiting, hand,
                   inbox, quit, exec, event, handle, popup, popupQueue, eventQueue, shown, choices, covered >>
  BY DEF windowVars, ipcVars, daemonVars, clientVars, execVars, tuiVars, popupVars
<1>2. ScreenTyped /\ ScreenInv /\ SocketTyped  BY WindowParts
<1>3. Screens  BY <1>1, <1>2 DEF Screens, ScreenInv
<1> QED  BY <1>1, <1>2, <1>3, PopupKept DEF ScreenTyped

LEMMA WindowInvMeans ==
    ASSUME WindowInv
    PROVE  NothingMislaid
<1>1. ScreenTyped /\ ScreenInv /\ NoPromptMislaid  BY WindowParts
<1>2. ASSUME NEW r \in OwnRuns PROVE shown[r] = [i \in 1..Len(shown[r]) |-> i]
  <2>1. PICK s \in Seq(Nat) : s = shown[r]  BY <1>1 DEF ScreenTyped
  <2>2. \A i \in DOMAIN s : s[i] = i  BY <1>1, <2>1 DEF ScreenInv
  <2>3. s = [i \in 1..Len(s) |-> i]  BY <2>2
  <2> QED  BY <2>1, <2>3
<1> QED  BY <1>1, <1>2 DEF NothingMislaid, EventsInOrder

(* In every state of the window everything has its type, and a prompt the   *)
(* daemon waits for is before the user or on its way, in either direction   *)
(* (client.go, session.go, popup.go).                                       *)
THEOREM WindowHolds == WindowSpec => []WindowInv
<1>1. WindowInit => WindowInv  BY WindowBegins
<1>2. WindowInv /\ [WindowNext]_windowVars => WindowInv'  BY WindowStepKept, WindowStutters
<1> QED  BY <1>1, <1>2, PTL DEF WindowSpec

(* No prompt that the daemon waits for is lost between the two processes,   *)
(* and the events of a run are shown in their order, each once, whatever    *)
(* popups open and close (update.go, popup.go, client.go).                  *)
THEOREM WindowMislaysNothing == WindowSpec => []NothingMislaid
<1>1. WindowInv => NothingMislaid  BY WindowInvMeans
<1> QED  BY <1>1, WindowHolds, PTL
=============================================================================
