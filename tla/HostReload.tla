------------------------------ MODULE HostReload ------------------------------
(***************************************************************************)
(* What the two processes make of config.json.  Each keeps a registry of   *)
(* agents with the summary model (and, in the daemon, the dispatcher)      *)
(* chosen from it, and each watches the file.  The registry is read anew   *)
(* by agents.Reload, called by the edit that saved the file and by the     *)
(* watcher of each process.  A reload reads the list of models, builds the *)
(* agents, reads the file again for the routing and puts the three in      *)
(* place together.  Two reloads of one process may overlap.                *)
(*                                                                         *)
(* The watcher drops an event that comes within 200 ms of the start of its *)
(* last reload; such an event is not looked at again.  (Time is left out:  *)
(* any event after a first reload may come that soon.)  The daemon's       *)
(* watcher goes on to reload the bots after the registry; it handles one   *)
(* event at a time.                                                        *)
(*                                                                         *)
(* Every model can be built here: a model whose credentials are missing is *)
(* left out of the registry the way an unlisted one is.  A save raises one *)
(* event.                                                                  *)
(***************************************************************************)
EXTENDS ConfigFile

Processes == {"tui", "daemon"}

ASSUME HostAssumption == Writers \intersect Processes = {}

ProcessOf(w) == IF w = Tui THEN "tui" ELSE "daemon"

(* Whoever may be inside agents.Reload: the edits and the two watchers.    *)
Reloaders == Writers \union Processes

Home(r) == IF r \in Processes THEN r ELSE ProcessOf(r)

VARIABLES host,        \* per process: [models, dispatcher, summary]
          reload,      \* per reloader: how far it is, the list it has read
          events,      \* per process: events of the file not yet seen
          woken,       \* per process: its watcher has reloaded before
          dropped,     \* per process: an event was dropped, no reload began since
          crossed      \* per process: a reload began while another ran

hostVars == <<host, reload, events, woken, dropped, crossed>>

(* Variant for mutation checks: the name is not looked up.                 *)
SelectNamed(list, c) == IF c.dispatcher # None THEN c.dispatcher ELSE First(list)

(* The routing chosen from a registry: a name that is not in it falls back *)
(* to the first model for the dispatcher, to none for the summary.         *)
SelectDispatcher(list, c) ==
    IF c.dispatcher \in ToSet(list) THEN c.dispatcher ELSE First(list)

SelectSummary(list, c) ==
    IF c.summary \in ToSet(list) THEN c.summary ELSE None

(* The TUI keeps no dispatcher.                                            *)
Hosted(p, list, c) ==
    [models |-> ToSet(list),
     dispatcher |-> IF p = "tui" THEN None ELSE SelectDispatcher(list, c),
     summary |-> SelectSummary(list, c)]

Idle == [step |-> "idle", list |-> <<>>]

Due == [step |-> "due", list |-> <<>>]

HostInit ==
    /\ host = [p \in Processes |-> Hosted(p, config.models, config)]
    /\ reload = [r \in Reloaders |-> Idle]
    /\ events = [p \in Processes |-> 0]
    /\ woken = [p \in Processes |-> FALSE]
    /\ dropped = [p \in Processes |-> FALSE]
    /\ crossed = [p \in Processes |-> FALSE]

Running(p) == {r \in Reloaders : Home(r) = p /\ reload[r].step = "built"}

(* A save wakes both watchers; the edit of a model reloads its process.    *)
Saved(w) ==
    /\ Save(w)
    /\ reload' = [reload EXCEPT ![w] = IF held[w].reload THEN Due ELSE @]
    /\ events' = [p \in Processes |-> events[p] + 1]
    /\ UNCHANGED <<host, woken, dropped, crossed>>

(* NewAgentRegistry: the list as it is now.                                *)
ReadList(r) ==
    LET p == Home(r)
    IN /\ reload[r].step = "due"
       /\ reload' = [reload EXCEPT ![r] = [step |-> "built", list |-> config.models]]
       /\ crossed' = [crossed EXCEPT ![p] = Running(p) # {}]
       /\ dropped' = [dropped EXCEPT ![p] = FALSE]
       /\ UNCHANGED <<host, events, woken>>

(* The agents are built; the routing is read and the three are set under   *)
(* the mutex.                                                              *)
Install(r) ==
    /\ reload[r].step = "built"
    /\ host' = [host EXCEPT ![Home(r)] = Hosted(Home(r), reload[r].list, config)]
    /\ reload' = [reload EXCEPT ![r] = Idle]
    /\ UNCHANGED <<events, woken, dropped, crossed>>

(* The watcher takes an event when it is done with the one before, and     *)
(* begins a reload, or drops the event: some 200 ms have not passed since  *)
(* its last reload.                                                        *)
Watch(p, busy) ==
    /\ events[p] > 0
    /\ reload[p] = Idle /\ ~busy
    /\ events' = [events EXCEPT ![p] = @ - 1]
    /\ reload' = [reload EXCEPT ![p] = [step |-> "built", list |-> config.models]]
    /\ crossed' = [crossed EXCEPT ![p] = Running(p) # {}]
    /\ dropped' = [dropped EXCEPT ![p] = FALSE]
    /\ woken' = [woken EXCEPT ![p] = TRUE]
    /\ UNCHANGED host

Drop(p, busy) ==
    /\ events[p] > 0
    /\ reload[p] = Idle /\ ~busy
    /\ woken[p]
    /\ events' = [events EXCEPT ![p] = @ - 1]
    /\ dropped' = [dropped EXCEPT ![p] = TRUE]
    /\ UNCHANGED <<host, reload, crossed, woken>>

-----------------------------------------------------------------------------
(* A process serves a consistent set: its dispatcher is one of its agents, *)
(* if it has any, and so is its summary model, whatever reloads overlap    *)
(* (host.go sets the three together, agentRegistry.go looks the names up). *)
ServedTogether ==
    \A p \in Processes :
        /\ host[p].summary \in OrNone(host[p].models)
        /\ p = "daemon" => IF host[p].models = {} THEN host[p].dispatcher = None
                           ELSE host[p].dispatcher \in host[p].models

(* A process serves the models on file once it has seen every save: only   *)
(* an event dropped by the 200 ms window, or two reloads of the process    *)
(* that overlapped, may leave it with an older list (watchConfig.go,       *)
(* host.go).                                                               *)
ServedCurrent ==
    \A p \in Processes :
        \/ events[p] > 0 \/ dropped[p] \/ crossed[p]
        \/ \E r \in Reloaders : Home(r) = p /\ reload[r] # Idle
        \/ host[p].models = Listed(config)
=============================================================================
