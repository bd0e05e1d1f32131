---------------------------- MODULE PendingRegistry ----------------------------
(***************************************************************************)
(* The registry of user prompts of internal/runtime/pending.go: the map    *)
(* `entries` under `mu`, the calls that fill it (Ask, AskUser), the calls   *)
(* that empty it (Resolve, DropTask, the deferred delete of Ask) and the    *)
(* wake-up tokens of the listeners.  The listeners of the three windows     *)
(* (chat, web, TUI) are modelled in the modules that EXTEND this one: they  *)
(* claim an entry with Claim and answer it with Resolved.                   *)
(***************************************************************************)
EXTENDS Naturals, Sequences, FiniteSets

CONSTANTS
    Reqs,        \* the requests of one run: each is one Ask or AskUser call
    Async,       \* the requests made with AskUser (a callback, no waiter)
    Expiring,    \* the requests of Ask whose context may end
    Tasks,       \* task hashes
    TaskOf,      \* the task that made the request
    Resumed,     \* the tasks a resume may take over (DropTask)
    Listeners,   \* the goroutines that registered a notify channel
    Hears        \* the listeners whose prefix matches the request's Origin

ASSUME RegistryAssumption ==
    /\ Async \subseteq Reqs
    /\ Expiring \subseteq Reqs \ Async     \* AskUser's context never ends
    /\ TaskOf \in [Reqs -> Tasks]
    /\ Resumed \subseteq Tasks
    /\ Hears \in [Reqs -> SUBSET Listeners]

VARIABLES
    asker,       \* where the calling goroutine of each request is
    entry,       \* presence in `entries`, and the `claimed` flag
    stamp,       \* EnqueueAt
    clock,       \* time.Now()
    ctxDone,     \* requests whose context has ended
    replyCh,     \* the buffered channel of capacity one of each entry
    outcome,     \* what the caller received: Ask's result, onResolve's calls
    registered,  \* listeners in the listener list
    notify       \* listeners whose notify channel holds its one token

regVars == <<asker, entry, stamp, clock, ctxDone, replyCh, outcome,
             registered, notify>>

Nothing == "nothing"
Replies == {"answer", "error"}      \* the replies the properties tell apart
Results == Replies \cup {"ctx"}     \* Ask may also return ctx.Err()

RegTypeOK ==
    /\ asker \in [Reqs -> {"idle", "stamped", "entered", "waiting", "returned"}]
    /\ entry \in [Reqs -> {"absent", "queued", "claimed"}]
    /\ stamp \in [Reqs -> Nat]
    /\ clock \in Nat
    /\ ctxDone \subseteq Expiring
    /\ replyCh \in [Reqs -> Replies \cup {Nothing}]
    /\ outcome \in [Reqs -> Seq(Results)]
    /\ registered \subseteq Listeners
    /\ notify \subseteq Listeners

\* `registered` and the tokens are set by the listener that is composed with it.
RegInit ==
    /\ asker = [r \in Reqs |-> "idle"]
    /\ entry = [r \in Reqs |-> "absent"]
    /\ stamp = [r \in Reqs |-> 0]
    /\ clock = 0
    /\ ctxDone = {}
    /\ replyCh = [r \in Reqs |-> Nothing]
    /\ outcome = [r \in Reqs |-> <<>>]
    /\ registered = {}
    /\ notify = {}

-----------------------------------------------------------------------------
(* Ask and AskUser.  EnqueueAt is read before the lock is taken, the entry  *)
(* is inserted under it and the listeners are signalled after it.           *)

Stamp(r) ==
    /\ asker[r] = "idle"
    /\ asker' = [asker EXCEPT ![r] = "stamped"]
    /\ stamp' = [stamp EXCEPT ![r] = clock]
    /\ clock' = clock + 1
    /\ UNCHANGED <<entry, ctxDone, replyCh, outcome, registered, notify>>

Insert(r) ==
    /\ asker[r] = "stamped"
    /\ asker' = [asker EXCEPT ![r] = "entered"]
    /\ entry' = [entry EXCEPT ![r] = "queued"]
    /\ UNCHANGED <<stamp, clock, ctxDone, replyCh, outcome, registered, notify>>

\* Variant for mutation checks: the new entry is not signalled.
SignalNobody(r) ==
    /\ asker[r] = "entered"
    /\ asker' = [asker EXCEPT ![r] = IF r \in Async THEN "returned" ELSE "waiting"]
    /\ UNCHANGED <<entry, stamp, clock, ctxDone, replyCh, outcome, registered, notify>>

\* signalFor: a non-blocking send, so a token that is there absorbs the new one.
Signal(r) ==
    /\ asker[r] = "entered"
    /\ asker' = [asker EXCEPT ![r] = IF r \in Async THEN "returned" ELSE "waiting"]
    /\ notify' = notify \cup (registered \cap Hears[r])
    /\ UNCHANGED <<entry, stamp, clock, ctxDone, replyCh, outcome, registered>>

\* CONFIRM_TIMEOUT passes, or the run that asked is cancelled.
EndContext(r) ==
    /\ r \in Expiring \ ctxDone
    /\ asker[r] \in {"stamped", "entered", "waiting"}
    /\ ctxDone' = ctxDone \cup {r}
    /\ UNCHANGED <<asker, entry, stamp, clock, replyCh, outcome, registered, notify>>

\* Ask's select, either case when both are ready, and the deferred delete.
\* The delete signals nobody.
Return(r) ==
    /\ asker[r] = "waiting"
    /\ \/ /\ replyCh[r] # Nothing
          /\ outcome' = [outcome EXCEPT ![r] = Append(@, replyCh[r])]
       \/ /\ r \in ctxDone
          /\ outcome' = [outcome EXCEPT ![r] = Append(@, "ctx")]
    /\ asker' = [asker EXCEPT ![r] = "returned"]
    /\ entry' = [entry EXCEPT ![r] = "absent"]
    /\ UNCHANGED <<stamp, clock, ctxDone, replyCh, registered, notify>>

\* A resume takes the task over: its entries go, a waiter of Ask is not told.
DropTask(t) ==
    /\ t \in Resumed
    /\ \E r \in Reqs : TaskOf[r] = t /\ entry[r] # "absent"
    /\ entry' = [r \in Reqs |-> IF TaskOf[r] = t THEN "absent" ELSE entry[r]]
    /\ UNCHANGED <<asker, stamp, clock, ctxDone, replyCh, outcome, registered, notify>>

-----------------------------------------------------------------------------
(* What the listeners call.  Each is the registry's part of an action of a  *)
(* listener, which adds the listener's own variables.                        *)

\* The entries PickNextMatch considers for listener l, `accept` included.
Pickable(l, Accepted) ==
    {r \in Accepted : entry[r] = "queued" /\ l \in Hears[r] /\ r \notin ctxDone}

IsOldest(r, S) == r \in S /\ \A s \in S : stamp[r] <= stamp[s]

Claimed(r) ==
    /\ entry' = [entry EXCEPT ![r] = "claimed"]
    /\ UNCHANGED <<asker, stamp, clock, ctxDone, replyCh, outcome, registered, notify>>

\* Resolve(id, v): an async entry goes and its callback runs, a sync one keeps
\* the first reply in its channel until Ask takes it; an absent one is ignored.
Resolved(r, v) ==
    /\ entry' = IF r \in Async THEN [entry EXCEPT ![r] = "absent"] ELSE entry
    /\ outcome' = IF r \in Async /\ entry[r] # "absent"
                  THEN [outcome EXCEPT ![r] = Append(@, v)] ELSE outcome
    /\ replyCh' = IF r \notin Async /\ entry[r] # "absent" /\ replyCh[r] = Nothing
                  THEN [replyCh EXCEPT ![r] = v] ELSE replyCh
    /\ UNCHANGED <<asker, stamp, clock, ctxDone, registered, notify>>

\* RegisterListener puts one token in, so that what is queued already is seen.
Registered(l) ==
    /\ registered' = registered \cup {l}
    /\ notify' = notify \cup {l}
    /\ UNCHANGED <<asker, entry, stamp, clock, ctxDone, replyCh, outcome>>

Unregistered(l) ==
    /\ registered' = registered \ {l}
    /\ notify' = notify \ {l}          \* the channel is gone with the listener
    /\ UNCHANGED <<asker, entry, stamp, clock, ctxDone, replyCh, outcome>>

TakeToken(l) ==
    /\ l \in notify
    /\ notify' = notify \ {l}
    /\ UNCHANGED <<asker, entry, stamp, clock, ctxDone, replyCh, outcome, registered>>

-----------------------------------------------------------------------------
\* The steps of the callers and of the passing time.
AskerStep ==
    \/ \E r \in Reqs : Stamp(r) \/ Insert(r) \/ Signal(r) \/ EndContext(r) \/ Return(r)
    \/ \E t \in Tasks : DropTask(t)

\* Still owed an answer: in the map, nothing decided, the caller still there.
Owed(r) ==
    /\ entry[r] # "absent"
    /\ replyCh[r] = Nothing
    /\ r \notin ctxDone
=============================================================================
