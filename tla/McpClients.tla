------------------------------- MODULE McpClients -------------------------------
(***************************************************************************)
(* The MCP manager (internal/runtime/mcp/mcp.go, poll.go): the client of a  *)
(* configured server in `clients` under `mu`, the tools it has put into the *)
(* shared registry (tools/register) and the signature `toolsSum` that the   *)
(* poll compares.  Calls and the poll renew a client whose session is lost; *)
(* a list_changed notification refreshes the tools; the TUI, the web page   *)
(* and a finished login reconnect or remove it.                             *)
(*                                                                         *)
(* The module is about one server name: servers share no state but `mu`.    *)
(* It starts when New has run.  Left out: lastError and the instructions,   *)
(* which nothing here reads.  A timeout and a session the server gave up    *)
(* are one fault; the answer to a listing and the comparison of its         *)
(* signature are one step.                                                  *)
(***************************************************************************)
EXTENDS Naturals, FiniteSets

CONSTANTS
    Poller,      \* the goroutine of Watch
    Callers,     \* calls of the server's tools, one goroutine each
    Notes,       \* goroutines started by ToolListChangedHandler
    Users,       \* a reconnect, a removal or a Reconnect of all, one each
    Clients,     \* client objects
    Tools,
    Catalogs,    \* what the server may list, in the course of time
    MaxFaults,   \* sessions that are lost
    None

Gs == {Poller} \cup Callers \cup Notes \cup Users

ASSUME McpAssumption ==
    /\ Catalogs \subseteq SUBSET Tools
    /\ MaxFaults \in Nat
    /\ Clients # {}
    /\ None \notin Gs \cup Clients \cup Catalogs

VARIABLES
    configured,  \* mcp.json has the server
    catalog,     \* what the server lists now
    faults,      \* sessions lost so far
    noted,       \* a list_changed notification is on its way
    sess,        \* the session of each client object
    client,      \* m.clients[name]
    sum,         \* m.toolsSum[name]: the list itself stands for its hash
    defs,        \* how often each tool of the prefix is in defList
    lock,        \* who holds m.mu between two steps
    renewing,    \* who holds m.reconnectMu
    asked,       \* what each user asked for
    pc,          \* where each goroutine is
    held,        \* the client it has in hand
    got,         \* the list it has in hand
    todo,        \* the tools it has yet to register
    crossed      \* history: two operations that replace the client overlapped, or
                 \* another list was registered between a Reconnect's connecting and
                 \* its RegisterAll

envVars == <<configured, catalog, faults, noted>>
mgrVars == <<client, sum, lock, renewing>>
locals == <<held, got, todo>>
vars == <<envVars, mgrVars, sess, defs, asked, pc, locals, crossed>>

PCs == {"idle", "call", "listed", "mutex", "load", "drop",
        "prune", "dial", "set", "pick", "list", "install", "regist", "wipe", "pruneAll",
        "loadAll", "dialAll", "listAll", "done"}

\* From the decision to replace the client until the new one is in its place.
Replacing == {"load", "drop", "prune", "dial", "set", "wipe", "pruneAll", "loadAll", "dialAll"}
Replacers == {g \in Gs : pc[g] \in Replacing}

TypeOK ==
    /\ configured \in BOOLEAN /\ catalog \in Catalogs /\ faults \in 0..MaxFaults /\ noted \in BOOLEAN
    /\ sess \in [Clients -> {"open", "lost", "closed"}]
    /\ client \in Clients \cup {None}
    /\ sum \in Catalogs \cup {None}
    /\ defs \in [Tools -> Nat]
    /\ lock \in Gs \cup {None} /\ renewing \in Gs \cup {None}
    /\ asked \in [Users -> {"nothing", "reconnect", "remove", "all"}]
    /\ pc \in [Gs -> PCs]
    /\ held \in [Gs -> Clients \cup {None}]
    /\ got \in [Gs -> Catalogs \cup {None}]
    /\ todo \in [Gs -> SUBSET Tools]
    /\ crossed \in BOOLEAN

Registered == {t \in Tools : defs[t] > 0}

\* NewMCP has run: the server is connected and its tools are registered.
Init ==
    /\ configured = TRUE /\ faults = 0 /\ noted = FALSE
    /\ catalog \in Catalogs
    /\ client = CHOOSE c \in Clients : TRUE
    /\ sess = [c \in Clients |-> IF c = client THEN "open" ELSE "closed"]
    /\ sum = catalog
    /\ defs = [t \in Tools |-> IF t \in catalog THEN 1 ELSE 0]
    /\ lock = None /\ renewing = None
    /\ asked = [g \in Users |-> "nothing"] /\ pc = [g \in Gs |-> "idle"]
    /\ held = [g \in Gs |-> None] /\ got = [g \in Gs |-> None] /\ todo = [g \in Gs |-> {}]
    /\ crossed = FALSE

Go(g, from, to) == pc[g] = from /\ pc' = [pc EXCEPT ![g] = to]

\* An operation is over.  Users make one; the others go round.
Over(g) ==
    /\ pc' = [pc EXCEPT ![g] = IF g \in Users THEN "done" ELSE "idle"]
    /\ held' = [held EXCEPT ![g] = None]
    /\ got' = [got EXCEPT ![g] = None]
Cross(g) == crossed' = (crossed \/ Replacers \ {g} # {})
\* g registers a list while a Reconnect has yet to register its own.
Intrude(g) == crossed' = (crossed \/ \E u \in Users \ {g} : pc[u] = "listAll")

Removes(g) == g \in Users /\ asked[g] = "remove"

\* A client object nobody refers to any more stands for the next new one.
Fresh == {c \in Clients : sess[c] = "closed" /\ c # client /\ \A g \in Gs : held[g] # c}
NewClient == CHOOSE c \in Fresh : TRUE

-----------------------------------------------------------------------------
(* The server's side.                                                       *)

\* The catalogue changes; the sdk's handler is called on an open session.
ServerChanges ==
    /\ \E s \in Catalogs \ {catalog} : catalog' = s
    /\ faults < MaxFaults /\ faults' = faults + 1
    /\ noted' = (noted \/ \E c \in Clients : sess[c] = "open")
    /\ UNCHANGED <<configured, mgrVars, sess, defs, asked, pc, locals, crossed>>

\* The process ends, the session expires, or an answer does not come in time.
ServerLosesSession ==
    /\ faults < MaxFaults /\ faults' = faults + 1
    /\ \E c \in Clients : sess[c] = "open" /\ sess' = [sess EXCEPT ![c] = "lost"]
    /\ UNCHANGED <<configured, catalog, noted, mgrVars, defs, asked, pc, locals, crossed>>

-----------------------------------------------------------------------------
(* The operations start.                                                    *)

Ask(g, k, to) ==
    /\ g \in Users
    /\ Go(g, "idle", to)
    /\ asked' = [asked EXCEPT ![g] = k]
    /\ Cross(g)

\* poll and Call look the client up under the lock; without one they do nothing.
Lookup(g, to) ==
    /\ lock = None /\ client # None
    /\ Go(g, "idle", to)
    /\ held' = [held EXCEPT ![g] = client]
    /\ UNCHANGED <<envVars, mgrVars, sess, defs, asked, got, todo, crossed>>

Poll == Lookup(Poller, "listed")
Call(g) == g \in Callers /\ Lookup(g, "call")

Notified(g) ==
    /\ g \in Notes
    /\ noted /\ noted' = FALSE
    /\ Go(g, "idle", "pick")
    /\ UNCHANGED <<configured, catalog, faults, mgrVars, sess, defs, asked, locals, crossed>>

ReconnectServer(g) ==
    /\ Ask(g, "reconnect", "load")
    /\ UNCHANGED <<envVars, mgrVars, sess, defs, locals>>

Reconnect(g) ==
    /\ Ask(g, "all", "wipe")
    /\ UNCHANGED <<envVars, mgrVars, sess, defs, locals>>

\* runMcpRemove saves the configuration before it disconnects.
Remove(g) ==
    /\ configured /\ configured' = FALSE
    /\ Ask(g, "remove", "drop")
    /\ UNCHANGED <<catalog, faults, noted, mgrVars, sess, defs, locals>>

-----------------------------------------------------------------------------
(* Call, and renewClient for it and for the poll.                           *)

\* An answer, a tool error, or an error of the session: the sdk reports a lost
\* session, a timeout and an error answer of the server alike.
CallReturns(g) ==
    /\ pc[g] = "call"
    /\ \/ Over(g)                                        \* also if its context ended
       \/ Go(g, "call", "mutex") /\ UNCHANGED <<held, got>>
    /\ UNCHANGED <<envVars, mgrVars, sess, defs, asked, todo, crossed>>

\* An operation is over; a renewal gives its mutex back.  The client renewClient
\* returns, and the call made again with it, change nothing here.
Ended(g) ==
    /\ Over(g)
    /\ renewing' = IF renewing = g THEN None ELSE renewing

\* Variant for mutation checks: the poll renews a lost session and leaves a
\* change of the list to the notifications.
ListedForLoss ==
    /\ pc[Poller] = "listed" /\ lock = None
    /\ IF sess[held[Poller]] # "open"
       THEN Go(Poller, "listed", "mutex") /\ UNCHANGED <<held, got>>
       ELSE Over(Poller)
    /\ UNCHANGED <<envVars, mgrVars, sess, defs, asked, todo, crossed>>

\* The poll's list is new, as before, or fails like a call.
Listed ==
    /\ pc[Poller] = "listed" /\ lock = None
    /\ IF sess[held[Poller]] # "open"
       THEN Go(Poller, "listed", "mutex") /\ UNCHANGED <<held, got>>
       ELSE IF sum = catalog THEN Over(Poller)
            ELSE Go(Poller, "listed", "pick") /\ UNCHANGED <<held, got>>
    /\ UNCHANGED <<envVars, mgrVars, sess, defs, asked, todo, crossed>>

\* Variant for mutation checks: the client is replaced whoever has renewed it.
RenewAlways(g) ==
    /\ renewing = None /\ lock = None
    /\ Go(g, "mutex", "load") /\ Cross(g) /\ renewing' = g
    /\ UNCHANGED <<envVars, client, sum, lock, sess, defs, asked, locals>>

\* renewClient: another goroutine has renewed the client already, or this one
\* has to, with reconnectMu held until it has.
RenewClient(g) ==
    /\ renewing = None /\ lock = None
    /\ pc[g] = "mutex"
    /\ IF client \notin {None, held[g]}
       THEN Over(g) /\ UNCHANGED <<renewing, crossed>>
       ELSE /\ Go(g, "mutex", "load") /\ Cross(g) /\ renewing' = g
            /\ UNCHANGED <<held, got>>
    /\ UNCHANGED <<envVars, client, sum, lock, sess, defs, asked, todo>>

-----------------------------------------------------------------------------
(* ReconnectServer and Disconnect.                                          *)

\* Variant for mutation checks: the configuration is not looked at again.
LoadAlways(g) ==
    /\ Go(g, "load", "drop")
    /\ UNCHANGED <<envVars, mgrVars, sess, defs, asked, locals, crossed>>

Load(g) ==
    /\ pc[g] = "load"
    /\ IF configured THEN Go(g, "load", "drop") /\ UNCHANGED <<renewing, held, got>> ELSE Ended(g)
    /\ UNCHANGED <<envVars, client, sum, lock, sess, defs, asked, todo, crossed>>

Closed(c) == [d \in Clients |-> IF d = c THEN "closed" ELSE sess[d]]

Disconnect(g) ==
    /\ Go(g, "drop", "prune")
    /\ lock = None
    /\ sess' = Closed(client)
    /\ client' = None /\ sum' = None
    /\ UNCHANGED <<envVars, lock, renewing, defs, asked, locals, crossed>>

NoTools == [t \in Tools |-> 0]

\* RemoveByPrefix, after the lock is released.
Prune(g) ==
    /\ pc[g] = "prune"
    /\ IF Removes(g) THEN Over(g) ELSE Go(g, "prune", "dial") /\ UNCHANGED <<held, got>>
    /\ defs' = NoTools
    /\ UNCHANGED <<envVars, mgrVars, sess, asked, todo, crossed>>

\* newClient connects a session, or fails.
Dial(g) ==
    /\ pc[g] = "dial"
    /\ \/ /\ Ended(g)
          /\ UNCHANGED sess
       \/ /\ Fresh # {}
          /\ Go(g, "dial", "set")
          /\ sess' = [sess EXCEPT ![NewClient] = "open"]
          /\ held' = [held EXCEPT ![g] = NewClient]
          /\ UNCHANGED <<renewing, got>>
    /\ UNCHANGED <<envVars, client, sum, lock, defs, asked, todo, crossed>>

SetClient(g) ==
    /\ Go(g, "set", "pick")
    /\ lock = None
    /\ client' = held[g]
    /\ UNCHANGED <<envVars, sum, lock, renewing, sess, defs, asked, locals, crossed>>

-----------------------------------------------------------------------------
(* refresh.                                                                 *)

Pick(g) ==
    /\ pc[g] = "pick" /\ lock = None
    /\ IF client = None THEN Ended(g)
       ELSE Go(g, "pick", "list") /\ held' = [held EXCEPT ![g] = client] /\ UNCHANGED <<got, renewing>>
    /\ UNCHANGED <<envVars, client, sum, lock, sess, defs, asked, todo, crossed>>

List(g) ==
    /\ pc[g] = "list"
    /\ IF sess[held[g]] = "open"
       THEN Go(g, "list", "install") /\ got' = [got EXCEPT ![g] = catalog]
            /\ UNCHANGED <<held, renewing>>
       ELSE Ended(g)
    /\ UNCHANGED <<envVars, client, sum, lock, sess, defs, asked, todo, crossed>>

\* Variant for mutation checks: the list of a client that is gone is installed.
InstallAnyway(g) ==
    /\ Go(g, "install", "regist") /\ lock = None
    /\ lock' = g /\ defs' = NoTools /\ todo' = [todo EXCEPT ![g] = got[g]]
    /\ UNCHANGED <<envVars, client, sum, renewing, sess, asked, held, got, crossed>>

\* Under the lock: still the same client, RemoveByPrefix ...
Install(g) ==
    /\ pc[g] = "install" /\ lock = None
    /\ IF client # held[g]
       THEN Ended(g) /\ UNCHANGED <<lock, defs, todo, crossed>>
       ELSE /\ Go(g, "install", "regist")
            /\ lock' = g /\ defs' = NoTools /\ todo' = [todo EXCEPT ![g] = got[g]]
            /\ Intrude(g)
            /\ UNCHANGED <<held, got, renewing>>
    /\ UNCHANGED <<envVars, client, sum, sess, asked>>

\* ... and Regist for one tool after the other, each appended to defList.
Regist(g) ==
    /\ pc[g] = "regist"
    /\ \E t \in todo[g] :
          /\ defs' = [defs EXCEPT ![t] = @ + 1]
          /\ todo' = [todo EXCEPT ![g] = @ \ {t}]
    /\ UNCHANGED <<envVars, mgrVars, sess, asked, pc, held, got, crossed>>

Signed(g) ==
    /\ pc[g] = "regist" /\ todo[g] = {}
    /\ sum' = got[g] /\ lock' = None
    /\ Ended(g)
    /\ UNCHANGED <<envVars, client, sess, defs, asked, todo, crossed>>

-----------------------------------------------------------------------------
(* Reconnect of all, with RegisterAll.                                      *)

Wipe(g) ==
    /\ Go(g, "wipe", "pruneAll") /\ lock = None
    /\ sess' = Closed(client) /\ client' = None /\ sum' = None
    /\ UNCHANGED <<envVars, lock, renewing, defs, asked, locals, crossed>>

PruneAll(g) ==
    /\ Go(g, "pruneAll", "loadAll")
    /\ defs' = NoTools
    /\ UNCHANGED <<envVars, mgrVars, sess, asked, locals, crossed>>

\* The lock is held while each configured server is connected.
LoadAll(g) ==
    /\ lock = None
    /\ IF configured THEN Go(g, "loadAll", "dialAll") /\ lock' = g
       ELSE Go(g, "loadAll", "listAll") /\ UNCHANGED lock
    /\ UNCHANGED <<envVars, client, sum, renewing, sess, defs, asked, locals, crossed>>

DialAll(g) ==
    /\ Go(g, "dialAll", "listAll")
    /\ lock' = None
    /\ \/ UNCHANGED <<sess, client>>
       \/ Fresh # {} /\ sess' = [sess EXCEPT ![NewClient] = "open"] /\ client' = NewClient
    /\ UNCHANGED <<envVars, sum, renewing, defs, asked, locals, crossed>>

\* RegisterAll lists under the lock; nothing is removed before Regist.
ListAll(g) ==
    /\ pc[g] = "listAll" /\ lock = None
    /\ IF client = None \/ \E c \in Clients : c = client /\ sess[c] # "open"
       THEN Over(g) /\ UNCHANGED <<lock, todo, crossed>>
       ELSE /\ Go(g, "listAll", "regist") /\ Intrude(g)
            /\ lock' = g /\ UNCHANGED held
            /\ got' = [got EXCEPT ![g] = catalog] /\ todo' = [todo EXCEPT ![g] = catalog]
    /\ UNCHANGED <<envVars, client, sum, renewing, sess, defs, asked>>

-----------------------------------------------------------------------------

Replace(g) == Load(g) \/ Disconnect(g) \/ Prune(g) \/ Dial(g) \/ SetClient(g)
Refresh(g) == Pick(g) \/ List(g) \/ Install(g) \/ Regist(g) \/ Signed(g)
ReplaceAll(g) == Wipe(g) \/ PruneAll(g) \/ LoadAll(g) \/ DialAll(g) \/ ListAll(g)
Step(g) ==
    \/ CallReturns(g) \/ RenewClient(g) \/ Replace(g) \/ Refresh(g) \/ ReplaceAll(g)

Next ==
    \/ ServerChanges \/ ServerLosesSession
    \/ Poll \/ Listed
    \/ \E g \in Gs : Call(g) \/ Notified(g) \/ ReconnectServer(g) \/ Reconnect(g) \/ Remove(g) \/ Step(g)

Spec == Init /\ [][Next]_vars

\* The ticker goes on, and so does every goroutine that has work.
Fairness ==
    /\ WF_vars(Poll) /\ WF_vars(Listed)
    /\ \A g \in Gs : WF_vars(Step(g))

FairSpec == Spec /\ Fairness

-----------------------------------------------------------------------------
(* Properties.                                                              *)

\* The registry and what the manager knows of it agree whenever nobody is at
\* work on them (RemoveByPrefix and the lock's sections are not one step), as
\* long as no two operations replaced the client at once.
Changing == \E g \in Gs : pc[g] \in {"prune", "pruneAll", "regist"}
RegistryMatches ==
    ~crossed /\ ~Changing =>
        Registered = IF client # None /\ sum # None THEN sum ELSE {}

\* Every session that is open is the manager's or about to be: none is
\* forgotten unclosed, as long as no two replacements overlapped.
NoneForgotten ==
    ~crossed => \A c \in Clients :
        sess[c] # "closed" => c = client \/ \E g \in Gs : pc[g] = "set" /\ held[g] = c

\* A server removed by the user stays away: once its removal has run, no poll,
\* call or notification that was under way brings client or tools back.
RemovedStaysGone ==
    ~crossed /\ (\E g \in Gs : Removes(g) /\ pc[g] = "done") =>
        client = None /\ (~Changing => Registered = {})

\* A renewal replaces the session it failed on and no other: callers that fail
\* together reconnect once.
RenewsItsOwn ==
    [][\A g \in Gs : (renewing = g /\ pc[g] = "drop" /\ pc'[g] = "prune" /\ ~crossed)
                        => client \in {None, held[g]}]_vars

\* The server's present list gets registered, by a notification or a poll,
\* unless the connection is given up or two replacements overlapped.
CatalogFollowed == []<>(Registered = catalog \/ client = None \/ crossed)
=============================================================================
