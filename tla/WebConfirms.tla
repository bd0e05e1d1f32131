---------------------------- MODULE WebConfirms -----------------------------
(***************************************************************************)
(* Confirmations in the browser: the loop that picks the prompts of web    *)
(* sessions (StartWebConfirm), the pages that follow a session's events    *)
(* (StreamMultiLog) and the answers that come back (ResolveToolConfirm).   *)
(*                                                                         *)
(* One session.  A confirmation is its id; whether its prompt can be       *)
(* answered with a password is left out, and so are the replay of the log, *)
(* the daemon's log channel, the heartbeat and the events that pages hide. *)
(* The end of a run (EventDone) is the other event a page sees.            *)
(***************************************************************************)
EXTENDS Integers, FiniteSets, SequencesExt

CONSTANTS
    Confirms,  \* confirmations a run asks for
    Pages,     \* pages that follow the session
    Queue,     \* events a page's subscription holds
    Merged,    \* events its connection holds
    MaxDone,   \* bound: runs that end
    MaxVisits  \* bound: connections of a page

VARIABLES
    entry,   \* per confirmation: new, queued, claimed, answered or gone
    expired, \* those whose context has ended
    woken,   \* the loop's wake-up token
    emitter, \* where the loop is, and the confirmation it holds
    outstanding, \* confirmations handed out and not resolved
    page,    \* per page: its connection
    events,  \* events published so far
    unseen   \* ghost: per page, confirmations published while it connected,
             \* and those whose card it has taken away

webVars == << entry, expired, woken, emitter, outstanding, page, events, unseen >>

Off == [pc |-> "off", since |-> 0, queue |-> << >>, merged |-> << >>,
        got |-> {}, lost |-> {}, told |-> {}, ended |-> 0,
        cards |-> {}, post |-> << >>, visits |-> 0]
Resting == [pc |-> "rest", id |-> << >>]
Done == "done"

(* The run may need some of the confirmations; some pages take part.       *)
WebInit(needed, opened, visits) ==
    /\ entry = [c \in Confirms |-> IF c \in needed THEN "new" ELSE "gone"]
    /\ expired = {}
    /\ woken = FALSE
    /\ emitter = Resting
    /\ outstanding = {}
    /\ page = [p \in Pages |-> [Off EXCEPT !.visits = IF p \in opened THEN MaxVisits - visits
                                              ELSE MaxVisits]]
    /\ events = << >>
    /\ unseen = [p \in Pages |-> {}]

-----------------------------------------------------------------------------
(* The registry's side. *)

Ask(c) ==
    /\ entry[c] = "new"
    /\ entry' = [entry EXCEPT ![c] = "queued"]
    /\ woken' = TRUE
    /\ UNCHANGED << expired, emitter, outstanding, page, events, unseen >>

(* Its time runs out, or its run is canceled... *)
Expire(c) ==
    /\ entry[c] \in {"queued", "claimed", "answered"}
    /\ c \notin expired
    /\ expired' = expired \cup {c}
    /\ UNCHANGED << entry, woken, emitter, outstanding, page, events, unseen >>

(* ... Ask returns, with the first reply or without one. *)
AskReturns(c) ==
    /\ entry[c] = "answered" \/ (entry[c] \in {"queued", "claimed"} /\ c \in expired)
    /\ entry' = [entry EXCEPT ![c] = "gone"]
    /\ UNCHANGED << expired, woken, emitter, outstanding, page, events, unseen >>

EntryExists(c) == entry[c] \in {"queued", "claimed", "answered"}
Resolved(c) == [entry EXCEPT ![c] = IF @ \in {"queued", "claimed"} THEN "answered" ELSE @]

-----------------------------------------------------------------------------
(* The loop. *)

(* emitWebConfirms goes on while there is one to pick, then waits. *)
Pick(c) ==
    /\ emitter.pc = "rest" /\ woken
    /\ entry[c] = "queued" /\ c \notin expired
    /\ entry' = [entry EXCEPT ![c] = "claimed"]
    /\ emitter' = [pc |-> "picked", id |-> << c >>]
    /\ UNCHANGED << expired, woken, outstanding, page, events, unseen >>

Rest ==
    /\ emitter.pc = "rest" /\ woken
    /\ \A c \in Confirms : entry[c] # "queued" \/ c \in expired
    /\ woken' = FALSE
    /\ UNCHANGED << entry, expired, emitter, outstanding, page, events, unseen >>

(* What has expired since is resolved with an error. *)
EmitExpired ==
    /\ emitter.pc = "picked" /\ emitter.id[1] \in expired
    /\ entry' = Resolved(emitter.id[1])
    /\ emitter' = Resting
    /\ UNCHANGED << expired, woken, outstanding, page, events, unseen >>

(* What has no room at a page is lost, and counted there.                  *)
LostQuietly(box, n) == box \* Variant for mutation checks: the loss is not counted.
Lost(box, n) == [box EXCEPT !.lost = @ \cup {n}]

(* An event goes to every page that has subscribed.                        *)
Send(box, n) ==
    IF box.pc # "live" THEN box
    ELSE IF Len(box.queue) < Queue THEN [box EXCEPT !.queue = Append(@, n)]
    ELSE Lost(box, n)
Pub(e) ==
    /\ events' = Append(events, e)
    /\ page' = [p \in Pages |-> Send(page[p], Len(events'))]

(* A confirmation is tracked first ... *)
TrackConfirm ==
    /\ emitter.pc = "picked" /\ emitter.id[1] \notin expired
    /\ outstanding' = outstanding \cup {emitter.id[1]}
    /\ emitter' = [emitter EXCEPT !.pc = "tracked"]
    /\ UNCHANGED << entry, expired, woken, page, events, unseen >>

(* ... and published then, which a page between its look at the            *)
(* outstanding ones and its subscription misses.                           *)
Emit ==
    /\ emitter.pc = "tracked"
    /\ Pub(emitter.id[1])
    /\ unseen' = [p \in Pages |-> unseen[p] \cup
                    {c \in {emitter.id[1]} : page[p].pc = "joins"}]
    /\ emitter' = Resting
    /\ UNCHANGED << entry, expired, woken, outstanding >>

(* A run of the session ends. *)
RunEnds ==
    /\ Cardinality({i \in DOMAIN events : events[i] = Done}) < MaxDone
    /\ Pub(Done)
    /\ UNCHANGED << entry, expired, woken, emitter, outstanding, unseen >>

-----------------------------------------------------------------------------
(* The page and its connection. *)

(* A new connection starts with the outstanding confirmations whose prompt *)
(* still waits; the others are forgotten here.                             *)
OutstandingConfirms == {c \in outstanding : EntryExists(c)}
Connect(p) ==
    /\ page[p].pc = "off" /\ page[p].visits < MaxVisits
    /\ outstanding' = OutstandingConfirms
    /\ page' = [page EXCEPT ![p] =
            [Off EXCEPT !.pc = "joins", !.cards = page[p].cards \cup OutstandingConfirms,
                        !.post = page[p].post, !.visits = page[p].visits + 1]]
    /\ unseen' = [unseen EXCEPT ![p] = {}]
    /\ UNCHANGED << entry, expired, woken, emitter, events >>

Subscribe(p) ==
    /\ page[p].pc = "joins"
    /\ page' = [page EXCEPT ![p].pc = "live", ![p].since = Len(events)]
    /\ UNCHANGED << entry, expired, woken, emitter, outstanding, events, unseen >>

(* What its goroutine holds stays behind when the connection ends. *)
Disconnect(p) ==
    /\ page[p].pc = "live"
    /\ page' = [page EXCEPT ![p] = [Off EXCEPT !.cards = page[p].cards,
                                    !.post = page[p].post, !.visits = page[p].visits]]
    /\ UNCHANGED << entry, expired, woken, emitter, outstanding, events, unseen >>

(* The subscription's goroutine carries an event to the connection, and    *)
(* gives it up when there is no room for 250 ms.                           *)
FanIn(p) ==
    /\ page[p].pc = "live" /\ page[p].queue # << >>
    /\ LET n == Head(page[p].queue)
           box == [page[p] EXCEPT !.queue = Tail(@)]
       IN page' = [page EXCEPT ![p] =
            IF Len(box.merged) < Merged THEN [box EXCEPT !.merged = Append(@, n)]
            ELSE Lost(box, n)]
    /\ UNCHANGED << entry, expired, woken, emitter, outstanding, events, unseen >>

(* The page shows a confirmation once; with the end of a run it is told    *)
(* how many events it has lost.                                            *)
Shown(box, n) ==
    IF events[n] = Done
    THEN [box EXCEPT !.told = @ \cup box.lost, !.lost = {}, !.ended = n, !.got = @ \cup {n}]
    ELSE [box EXCEPT !.cards = @ \cup {events[n]}, !.got = @ \cup {n}]
Write(p) ==
    /\ page[p].pc = "live" /\ page[p].merged # << >>
    /\ LET box == [page[p] EXCEPT !.merged = Tail(@)]
       IN page' = [page EXCEPT ![p] = Shown(box, Head(page[p].merged))]
    /\ UNCHANGED << entry, expired, woken, emitter, outstanding, events, unseen >>

(* The page takes a card away when the answer arrived, and also when it    *)
(* could not tell: no reply, or one that says the prompt is gone.          *)
CardGone(p, c) ==
    /\ page' = [page EXCEPT ![p].cards = @ \ {c}, ![p].post = << >>]
    /\ unseen' = [unseen EXCEPT ![p] = @ \cup {c}]

(* The user answers a card: the prompt is looked up ...                    *)
PostConfirm(p, c) ==
    /\ page[p].post = << >> /\ c \in page[p].cards
    /\ EntryExists(c)
    /\ page' = [page EXCEPT ![p].post = << c, "looked" >>]
    /\ UNCHANGED << entry, expired, woken, emitter, outstanding, events, unseen >>
PostFails(p, c) ==
    /\ page[p].post = << >> /\ c \in page[p].cards
    /\ CardGone(p, c)
    /\ UNCHANGED << entry, expired, woken, emitter, outstanding, events >>

(* ... a password that is not accepted leaves the card where it is ...     *)
PasswordRejected(p) ==
    /\ page[p].post # << >> /\ page[p].post[2] = "looked"
    /\ page' = [page EXCEPT ![p].post = << >>]
    /\ UNCHANGED << entry, expired, woken, emitter, outstanding, events, unseen >>

(* ... the confirmation is no longer outstanding ...                       *)
Untrack(p) ==
    /\ page[p].post # << >> /\ page[p].post[2] = "looked"
    /\ outstanding' = outstanding \ {page[p].post[1]}
    /\ page' = [page EXCEPT ![p].post[2] = "untracked"]
    /\ UNCHANGED << entry, expired, woken, emitter, events, unseen >>

(* ... and the first reply of the prompt is this one, or another's.        *)
ResolveToolConfirm(p) ==
    /\ page[p].post # << >> /\ page[p].post[2] = "untracked"
    /\ entry' = Resolved(page[p].post[1])
    /\ CardGone(p, page[p].post[1])
    /\ UNCHANGED << expired, woken, emitter, outstanding, events >>

WebNext ==
    \/ \E c \in Confirms : Ask(c) \/ Expire(c) \/ AskReturns(c) \/ Pick(c)
    \/ Rest \/ EmitExpired \/ TrackConfirm \/ Emit \/ RunEnds
    \/ \E p \in Pages :
        \/ Connect(p) \/ Subscribe(p) \/ Disconnect(p) \/ FanIn(p) \/ Write(p)
        \/ PasswordRejected(p) \/ Untrack(p) \/ ResolveToolConfirm(p)
        \/ \E c \in Confirms : PostConfirm(p, c) \/ PostFails(p, c)

WebSpec(needed, opened, visits) ==
    WebInit(needed, opened, visits) /\ [][WebNext]_webVars

-----------------------------------------------------------------------------
Numbers(box) == Range(box.queue) \cup Range(box.merged) \cup box.lost \cup box.told
Posted(c) == \E p \in Pages : page[p].post # << >> /\ page[p].post[1] = c

(* A confirmation that waits for its answer is before the user on every    *)
(* page that follows the session, or on its way there: a page that connects*)
(* later gets it from the outstanding ones.  It does not hold for what was *)
(* published between that look and the page's subscription, for what the   *)
(* connection had no room for, and for a card the page has taken away.     *)
ConfirmsShown ==
    \A c \in Confirms, p \in Pages :
        (entry[c] = "claimed" /\ emitter.id # << c >> /\ ~ Posted(c) /\ page[p].pc = "live") =>
            c \in page[p].cards \cup unseen[p] \cup {events[n] : n \in Numbers(page[p])}

(* When a page has seen a run end, it has got every event that was         *)
(* published before since it follows the session, or was told of its loss. *)
TruncationTold ==
    \A p \in Pages : page[p].pc = "live" =>
        page[p].since + 1 .. page[p].ended \subseteq page[p].got \cup page[p].told
=============================================================================
