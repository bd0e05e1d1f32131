------------------------------- MODULE TuiWindow -------------------------------
(***************************************************************************)
(* The terminal window (internal/runtime/tui): TUI.Update takes one message *)
(* at a time from the goroutines that send: the client's reader, runExec,   *)
(* a login, the commands a popup leaves behind, and the keyboard.  Each     *)
(* goroutine waits in program.Send until its message is taken, so its own   *)
(* messages keep their order and those of two goroutines do not.            *)
(*                                                                         *)
(* While a popup is open, prompts and events are queued, and what ends a    *)
(* run, hands over its cancel or carries a choice is not taken at all.      *)
(*                                                                         *)
(* "menu" stands for the pages of a command up to the choice that logs in   *)
(* to an MCP server; cancel and pause differ only in the task's file, which *)
(* PendingTask has.  A `!` command goes the way of a run.  Ctrl+C twice is    *)
(* Close.  Which answers a prompt gets, its text, and the other commands of  *)
(* the window are left out.                                                 *)
(***************************************************************************)
EXTENDS Ipc, SequencesExt, Sublists

CONSTANTS
    Questions,   \* how many answers a prompt takes: its questions; two for a confirmation
                 \* that is refused with a reason or needs the password
    MaxCancels,  \* times the user asks to cancel
    MaxMenus,    \* pages the user opens
    MaxPastes    \* redirect URLs the user pastes

Pages == {"confirm", "menu", "login", "paste"}

ASSUME WindowAssumption ==
    /\ Pages \cap Prompts = {} /\ Nobody \notin Pages
    /\ Questions \in [Prompts -> Nat \ {0}]
    /\ MaxCancels \in Nat /\ MaxMenus \in Nat /\ MaxPastes \in Nat

VARIABLES
    \* runExec, a goroutine of its own per run
    exec,        \* no, begin, call, read, event, done, over
    hashes,      \* runs whose task hash has come
    pending,     \* pendingCancel
    event,       \* the event it is sending
    \* the model of the TUI
    busy, handle, emitted, connecting,
    popup,       \* None, a prompt, "confirm", "menu", "login" or "paste"
    question,    \* questionIdx of the prompt on the screen
    popupQueue,
    eventQueue,  \* <<run, number>>
    choices,     \* popupChild messages on the way: "stop", "login", "paste"
    login,       \* mcp.Login: off, on, or done and sending McpOAuthDone
    asked,       \* cancels, pages and pastes so far
    \* history
    shown,       \* the events of each run as they were shown
    endMissed,   \* agentExecDone came while a popup was open
    covered      \* prompts a finished login took off the screen or left in the queue

execVars == <<exec, hashes, pending, event>>
tuiVars == <<busy, handle, emitted, connecting>>
popupVars == <<popup, question, popupQueue, eventQueue, shown>>
windowVars == <<ipcVars, execVars, tuiVars, popupVars, choices, login, asked, endMissed, covered>>

WindowInit ==
    /\ IpcInit
    /\ exec = [r \in OwnRuns |-> "no"] /\ hashes = {} /\ pending = {}
    /\ event = [r \in OwnRuns |-> 0]
    /\ busy = FALSE /\ handle = Nobody /\ emitted = FALSE /\ connecting = FALSE
    /\ popup = Nobody /\ question = 0 /\ popupQueue = <<>> /\ eventQueue = <<>>
    /\ choices = {} /\ login = "off"
    /\ asked = [cancels |-> 0, menus |-> 0, pastes |-> 0]
    /\ shown = [r \in OwnRuns |-> <<>>] /\ endMissed = FALSE /\ covered = {}

-------------------------------------------------------------------------------
(* Update: what a popup's opening and closing bring with them. *)

\* handleAgentEvent for the events in q, in turn.
Shown(q) ==
    [r \in OwnRuns |->
        LET mine == Pick(q, { i \in DOMAIN q : q[i][1] = r })
        IN shown[r] \o [k \in DOMAIN mine |-> mine[k][2]]]
Output(q) == \E i \in DOMAIN q : q[i][2] > 1

\* The popup becomes p; when the last one closes, the queued events are shown.
Becomes(p) ==
    /\ popup' = p /\ question' = 0
    /\ IF popup # Nobody /\ p = Nobody
       THEN shown' = Shown(eventQueue) /\ emitted' = (emitted \/ Output(eventQueue)) /\ eventQueue' = <<>>
       ELSE UNCHANGED <<shown, emitted, eventQueue>>

\* Variant for mutation checks: a closed popup takes the queue with it.
ClosePopupAll ==
    /\ popupQueue' = <<>>
    /\ Becomes(IF popupQueue = <<>> THEN Nobody ELSE Head(popupQueue))

\* closePopup: the next prompt in the queue opens at once.
ClosePopup ==
    /\ popupQueue' = IF popupQueue = <<>> THEN <<>> ELSE Tail(popupQueue)
    /\ Becomes(IF popupQueue = <<>> THEN Nobody ELSE Head(popupQueue))

-------------------------------------------------------------------------------
(* The keyboard. *)

\* The closure of agentExec: until the task hash is known the wish is kept.
Cancel(r) ==
    IF r \in hashes
    THEN Send(<<"cancel", r>>) /\ UNCHANGED pending
    ELSE pending' = pending \cup {r} /\ UNCHANGED <<up, down>>

\* Enter on a message: the run starts in the background.
Submit(r) ==
    /\ ~quit /\ popup = Nobody /\ ~busy /\ ~connecting
    /\ run[r] = "new" /\ exec[r] = "no"
    /\ busy' = TRUE
    /\ exec' = [exec EXCEPT ![r] = "begin"]
    /\ UNCHANGED <<ipcVars, hashes, pending, event, handle, emitted, connecting, popupVars, choices, login, asked, endMissed, covered>>

\* Esc or ctrl+c while a run goes on: at once before it has shown anything, and after a
\* question otherwise; ctrl+c never asks.
Interrupt ==
    /\ ~quit /\ popup = Nobody /\ busy /\ handle # Nobody
    /\ asked.cancels < MaxCancels
    /\ asked' = [asked EXCEPT !.cancels = @ + 1]
    /\ \/ /\ Cancel(handle)
          /\ UNCHANGED popupVars
       \/ /\ emitted
          /\ Becomes("confirm")
          /\ UNCHANGED <<up, down, pending, popupQueue>>
    /\ UNCHANGED <<daemonVars, restarts, link, clientVars, quit, exec, hashes, event,
                   busy, handle, emitted, connecting, choices, login, endMissed, covered>>

\* A command opens its page.
OpenMenu ==
    /\ ~quit /\ popup = Nobody /\ ~busy /\ asked.menus < MaxMenus
    /\ asked' = [asked EXCEPT !.menus = @ + 1]
    /\ Becomes("menu")
    /\ UNCHANGED <<ipcVars, execVars, busy, handle, connecting, popupQueue, choices, login, endMissed, covered>>

\* advanceOrResolve: the next question of the prompt, in the same popup; "No" asks for a
\* reason there, and "Yes" on a restricted call for the password.
Advance ==
    /\ ~quit /\ popup \in Prompts /\ question + 1 < Questions[popup]
    /\ question' = question + 1
    /\ UNCHANGED <<ipcVars, execVars, tuiVars, popup, popupQueue, eventQueue, shown,
                   choices, login, asked, endMissed, covered>>

\* The last answer: resolvePending, then closePopup.
Answer ==
    /\ ~quit /\ popup \in Prompts /\ question + 1 = Questions[popup]
    /\ Send(<<"reply", popup, TRUE>>)
    /\ ClosePopup
    /\ UNCHANGED <<daemonVars, restarts, link, clientVars, quit, execVars, busy, handle,
                   connecting, choices, login, asked, endMissed, covered>>

\* Esc, or "Abort task".
Abort ==
    /\ ~quit /\ popup \in Prompts
    /\ Send(<<"reply", popup, FALSE>>)
    /\ ClosePopup
    /\ UNCHANGED <<daemonVars, restarts, link, clientVars, quit, execVars, busy, handle,
                   connecting, choices, login, asked, endMissed, covered>>

\* Enter on a page: closePopup, and the choice comes as a message of its own.
Choose ==
    /\ ~quit
    /\ \/ popup = "confirm" /\ choices' = choices \cup {"stop"} /\ UNCHANGED asked
       \/ popup = "menu" /\ choices' = choices \cup {"login"} /\ UNCHANGED asked
       \/ /\ popup = "paste" /\ asked.pastes < MaxPastes
          /\ choices' = choices \cup {"paste"} /\ asked' = [asked EXCEPT !.pastes = @ + 1]
    /\ ClosePopup
    /\ UNCHANGED <<ipcVars, execVars, busy, handle, connecting, login, endMissed, covered>>

\* Esc on a page, or "No".
Dismiss ==
    /\ ~quit /\ popup \in {"confirm", "menu", "paste"}
    /\ ClosePopup
    /\ UNCHANGED <<ipcVars, execVars, busy, handle, connecting, choices, login, asked, endMissed, covered>>

\* p on the login popup: openMcpOAuthPaste puts its own popup in its place.
OpenPaste ==
    /\ ~quit /\ popup = "login"
    /\ Becomes("paste")
    /\ UNCHANGED <<ipcVars, execVars, busy, handle, connecting, popupQueue, choices, login, asked, endMissed, covered>>

-------------------------------------------------------------------------------
(* Messages of popups that have closed: taken only when none is open. *)

Taken(c) ==
    CASE c = "stop" ->
           /\ IF handle # Nobody THEN Cancel(handle) ELSE UNCHANGED <<up, down, pending>>
           /\ UNCHANGED <<popupVars, emitted, login>>
      [] c = "login" ->
           IF login = "off"
           THEN login' = "on" /\ Becomes("login") /\ UNCHANGED <<up, down, pending, popupQueue>>
           ELSE UNCHANGED <<up, down, pending, popupVars, emitted, login>>
      [] c = "paste" ->
           Becomes("login") /\ UNCHANGED <<up, down, pending, popupQueue, login>>

\* Update drops a popupChild while another popup is open: a prompt that had waited.
Child ==
    /\ ~quit
    /\ \E c \in choices :
          /\ choices' = choices \ {c}
          /\ IF popup = Nobody THEN Taken(c)
             ELSE UNCHANGED <<up, down, pending, popupVars, emitted, login>>
    /\ UNCHANGED <<daemonVars, restarts, link, clientVars, quit, exec, hashes, event,
                   busy, handle, connecting, asked, endMissed, covered>>

-------------------------------------------------------------------------------
(* The reader's messages. *)

\* Variant for mutation checks: like most messages, it is dropped while a popup is open.
PendingDropped ==
    /\ ~quit /\ hand \in Prompts
    /\ hand' = Nobody
    /\ IF popup = Nobody THEN Becomes(hand) ELSE UNCHANGED <<popup, question, eventQueue, shown, emitted>>
    /\ UNCHANGED <<daemonVars, restarts, link, up, down, waiting, inbox, quit, execVars,
                   busy, handle, connecting, popupQueue, choices, login, asked, endMissed, covered>>

\* Pending: shown, or queued behind the popup that is open.
PendingMsg ==
    /\ ~quit /\ hand \in Prompts
    /\ hand' = Nobody
    /\ IF popup = Nobody
       THEN Becomes(hand) /\ UNCHANGED popupQueue
       ELSE popupQueue' = Append(popupQueue, hand) /\ UNCHANGED <<popup, question, eventQueue, shown, emitted>>
    /\ UNCHANGED <<daemonVars, restarts, link, up, down, waiting, inbox, quit, execVars,
                   busy, handle, connecting, choices, login, asked, endMissed, covered>>

\* daemonState, popup or not.
DaemonState ==
    /\ ~quit /\ hand \in {"lost", "back"}
    /\ hand' = Nobody
    /\ connecting' = (hand = "lost")
    /\ UNCHANGED <<daemonVars, restarts, link, up, down, waiting, inbox, quit, execVars,
                   busy, handle, emitted, popupVars, choices, login, asked, endMissed, covered>>

-------------------------------------------------------------------------------
(* runExec and its messages. *)

\* agentExec hands over the closure that cancels.
AgentExec(r) ==
    /\ ~quit /\ exec[r] = "begin"
    /\ exec' = [exec EXCEPT ![r] = "call"]
    /\ IF popup = Nobody
       THEN handle' = r /\ emitted' = FALSE
       ELSE UNCHANGED <<handle, emitted>>
    /\ UNCHANGED <<ipcVars, hashes, pending, event, busy, connecting, popupVars, choices, login, asked, endMissed, covered>>

\* client.Run.
CallRun(r) ==
    /\ ~quit /\ exec[r] = "call"
    /\ Send(<<"run", r>>)
    /\ IF CanSend
       THEN /\ exec' = [exec EXCEPT ![r] = "read"]
            /\ waiting' = waiting \cup {r}
            /\ run' = [run EXCEPT ![r] = "sent"]
       ELSE /\ exec' = [exec EXCEPT ![r] = "done"]
            /\ run' = [run EXCEPT ![r] = "over"]
            /\ UNCHANGED waiting
    /\ UNCHANGED <<sent, stop, prompt, asks, owns, matched, served, replying, restarts, link, hand, inbox, quit,
                   hashes, pending, event, tuiVars, popupVars, choices, login, asked, endMissed, covered>>

\* The next frame of the run's channel; the first task hash lets a kept cancel go.
NextFrame(r) ==
    /\ ~quit /\ exec[r] = "read" /\ inbox[r] # <<>>
    /\ inbox' = [inbox EXCEPT ![r] = Tail(@)]
    /\ IF Head(inbox[r])[1] = "done"
       THEN exec' = [exec EXCEPT ![r] = "done"] /\ UNCHANGED <<up, down, hashes, event>>
       ELSE /\ exec' = [exec EXCEPT ![r] = "event"]
            /\ event' = [event EXCEPT ![r] = Head(inbox[r])[3]]
            /\ hashes' = hashes \cup {r}
            /\ IF r \in pending \ hashes THEN Send(<<"cancel", r>>) ELSE UNCHANGED <<up, down>>
    /\ UNCHANGED <<daemonVars, restarts, link, waiting, hand, quit, pending, tuiVars, popupVars,
                   choices, login, asked, endMissed, covered>>

\* agentEvent: shown, or queued while a popup is open.
AgentEvent(r) ==
    /\ ~quit /\ exec[r] = "event"
    /\ exec' = [exec EXCEPT ![r] = "read"]
    /\ event' = [event EXCEPT ![r] = 0]
    /\ IF popup = Nobody
       THEN /\ shown' = Shown(<<<<r, event[r]>>>>)
            /\ emitted' = (emitted \/ event[r] > 1)
            /\ UNCHANGED eventQueue
       ELSE eventQueue' = Append(eventQueue, <<r, event[r]>>) /\ UNCHANGED <<shown, emitted>>
    /\ UNCHANGED <<ipcVars, hashes, pending, busy, handle, connecting, popup, question, popupQueue,
                   choices, login, asked, endMissed, covered>>

\* agentExecDone: the window is idle again; with a popup open the message is not taken.
AgentExecDone(r) ==
    /\ ~quit /\ exec[r] = "done"
    /\ exec' = [exec EXCEPT ![r] = "over"]
    /\ IF popup = Nobody
       THEN busy' = FALSE /\ handle' = Nobody /\ UNCHANGED endMissed
       ELSE endMissed' = TRUE /\ UNCHANGED <<busy, handle>>
    /\ UNCHANGED <<ipcVars, hashes, pending, event, emitted, connecting, popupVars, choices, login, asked, covered>>

-------------------------------------------------------------------------------
(* The login's goroutine. *)

\* mcp.Login returns: authorized, refused, canceled with esc, or after ten minutes.
LoginEnds ==
    /\ ~quit /\ login = "on"
    /\ login' = "done"
    /\ UNCHANGED <<ipcVars, execVars, tuiVars, popupVars, choices, asked, endMissed, covered>>

\* runMcpOAuthDone: t.popup = nil, whatever popup that is, and not closePopup.
LoginDone ==
    /\ ~quit /\ login = "done"
    /\ login' = "off"
    /\ covered' = covered \cup ({popup} \cap Prompts) \cup ToSet(popupQueue)
    /\ Becomes(Nobody)
    /\ UNCHANGED <<ipcVars, execVars, busy, handle, connecting, popupQueue, choices, asked, endMissed>>

\* The window is gone with all it had in memory; its values mean nothing from now on.
CloseWindow ==
    /\ CloseClient
    /\ exec' = [r \in OwnRuns |-> "over"] /\ hashes' = {} /\ pending' = {}
    /\ event' = [r \in OwnRuns |-> 0]
    /\ busy' = FALSE /\ handle' = Nobody /\ emitted' = FALSE /\ connecting' = FALSE
    /\ popup' = Nobody /\ question' = 0 /\ popupQueue' = <<>> /\ eventQueue' = <<>>
    /\ choices' = {} /\ login' = "off"
    /\ asked' = [cancels |-> 0, menus |-> 0, pastes |-> 0]
    /\ shown' = [r \in OwnRuns |-> <<>>] /\ endMissed' = FALSE /\ covered' = {}

-------------------------------------------------------------------------------
Daemon ==
    /\ Conn \/ Read \/ Detach \/ Reconnect \/ Restart \/ (\E r \in Runs : RunStep(r))
    /\ UNCHANGED <<execVars, tuiVars, popupVars, choices, login, asked, endMissed, covered>>

Keys == (\E r \in OwnRuns : Submit(r)) \/ Interrupt \/ OpenMenu \/ Advance \/ Answer \/ Abort \/ Choose \/ Dismiss \/ OpenPaste

RunExec(r) == AgentExec(r) \/ CallRun(r) \/ NextFrame(r) \/ AgentEvent(r) \/ AgentExecDone(r)

WindowNext ==
    \/ Daemon \/ Keys \/ CloseWindow
    \/ Child \/ PendingMsg \/ DaemonState
    \/ \E r \in OwnRuns : RunExec(r)
    \/ LoginEnds \/ LoginDone

WindowSpec == WindowInit /\ [][WindowNext]_windowVars

\* Every goroutine goes on, a login ends within ten minutes, and the user answers what is
\* on the screen.  A run need not end, and nobody need press a key that nothing asks for.
Alone(A) == A /\ UNCHANGED <<execVars, tuiVars, popupVars, choices, login, asked, endMissed, covered>>
Fairness ==
    /\ WF_windowVars(Alone(ServeRun \/ ServeCancel \/ ServeReply \/ Gone))
    /\ WF_windowVars(Alone(Reply))
    /\ WF_windowVars(Alone(PickNextMatch \/ Put))
    /\ WF_windowVars(Alone(Read \/ Detach \/ Reconnect) \/ PendingMsg \/ DaemonState)
    /\ \A r \in Runs : WF_windowVars(Alone(Stopped(r) \/ Done(r) \/ \E p \in Prompts : Ask(r, p)))
    /\ \A r \in OwnRuns : WF_windowVars(RunExec(r))
    /\ WF_windowVars(Child)
    /\ WF_windowVars(LoginEnds \/ LoginDone)
    /\ WF_windowVars(Advance \/ Answer \/ Abort \/ Dismiss \/ (OpenPaste /\ login = "off"))

FairSpec == WindowSpec /\ Fairness

-------------------------------------------------------------------------------
(* What the window promises. *)

\* A prompt the daemon waits for is on its way to the window, before the user or in the
\* queue behind another popup, or its answer is on its way back.  Only a login that ends
\* may take it away unanswered (runMcpOAuthDone sets t.popup to nil).
NoPromptMislaid ==
    link = "up" /\ served = "open" => \A p \in asks :
        \/ p \notin Unsettled \/ p \in covered
        \/ hand = p \/ popup = p \/ p \in ToSet(popupQueue)
        \/ <<"ask", p>> \in ToSet(down)
        \/ \E ok \in BOOLEAN : <<"reply", p, ok>> \in ToSet(up) \/ <<p, ok>> \in replying

\* The events of a run are shown in the order in which it sent them, each once, whatever
\* popups opened and closed in between (eventQueue, drained in Update).
EventsInOrder ==
    \A r \in OwnRuns : shown[r] = [i \in 1..Len(shown[r]) |-> i]

\* Both.
NothingMislaid == NoPromptMislaid /\ EventsInOrder

\* A prompt that is open is answered, for a user who answers what is on the screen,
\* unless its run ends, the window closes or a login takes its popup away.
EveryPromptSettles ==
    \A p \in Prompts : prompt[p] = "open" ~> p \notin Unsettled \/ p \in covered \/ quit

\* When a run is over the window is idle again (agentExecDone, Client.detach), unless the
\* message comes while a popup is open: then the window shows the run for ever.
RunningEnds ==
    \A r \in OwnRuns : run[r] = "over" ~> (~busy \/ endMissed \/ quit)

\* A window that is closed ends the runs it started, and what it had been asked is
\* resolved for the runs the daemon resumed (serve's deferred cancel and resolveAll).
ClosedWindowStops ==
    /\ \A r \in OwnRuns : quit ~> run[r] \in {"new", "over"}
    /\ \A p \in Prompts : quit /\ served = "open" /\ p \in asks ~> p \notin Unsettled

\* Either way a run comes to its end on both sides.
RunsSettle == RunningEnds /\ ClosedWindowStops
===============================================================================
