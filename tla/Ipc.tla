---------------------------------- MODULE Ipc ----------------------------------
(***************************************************************************)
(* The daemon's socket (internal/runtime/ipc): the frames between one TUI   *)
(* window and the daemon, the runs the window started, the runs the daemon  *)
(* resumes for it by itself, and the prompts both ask the window through    *)
(* the registry of internal/runtime/pending.go.                             *)
(*                                                                         *)
(* A run is known here by what it sends, asks and waits for; the payload of *)
(* frames is left out, as are the mcp and verify frames, which change       *)
(* nothing on the way, and steers, which SessionGate follows.  FramePending *)
(* is a run frame that may ask first.                                       *)
(***************************************************************************)
EXTENDS Naturals, Sequences, FiniteSets

CONSTANTS
    OwnRuns,      \* runs the window may start
    Resumed,      \* runs the daemon resumed for the window when a leg had ended
    Prompts,      \* confirmations and ask_user prompts
    Of,           \* the run that asks each prompt
    MaxEvents,    \* events a run sends: the first names the task, the others are output
    MaxRestarts,  \* daemon restarts
    Nobody

Runs == OwnRuns \cup Resumed

ASSUME IpcAssumption ==
    /\ OwnRuns \cap Resumed = {}
    /\ Of \in [Prompts -> Runs]
    /\ MaxEvents \in Nat /\ MaxRestarts \in Nat
    /\ Nobody \notin Runs \cup Prompts \cup {"lost", "back"}
    /\ Prompts \cap {"lost", "back"} = {}

VARIABLES
    \* the daemon
    run,       \* where each run is
    sent,      \* events a run has sent
    stop,      \* runs whose context is canceled
    prompt,    \* where each prompt is: runtime.entries and the reply
    asks,      \* conn.asks
    owns,      \* conn.windows has this window
    matched,   \* what askUser holds between PickNextMatch and the lock of asks
    served,    \* the connection of the window: none, open, or its serve has returned
    replying,  \* goroutines of conn.reply: <<prompt, approved>>
    restarts,
    \* the socket
    link,      \* up; cut: the daemon's end is gone; off: detached
    up, down,  \* frames on the way
    \* the client, in the window
    waiting,   \* Client.runs: the runs whose frames go to a channel
    hand,      \* what the reading goroutine is sending to the TUI
    inbox,     \* the channel of each run
    quit       \* the window is closed

daemonVars == <<run, sent, stop, prompt, asks, owns, matched, served, replying>>
clientVars == <<waiting, hand, inbox>>
ipcVars == <<daemonVars, restarts, link, up, down, clientVars, quit>>

Unsettled == {p \in Prompts : prompt[p] \in {"open", "picked"}}

IpcInit ==
    /\ run = [r \in Runs |-> IF r \in Resumed THEN "on" ELSE "new"]
    /\ sent = [r \in Runs |-> 0]
    /\ stop = {} /\ prompt = [p \in Prompts |-> "new"]
    /\ asks = {} /\ owns = TRUE /\ matched = Nobody /\ served = "open" /\ replying = {}
    /\ restarts = 0 /\ link = "up" /\ up = <<>> /\ down = <<>>
    /\ waiting = {} /\ hand = Nobody /\ inbox = [r \in OwnRuns |-> <<>>]
    /\ quit = FALSE

-------------------------------------------------------------------------------
(* The client, called by the TUI. *)

\* Client.send: the first write to a socket whose other end is gone fails and closes it.
CanSend == link = "up"
Send(f) ==
    CASE link = "up"  -> up' = Append(up, f) /\ UNCHANGED down
      [] link = "cut" -> down' = <<<<"eof">>>> /\ UNCHANGED up
      [] OTHER        -> UNCHANGED <<up, down>>

-------------------------------------------------------------------------------
(* The client's reading goroutine. *)

\* Client.read: a frame of a run goes to its channel, an ask to onAsk.
Read ==
    /\ ~quit /\ hand = Nobody /\ down # <<>> /\ Head(down)[1] # "eof"
    /\ down' = Tail(down)
    /\ LET f == Head(down) IN
       IF f[1] = "ask"
       THEN hand' = f[2] /\ UNCHANGED <<waiting, inbox>>
       ELSE /\ waiting' = IF f[1] = "done" THEN waiting \ {f[2]} ELSE waiting
            /\ inbox' = IF f[2] \in waiting THEN [inbox EXCEPT ![f[2]] = Append(@, f)] ELSE inbox
            /\ UNCHANGED hand
    /\ UNCHANGED <<daemonVars, restarts, link, up, quit>>

\* Variant for mutation checks: the runs are forgotten without a last frame.
DetachSilent ==
    /\ ~quit /\ hand = Nobody /\ down # <<>> /\ Head(down)[1] = "eof"
    /\ link' = "off" /\ down' = <<>> /\ hand' = "lost"
    /\ waiting' = {}
    /\ UNCHANGED <<daemonVars, restarts, up, inbox, quit>>

\* Client.detach: every run that waits is told that the daemon is offline.
Detach ==
    /\ ~quit /\ hand = Nobody /\ down # <<>> /\ Head(down)[1] = "eof"
    /\ link' = "off" /\ down' = <<>> /\ hand' = "lost"
    /\ waiting' = {}
    /\ inbox' = [r \in OwnRuns |->
                    IF r \in waiting THEN Append(inbox[r], <<"done", r>>) ELSE inbox[r]]
    /\ UNCHANGED <<daemonVars, restarts, up, quit>>

\* Client.loop: it dials every five seconds; the daemon is up again.
Reconnect ==
    /\ ~quit /\ link = "off" /\ hand = Nobody
    /\ link' = "up" /\ hand' = "back"
    /\ served' = "open" /\ owns' = FALSE
    /\ UNCHANGED <<run, sent, stop, prompt, asks, matched, replying, restarts, up, down, waiting, inbox, quit>>

-------------------------------------------------------------------------------
(* The daemon: conn. *)

\* A frame for a window that is gone is written to nobody.
Tell(f) == down' = IF served = "open" /\ ~quit THEN Append(down, f) ELSE down

\* The answer of prompt p reaches the run that waits in runtime.Ask: it goes on with the
\* call or, on an error, cancels its own execution.
Settle(ps, ok) ==
    /\ prompt' = [p \in Prompts |-> IF p \in ps \cap Unsettled THEN (IF ok THEN "yes" ELSE "no") ELSE prompt[p]]
    /\ run' = [r \in Runs |-> IF \E p \in ps \cap Unsettled : Of[p] = r
                              THEN (IF ok THEN "on" ELSE "ended") ELSE run[r]]

\* serve, FrameRun: no task of the session is online, go c.run.
ServeRun ==
    /\ served = "open" /\ up # <<>> /\ Head(up)[1] = "run"
    /\ up' = Tail(up)
    /\ run' = [run EXCEPT ![Head(up)[2]] = "on"]
    /\ owns' = TRUE
    /\ UNCHANGED <<sent, stop, prompt, asks, matched, served, replying, restarts, link, down, clientVars, quit>>

\* c.tasks: the runs of this connection whose task hash is known.
ConnTasks == {r \in OwnRuns : sent[r] > 0 /\ run[r] \in {"on", "check", "wait"}}

\* serve, FrameCancel: exec.Cancel of a run of this connection.
ServeCancel ==
    /\ served = "open" /\ up # <<>> /\ Head(up)[1] = "cancel"
    /\ up' = Tail(up)
    /\ stop' = IF Head(up)[2] \in ConnTasks THEN stop \cup {Head(up)[2]} ELSE stop
    /\ UNCHANGED <<run, sent, prompt, asks, owns, matched, served, replying, restarts, link, down, clientVars, quit>>

\* serve, FrameReply: go c.reply.
ServeReply ==
    /\ served = "open" /\ up # <<>> /\ Head(up)[1] = "reply"
    /\ up' = Tail(up)
    /\ replying' = replying \cup {<<Head(up)[2], Head(up)[3]>>}
    /\ UNCHANGED <<run, sent, stop, prompt, asks, owns, matched, served, restarts, link, down, clientVars, quit>>

\* conn.reply: only a prompt this connection has asked is resolved.
Reply ==
    \E x \in replying :
        /\ replying' = replying \ {x}
        /\ asks' = asks \ {x[1]}
        /\ IF x[1] \in asks THEN Settle({x[1]}, x[2]) ELSE UNCHANGED <<prompt, run>>
        /\ UNCHANGED <<sent, stop, owns, matched, served, restarts, link, up, down, clientVars, quit>>

\* serve returns at the end of the stream: cancel(errDisconnected), resolveAll.  What the
\* registry has settled in between is not resolved twice.
Gone ==
    /\ served = "open" /\ quit /\ up = <<>>
    /\ served' = "gone"
    /\ stop' = stop \cup {r \in OwnRuns : run[r] # "over"}
    /\ asks' = {}
    /\ Settle(asks, FALSE)
    /\ UNCHANGED <<sent, owns, matched, replying, restarts, link, up, down, clientVars, quit>>

\* conn.askUser: PickNextMatch, then asks under askMu, then the frame.  The loop goes on
\* after the connection is gone until it has nothing to pick and sees the context.
PickNextMatch ==
    /\ served # "none" /\ owns /\ matched = Nobody
    /\ \E p \in Prompts :
          /\ prompt[p] = "open"
          /\ Of[p] \notin stop
          /\ matched' = p /\ prompt' = [prompt EXCEPT ![p] = "picked"]
    /\ UNCHANGED <<run, sent, stop, asks, owns, served, replying, restarts, link, up, down, clientVars, quit>>

Put ==
    /\ matched # Nobody
    /\ asks' = asks \cup {matched} /\ matched' = Nobody
    /\ Tell(<<"ask", matched>>)
    /\ UNCHANGED <<run, sent, stop, prompt, owns, served, replying, restarts, link, up, clientVars, quit>>

\* askUser sees that the context is done.
AskerEnds ==
    /\ served = "gone" /\ matched = Nobody
    /\ served' = "none"
    /\ UNCHANGED <<run, sent, stop, prompt, asks, owns, matched, replying, restarts, link, up, down, clientVars, quit>>

-------------------------------------------------------------------------------
(* The daemon: a run, as far as the window can tell. *)

\* An event of a run of the window; a resumed run publishes to the log, not here.
Emit(r) ==
    /\ r \in OwnRuns /\ run[r] = "on" /\ sent[r] < MaxEvents
    /\ sent' = [sent EXCEPT ![r] = @ + 1]
    /\ Tell(<<"event", r, sent[r] + 1>>)
    /\ UNCHANGED <<run, stop, prompt, asks, owns, matched, served, replying, restarts, link, up, clientVars, quit>>

\* toolCall: HasListener, and without one the call goes on unasked.  A task resumed with
\* FramePending asks its open questions before it has sent any event.
Check(r, p) ==
    /\ run[r] = "on" /\ Of[p] = r /\ prompt[p] = "new" /\ r \notin stop
    /\ IF served # "none" /\ owns
       THEN run' = [run EXCEPT ![r] = "check"] /\ UNCHANGED prompt
       ELSE prompt' = [prompt EXCEPT ![p] = "skipped"] /\ UNCHANGED run
    /\ UNCHANGED <<sent, stop, asks, owns, matched, served, replying, restarts, link, up, down, clientVars, quit>>

\* runtime.Ask: the entry is in the registry; origin "cli-" waits without a deadline.
Ask(r, p) ==
    /\ run[r] = "check" /\ Of[p] = r /\ prompt[p] = "new"
    /\ prompt' = [prompt EXCEPT ![p] = "open"]
    /\ run' = [run EXCEPT ![r] = "wait"]
    /\ UNCHANGED <<sent, stop, asks, owns, matched, served, replying, restarts, link, up, down, clientVars, quit>>

\* A canceled context ends the run wherever it is; Ask takes its entry away.
Stopped(r) ==
    /\ r \in stop /\ run[r] \in {"on", "check", "wait"}
    /\ run' = [run EXCEPT ![r] = "ended"]
    /\ prompt' = [p \in Prompts |-> IF Of[p] = r /\ p \in Unsettled THEN "dropped" ELSE prompt[p]]
    /\ UNCHANGED <<sent, stop, asks, owns, matched, served, replying, restarts, link, up, down, clientVars, quit>>

Finish(r) ==
    /\ run[r] = "on"
    /\ run' = [run EXCEPT ![r] = "ended"]
    /\ UNCHANGED <<sent, stop, prompt, asks, owns, matched, served, replying, restarts, link, up, down, clientVars, quit>>

\* conn.run: the stream is closed, the last frame is written.
Done(r) ==
    /\ run[r] = "ended"
    /\ run' = [run EXCEPT ![r] = "over"]
    /\ IF r \in OwnRuns THEN Tell(<<"done", r>>) ELSE UNCHANGED down
    /\ UNCHANGED <<sent, stop, prompt, asks, owns, matched, served, replying, restarts, link, up, clientVars, quit>>

\* The daemon is stopped, or dies, with everything it holds in memory; what it has written
\* can still be read.
Restart ==
    /\ link = "up" /\ ~quit /\ restarts < MaxRestarts
    /\ restarts' = restarts + 1
    /\ link' = "cut" /\ up' = <<>> /\ down' = Append(down, <<"eof">>)
    /\ run' = [r \in Runs |-> IF run[r] = "new" THEN "new" ELSE "over"]
    /\ prompt' = [p \in Prompts |-> IF p \in Unsettled THEN "dropped" ELSE prompt[p]]
    /\ stop' = {} /\ asks' = {} /\ owns' = FALSE /\ matched' = Nobody /\ served' = "none" /\ replying' = {}
    /\ UNCHANGED <<sent, clientVars, quit>>

\* The window is closed, by ctrl+c twice or with its terminal.
CloseClient ==
    /\ ~quit
    /\ quit' = TRUE /\ down' = <<>> /\ hand' = Nobody
    /\ inbox' = [r \in OwnRuns |-> <<>>] /\ waiting' = {}
    /\ link' = "off"
    /\ UNCHANGED <<daemonVars, restarts, up>>

RunStep(r) ==
    \/ Emit(r) \/ Stopped(r) \/ Finish(r) \/ Done(r)
    \/ \E p \in Prompts : Check(r, p) \/ Ask(r, p)

Conn == ServeRun \/ ServeCancel \/ ServeReply \/ Reply \/ Gone \/ PickNextMatch \/ Put \/ AskerEnds

===============================================================================
