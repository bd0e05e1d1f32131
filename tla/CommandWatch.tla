---------------------------- MODULE CommandWatch ----------------------------
(***************************************************************************)
(* A background command and the watcher of its output.  Every line goes to *)
(* the tail the command's result will show and to the watcher's buffer; a  *)
(* line with one of the error keywords raises a flag.  The watcher then    *)
(* lets the output settle, takes what the buffer holds, asks the decision  *)
(* model (where one is set) whether it is worth a report, and reports it   *)
(* to the task, which is resumed with it while the command runs on.        *)
(*                                                                         *)
(* Lines are told apart by their place in the output and by whether they   *)
(* match a keyword; sizes are numbers of lines.  Left out: time (a wait    *)
(* may end as soon as it can), lines that are not ended yet, the cutting   *)
(* of long ones, and a command that could not be started.                  *)
(***************************************************************************)
EXTENDS Integers, Sequences

CONSTANTS
    MaxLines,    \* bound: lines of output
    BufferLines, \* lines the watcher's buffer holds
    ReportLines, \* lines a report has room for
    TailLines    \* lines of output the result has room for

ASSUME WatchAssumption ==
    /\ {MaxLines, BufferLines, ReportLines, TailLines} \subseteq Nat \ {0}
    /\ ReportLines <= BufferLines /\ BufferLines <= TailLines

VARIABLES
    output,   \* the lines printed so far: "error" or "plain"
    taken,    \* lines up to this one were taken from the buffer...
    full,     \* ... and lines up to this one have fallen out of it
    hit,      \* the flag, a channel of capacity one
    agent,    \* a decision model is set
    watcher,  \* the goroutine: wait, settle, decide or gone; the segment it
              \* took, and whether it has reported before
    command,  \* running, ended, expired (its time ran out, or the task was
              \* canceled), or done (its result is told)
    reported, \* ghost: lines that were in a report
    judged,   \* ghost: lines the decision model found not worth one
    cut       \* ghost: lines that found no room in the buffer or a report,
              \* or were with the decision model when the time ran out

watchVars == << output, taken, full, hit, agent, watcher, command,
                reported, judged, cut >>

Lines == 1 .. Len(output)
Held == {i \in Lines : i > taken /\ i > full}

WatchInit ==
    /\ output = << >>
    /\ taken = 0
    /\ full = 0
    /\ hit = FALSE
    /\ agent \in BOOLEAN
    /\ watcher = [pc |-> "wait", segment |-> {}, told |-> FALSE]
    /\ command = "running"
    /\ reported = {}
    /\ judged = {}
    /\ cut = {}

-----------------------------------------------------------------------------
(* The command. *)

(* A keyword raises the flag, which may be up already; the oldest line     *)
(* makes room for the new one.                                             *)
AddLine(line) ==
    /\ command = "running"
    /\ Len(output) < MaxLines
    /\ output' = Append(output, line)
    /\ hit' = (hit \/ line = "error")
    /\ LET n == Len(output) + 1
           room == IF n - BufferLines > full THEN n - BufferLines ELSE full
       IN /\ full' = room
          /\ cut' = cut \cup {i \in Held : i <= room}
    /\ UNCHANGED << taken, agent, watcher, command, reported, judged >>

(* Its run is over: by itself, or because its time was. *)
Exit ==
    /\ command = "running"
    /\ command' \in {"ended", "expired"}
    /\ UNCHANGED << output, taken, full, hit, agent, watcher, reported, judged, cut >>

(* The result is told once the watcher is gone. *)
TailText == {i \in Lines : i > Len(output) - TailLines}
Finish ==
    /\ command \in {"ended", "expired"}
    /\ watcher.pc = "gone"
    /\ command' = "done"
    /\ UNCHANGED << output, taken, full, hit, agent, watcher, reported, judged, cut >>

-----------------------------------------------------------------------------
(* The watcher. *)
Goto(pc) == [watcher EXCEPT !.pc = pc, !.segment = {}]

Wake ==
    /\ watcher.pc = "wait"
    /\ hit
    /\ hit' = FALSE
    /\ watcher' = Goto("settle")
    /\ UNCHANGED << output, taken, full, agent, command, reported, judged, cut >>

(* It stops where it waits when the command is over, also with a flag up. *)
WatchEnds ==
    /\ watcher.pc \in {"wait", "settle"}
    /\ command # "running"
    /\ watcher' = Goto("gone")
    /\ UNCHANGED << output, taken, full, hit, agent, command, reported, judged, cut >>

(* The lines a report has room for, the newest ones. *)
TailWatchLines(S) == {i \in S : i > Len(output) - ReportLines}

Tells(lines) ==
    /\ reported' = reported \cup lines
    /\ watcher' = [watcher EXCEPT !.pc = "wait", !.segment = {}, !.told = TRUE]

(* The output has settled, or the longest wait is over, and the last       *)
(* report is long enough ago.                                              *)
TakeLines ==
    /\ watcher.pc = "settle"
    /\ taken' = Len(output)
    /\ cut' = cut \cup (Held \ TailWatchLines(Held))
    /\ IF Held = {} THEN watcher' = Goto("wait") /\ UNCHANGED reported
       ELSE IF agent
       THEN /\ watcher' = [watcher EXCEPT !.pc = "decide", !.segment = TailWatchLines(Held)]
            /\ UNCHANGED reported
       ELSE Tells(TailWatchLines(Held))
    /\ UNCHANGED << output, full, hit, agent, command, judged >>

\* Variant for mutation checks: what came up while the model was asked is
\* taken for part of what it judged.
JudgedDrains ==
    /\ judged' = judged \cup watcher.segment
    /\ watcher' = Goto("wait")
    /\ hit' = FALSE
    /\ UNCHANGED reported

(* No error to the model, or the same one as in the last report. *)
Judged ==
    /\ judged' = judged \cup watcher.segment
    /\ watcher' = Goto("wait")
    /\ UNCHANGED << hit, reported >>

(* The model answers, or fails: then the lines are reported unchecked.     *)
(* When the command's time is over by then, nobody is told.                *)
DecideWatch ==
    /\ watcher.pc = "decide"
    /\ IF command = "expired"
       THEN /\ watcher' = Goto("gone")
            /\ cut' = cut \cup watcher.segment
            /\ UNCHANGED << hit, reported, judged >>
       ELSE /\ \/ Judged
               \/ Tells(watcher.segment) /\ UNCHANGED << hit, judged >>
            /\ UNCHANGED cut
    /\ UNCHANGED << output, taken, full, agent, command >>

WatchNext ==
    \/ \E line \in {"error", "plain"} : AddLine(line)
    \/ Exit \/ Finish
    \/ Wake \/ WatchEnds \/ TakeLines \/ DecideWatch

WatchSpec == WatchInit /\ [][WatchNext]_watchVars

-----------------------------------------------------------------------------
(* No line with an error keyword gets lost (watchOutput): it has been      *)
(* reported, or judged, or is with the decision model; or it is held, and  *)
(* the watcher is about to take it or the result will show it - unless it  *)
(* found no room, or the time ran out while the model had it.              *)
NoErrorLost ==
    \A i \in Lines : output[i] = "error" =>
        \/ i \in reported \cup judged \cup cut \cup watcher.segment
        \/ /\ i \in Held
           /\ \/ hit
              \/ watcher.pc = "settle"
              \/ command # "running" /\ i \in TailText
=============================================================================
