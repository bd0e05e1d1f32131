---------------------------- MODULE ChatMessages ----------------------------
(***************************************************************************)
(* What a chat bot does with the messages of a chat and with the answers   *)
(* of its runs (internal/runtime/chatbot and the telegram and discord      *)
(* packages under it).  Every message has a handler of its own, and they   *)
(* run side by side: the files of an album gather behind a timer, a        *)
(* message of a chat that is not on the list of verified chats asks for a  *)
(* code or brings it, one without a mention of the bot in a group is only  *)
(* recorded, and the others start a run, whose answer goes out in parts.   *)
(* A scheduled task of the chat's session pushes its answer instead, and   *)
(* the answers to a pending prompt resume a run.  Meanwhile the web page   *)
(* and the TUI take chats off the list.                                    *)
(*                                                                         *)
(* Left out: what a part contains, and how HTML tags and code fences are   *)
(* closed and opened again between parts; status lines; the code's copy to *)
(* the admin chat; the deletion of prompt and code messages; messages that *)
(* say nothing or start with /start, which are dropped at once.            *)
(***************************************************************************)
EXTENDS Integers, Sequences, FiniteSets

CONSTANTS
    Inputs,       \* messages, resumed tasks and scheduled runs
    Ours, Other,  \* the chat they belong to, and another one
    Removers,     \* DELETE requests on their way
    MaxParts,     \* by kind of input, the parts its answers have at most
    Most,         \* no answer has more
    Attaching     \* the kinds of input whose answers may attach files

VARIABLES
    place,   \* the bot, and whether the chat is a group
    kind,    \* text, photo, file (of one album), resume or schedule
    listed,  \* the file of verified chats: the lines each one has in it
    code,    \* {} or the message whose prompt's code is pending
    letter,  \* what a message says (a mention, words or nothing), and a code
    album,   \* the files gathered so far, in order
    timers,  \* the album's timer is armed, so are those of albums taken
             \* before; flushes on their way to the lock
    files,   \* the files a handler holds
    stage,      \* where each input's handler is
    answer,  \* the parts it has, whether it attaches files, notices lost
    chat,    \* what the chat shows of it: parts, the upload, notices
    erase,   \* per DELETE: its chat, the lines it read, whether it is stale
    gone     \* ghost: chats removed and not verified again

doorVars == << listed, code, gone >>
albumVars == << album, timers, files >>
sendVars == << answer, chat >>
fixed == << place, kind >>
chatVars == << fixed, doorVars, albumVars, sendVars, letter, stage, erase >>

Chats == {Ours, Other}
Places == [bot : {"telegram", "discord"}, group : BOOLEAN]
InputKinds == {"text", "photo", "file", "resume", "schedule"}
NoAnswer == [parts |-> 0, attach |-> FALSE, ok |-> TRUE, lost |-> 0]

ChatInit(p, k, lines, removals) ==
    /\ place = p
    /\ kind = k
    /\ listed = lines
    /\ code = {}
    /\ letter = [m \in Inputs |-> [says |-> "nothing", code |-> {}]]
    /\ album = << >>
    /\ timers = [armed |-> FALSE, old |-> 0, fired |-> 0]
    /\ files = [m \in Inputs |-> {}]
    /\ stage = [m \in Inputs |-> "new"]
    /\ answer = [m \in Inputs |-> NoAnswer]
    /\ chat = [m \in Inputs |-> << >>]
    /\ erase = [r \in Removers |-> [of |-> {}, read |-> lines, stale |-> FALSE,
                                    at |-> IF r \in removals THEN "new" ELSE "done"]]
    /\ gone = {}

Goto(m, step) == stage' = [stage EXCEPT ![m] = step]
Done(m) == Goto(m, "done")

-----------------------------------------------------------------------------
(* Codes that were sent to the chat can be typed into it. *)
Codes == {m \in Inputs : stage[m] \in {"told", "set"}}

TextArrives(m) ==
    /\ kind[m] = "text" /\ stage[m] = "new"
    /\ \E says \in {"words", "mention"}, c \in {{}} \cup {{d} : d \in Codes} :
          /\ c # {} => says = "words"
          /\ letter' = [letter EXCEPT ![m] = [says |-> says, code |-> c]]
    /\ Goto(m, "gate")
    /\ UNCHANGED << fixed, doorVars, albumVars, sendVars, erase >>

(* A picture comes with a caption or without. *)
PhotoArrives(m) ==
    /\ kind[m] = "photo" /\ stage[m] = "new"
    /\ \E says \in {"nothing", "mention"} :
          letter' = [letter EXCEPT ![m].says = says]
    /\ files' = [files EXCEPT ![m] = {m}]
    /\ Goto(m, "gate")
    /\ UNCHANGED << fixed, doorVars, album, timers, sendVars, erase >>

(* A file of an album joins its group and starts the timer again; an       *)
(* earlier timer's function may be on its way already.                     *)
Add(m) ==
    /\ place.bot = "telegram" /\ kind[m] = "file" /\ stage[m] = "new"
    /\ \E says \in {"nothing", "mention"} :
          letter' = [letter EXCEPT ![m].says = says]
    /\ album' = Append(album, m)
    /\ timers' = [timers EXCEPT !.armed = TRUE]
    /\ Goto(m, "group")
    /\ UNCHANGED << fixed, doorVars, files, sendVars, erase >>

TimerFires ==
    /\ \/ timers.armed /\ timers' = [timers EXCEPT !.armed = FALSE, !.fired = @ + 1]
       \/ timers.old > 0 /\ timers' = [timers EXCEPT !.old = @ - 1, !.fired = @ + 1]
    /\ UNCHANGED << fixed, doorVars, letter, album, files, stage, sendVars, erase >>

(* A flush takes the whole group, whichever timer it comes from, and       *)
(* handles it as its first message with the first caption there is.  A     *)
(* timer the group has armed by then stays armed, for a group to come.     *)
Flushed(old) == [armed |-> FALSE, old |-> old, fired |-> timers.fired - 1]
Take(rest) ==
    LET first == Head(album)
        held == {album[i] : i \in 1 .. Len(album)}
        captions == SelectSeq(album, LAMBDA m : letter[m].says # "nothing")
    IN  /\ files' = [files EXCEPT ![first] = held]
        /\ letter' = [letter EXCEPT ![first] =
                         IF captions = << >> THEN @ ELSE letter[Head(captions)]]
        /\ stage' = [m \in Inputs |-> IF m = first THEN "gate"
                                   ELSE IF m \in held THEN "with" ELSE stage[m]]
        /\ album' = rest

Flush ==
    /\ timers.fired > 0
    /\ timers' = Flushed(timers.old + (IF timers.armed THEN 1 ELSE 0))
    /\ IF album = << >> THEN UNCHANGED << letter, album, files, stage >> ELSE Take(<< >>)
    /\ UNCHANGED << fixed, doorVars, sendVars, erase >>

-----------------------------------------------------------------------------
(* In a group, a message that does not mention the bot is chatter, unless  *)
(* a code is waited for or, on Telegram, an answer to a prompt.  On        *)
(* Discord the answer to a prompt goes to the listener and no further.     *)
Chatter(m) == place.group /\ code = {} /\ letter[m].says # "mention"

TelegramGate(m) ==
    /\ place.bot = "telegram" /\ stage[m] = "gate"
    /\ \E awaited \in BOOLEAN :
          IF Chatter(m) /\ ~awaited THEN Done(m) ELSE Goto(m, "check")
    /\ UNCHANGED << fixed, doorVars, letter, albumVars, sendVars, erase >>

DiscordGate(m) ==
    /\ place.bot = "discord" /\ stage[m] = "gate"
    /\ \E answers \in BOOLEAN :
          IF answers \/ Chatter(m) THEN Done(m) ELSE Goto(m, "check")
    /\ UNCHANGED << fixed, doorVars, letter, albumVars, sendVars, erase >>

IsAuthorized(m) ==
    /\ stage[m] = "check"
    /\ Goto(m, IF listed[Ours] > 0 THEN "hear" ELSE "door")
    /\ UNCHANGED << fixed, doorVars, letter, albumVars, sendVars, erase >>

(* The pending code lets the chat in: a line is added at the end of the    *)
(* file, another one by every handler that holds the same code, and the    *)
(* code is cleared after that.                                             *)
Authorize(m) ==
    /\ stage[m] = "door" /\ code # {} /\ letter[m].code = code
    /\ listed' = [listed EXCEPT ![Ours] = @ + 1]
    /\ gone' = gone \ {Ours}
    /\ Goto(m, "clear")
    /\ UNCHANGED << fixed, code, letter, albumVars, sendVars, erase >>

Clear(m) ==
    /\ stage[m] = "clear"
    /\ code' = {}
    /\ Done(m)
    /\ UNCHANGED << fixed, listed, gone, letter, albumVars, sendVars, erase >>

(* Any other message is answered with a new code, which is pending from    *)
(* the moment its prompt went out: of two, the one set last counts.        *)
NewCode(m) ==
    /\ stage[m] = "door" /\ (code # {} => letter[m].code # code)
    /\ Goto(m, "told") \/ Done(m)
    /\ UNCHANGED << fixed, doorVars, letter, albumVars, sendVars, erase >>

SetCode(m) ==
    /\ stage[m] = "told"
    /\ code' = {m}
    /\ Goto(m, "set")
    /\ UNCHANGED << fixed, listed, gone, letter, albumVars, sendVars, erase >>

CodeExpires ==
    /\ code # {}
    /\ code' = {}
    /\ UNCHANGED << fixed, listed, gone, letter, albumVars, stage, sendVars, erase >>

-----------------------------------------------------------------------------
(* A DELETE reads the file, and writes it back without the chat's lines.   *)
(* One that another DELETE overtook writes back what it took off.          *)
ReadChats(r) ==
    /\ erase[r].at = "new"
    /\ \E c \in Chats :
          /\ listed[c] > 0
          /\ erase' = [erase EXCEPT ![r] = [of |-> {c}, read |-> listed,
                                            stale |-> FALSE, at |-> "read"]]
    /\ UNCHANGED << fixed, doorVars, letter, albumVars, stage, sendVars >>

Write(r, lines) ==
    /\ erase[r].at = "read"
    /\ listed' = lines
    /\ gone' = erase[r].of \cup (IF erase[r].stale THEN {} ELSE gone)
    /\ erase' = [s \in Removers |-> IF s = r THEN [erase[s] EXCEPT !.at = "done"]
                                    ELSE [erase[s] EXCEPT !.stale = (@ \/ erase[s].at = "read")]]
    /\ UNCHANGED << fixed, code, letter, albumVars, stage, sendVars >>

WriteKeptOne(r) == \* Variant: the loop ends at the first line of the chat.
    Write(r, [c \in Chats |-> IF c \in erase[r].of THEN erase[r].read[c] - 1
                              ELSE erase[r].read[c]])

WriteKept(r) ==
    Write(r, [c \in Chats |-> IF c \in erase[r].of THEN 0 ELSE erase[r].read[c]])

-----------------------------------------------------------------------------
(* A notice reaches the chat, or is lost with a line in the log. *)
Notice == 0
Upload == Most + 1
Notify(m, then) ==
    /\ \/ chat' = [chat EXCEPT ![m] = Append(@, Notice)] /\ UNCHANGED answer
       \/ answer' = [answer EXCEPT ![m].lost = @ + 1] /\ UNCHANGED chat
    /\ Goto(m, then)

(* What may become of a message's files: they cannot be saved, which       *)
(* leaves nothing if no words came with them, or not be transcribed, which *)
(* is told.                                                                *)
SaveAttachments(m) == files[m] # {} /\ letter[m].says = "nothing" /\ Done(m)
Transcribe(m) == files[m] # {} /\ Notify(m, "done")

(* The chat is verified: on Telegram the message may be the text that the  *)
(* prompt listener waits for; otherwise it starts a run, with its files.   *)
TelegramHear(m) ==
    /\ place.bot = "telegram" /\ stage[m] = "hear"
    /\ \/ Transcribe(m)
       \/ SaveAttachments(m) /\ UNCHANGED sendVars
       \/ (Done(m) \/ Goto(m, "run")) /\ UNCHANGED sendVars
    /\ UNCHANGED << fixed, doorVars, letter, albumVars, erase >>

DiscordHear(m) ==
    /\ place.bot = "discord" /\ stage[m] = "hear"
    /\ \/ Transcribe(m)
       \/ SaveAttachments(m) /\ UNCHANGED sendVars
       \/ Goto(m, "run") /\ UNCHANGED sendVars
    /\ UNCHANGED << fixed, doorVars, letter, albumVars, erase >>

(* Answers to a pending prompt resume its run, unless the task is resolved *)
(* already; a scheduled task runs without a message.                       *)
ResumeFromPending(m) ==
    /\ kind[m] = "resume" /\ stage[m] = "new"
    /\ \/ Notify(m, "done")
       \/ Goto(m, "run") /\ UNCHANGED sendVars
    /\ UNCHANGED << fixed, doorVars, letter, albumVars, erase >>

ScheduleRuns(m) ==
    /\ kind[m] = "schedule" /\ stage[m] = "new"
    /\ Goto(m, "run")
    /\ UNCHANGED << fixed, doorVars, letter, albumVars, sendVars, erase >>

(* A run ends with an answer, with none, or with an error, which matters   *)
(* only without an answer.  The replies of the bots keep their runs from   *)
(* pushing the answer as well.                                             *)
SuppressDcPush(m) == kind[m] # "schedule"

(* What deliver does with the answer once the run is over. *)
Deliver(m, a) ==
    IF a.parts > 0 THEN "send" ELSE IF a.ok THEN "done" ELSE "error"

RunEnds(m) ==
    /\ stage[m] = "run"
    /\ \E n \in 0 .. MaxParts[kind[m]], attach, ok \in BOOLEAN :
          LET a == [parts |-> n, attach |-> attach, ok |-> ok, lost |-> 0] IN
          /\ attach => n > 0 /\ kind[m] \in Attaching
          /\ ~ok => n = 0
          /\ answer' = [answer EXCEPT ![m] = a]
          /\ Goto(m, IF n > 0 /\ ~SuppressDcPush(m) THEN "push"
                     ELSE IF kind[m] = "schedule" THEN "done" ELSE Deliver(m, a))
    /\ UNCHANGED << fixed, doorVars, letter, albumVars, chat, erase >>

TellError(m) ==
    /\ stage[m] = "error"
    /\ Notify(m, "done")
    /\ UNCHANGED << fixed, doorVars, letter, albumVars, erase >>

(* The part of the answer that goes out next. *)
Parts(m) == {i \in 1 .. Len(chat[m]) : chat[m][i] \in 1 .. Most}
NextPart(m) == Cardinality(Parts(m)) + 1
After(m) == IF answer[m].attach THEN "attach" ELSE "done"

ShowPart(m, then) ==
    /\ chat' = [chat EXCEPT ![m] = Append(@, NextPart(m))]
    /\ Goto(m, IF NextPart(m) < answer[m].parts THEN stage[m] ELSE then)
    /\ UNCHANGED answer

(* A reply sends part after part; one that fails ends it with a notice,    *)
(* and the files follow all the same.                                      *)
SendPart(m) ==
    /\ stage[m] = "send"
    /\ ShowPart(m, After(m)) \/ Notify(m, After(m))
    /\ UNCHANGED << fixed, doorVars, letter, albumVars, erase >>

(* A push stops at a part that fails without telling it. *)
PushResult(m) ==
    /\ stage[m] = "push"
    /\ \/ ShowPart(m, IF kind[m] = "schedule" THEN After(m) ELSE Deliver(m, answer[m]))
       \/ /\ answer' = [answer EXCEPT ![m].lost = @ + 1]
          /\ Goto(m, After(m))
          /\ UNCHANGED chat
    /\ UNCHANGED << fixed, doorVars, letter, albumVars, erase >>

(* The files go up in the background; a failed upload is told. *)
SendAttachments(m) ==
    /\ stage[m] = "attach"
    /\ \/ chat' = [chat EXCEPT ![m] = Append(@, Upload)] /\ Done(m) /\ UNCHANGED answer
       \/ Notify(m, "done")
    /\ UNCHANGED << fixed, doorVars, letter, albumVars, erase >>

ChatNext ==
    \/ TimerFires \/ Flush \/ CodeExpires
    \/ \E r \in Removers : ReadChats(r) \/ WriteKept(r)
    \/ \E m \in Inputs :
          \/ TextArrives(m) \/ PhotoArrives(m) \/ Add(m) \/ TelegramGate(m) \/ DiscordGate(m)
          \/ IsAuthorized(m) \/ Authorize(m) \/ Clear(m) \/ NewCode(m) \/ SetCode(m)
          \/ TelegramHear(m) \/ DiscordHear(m) \/ ResumeFromPending(m) \/ ScheduleRuns(m) \/ RunEnds(m)
          \/ TellError(m) \/ SendPart(m) \/ PushResult(m) \/ SendAttachments(m)

ChatStart ==
    \E p \in Places, k \in [Inputs -> InputKinds], lines \in [Chats -> Nat],
       removals \in SUBSET Removers : ChatInit(p, k, lines, removals)
ChatSpec == ChatStart /\ [][ChatNext]_chatVars

-----------------------------------------------------------------------------
(* Every file of an album that arrived waits in the group, with a timer or *)
(* a flush still to come for it, or is held by one handler, however timers *)
(* and late files cross (filegroup.go).                                    *)
FilesOnce ==
    \A m \in Inputs : kind[m] = "file" /\ stage[m] # "new" =>
        LET waits == \E i \in 1 .. Len(album) : album[i] = m
            holders == {h \in Inputs : m \in files[h]}
        IN  /\ waits => holders = {} /\ (timers.armed \/ timers.fired > 0)
            /\ ~waits => Cardinality(holders) = 1

(* The chat sees the parts of an answer once and in order, and when the    *)
(* handler is through, all of them and the files, but for one notice for   *)
(* each of the two that was cut short, unless the notice failed too        *)
(* (reply.go, and the push hooks of runs nobody replies for).              *)
Count(m, what) == Cardinality({i \in 1 .. Len(chat[m]) : chat[m][i] = what})
AnswersTold ==
    \A m \in Inputs :
        LET missing == (IF NextPart(m) <= answer[m].parts THEN 1 ELSE 0)
                       + (IF answer[m].attach /\ Count(m, Upload) = 0 THEN 1 ELSE 0)
        IN  /\ NextPart(m) - 1 <= answer[m].parts
            /\ \A i \in Parts(m) : chat[m][i] = Cardinality({j \in Parts(m) : j <= i})
            /\ stage[m] = "done" => missing <= Count(m, Notice) + answer[m].lost

(* A chat that was taken off the list is not on it until it enters a code  *)
(* again, even when the same code had put it there twice; the exception    *)
(* are two removals that overlap (routes/handler/channel.go).              *)
RemovedStaysOut == \A c \in gone : listed[c] = 0
=============================================================================
