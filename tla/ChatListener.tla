----------------------------- MODULE ChatListener -----------------------------
(***************************************************************************)
(* The Telegram and Discord prompt listener of internal/runtime/listener.go *)
(* over the registry of PendingRegistry.  A listener object shows at most   *)
(* one prompt per chat; its loop goroutine claims and sends prompts, and    *)
(* one goroutine per incoming tap or text answers them.  The goroutines     *)
(* share `cur` under l.mu; the prompt's own fields (message, selected,      *)
(* answers) are shared with no lock at all.  A reload of the bot stops the  *)
(* listener and makes a new one.                                            *)
(***************************************************************************)
EXTENDS PendingRegistry

CONSTANTS
    Chats,       \* chats of the bot
    NoChat,      \* LookupChatID fails
    ChatOf,      \* the chat LookupChatID finds for the request's DeliverTo
    Confirms,    \* the requests of kind tool_confirm; the others are ask_user
    Questions,   \* the questions of a request: the kind of prompt each needs
    Handlers,    \* goroutines that handle one incoming tap or text at a time
    NoReq, NoBot

ASSUME ChatAssumption ==
    /\ NoChat \notin Chats
    /\ NoReq \notin Reqs
    /\ NoBot \notin Listeners
    /\ ChatOf \in [Reqs -> Chats \cup {NoChat}]
    /\ Confirms \subseteq Reqs
    /\ Questions \in [Reqs -> Seq({"pick", "text"})]
    /\ \A r \in Reqs \ Confirms : Len(Questions[r]) > 0

VARIABLES
    bot,         \* the listener of the running bot
    stopped,     \* listeners whose context is cancelled
    loop,        \* the loop goroutine of each listener
    cur,         \* l.cur: the prompt each chat waits on
    wakeup,      \* listeners whose wakeup channel holds its token
    asked,       \* the question of the request sent last, 0 before the first
    live,        \* requests whose state.message is not zeroMID
    selected,    \* state.selected
    answers,     \* state.answers, each as the question its author saw
    overlapped,  \* ghost: requests on which two handlers worked at a time
    hand         \* the handler goroutines

lisVars == <<bot, stopped, loop, cur, wakeup>>
promptVars == <<asked, live, selected, answers, overlapped>>
vars == <<regVars, lisVars, promptVars, hand>>

IdleHand == [pc |-> "idle", req |-> NoReq, q |-> 0, reply |-> Nothing,
             given |-> <<>>, lis |-> NoBot]

LoopPCs == {"off", "start", "clean", "pick", "send", "open", "wait", "exited"}
HandPCs == {"idle", "matched", "record", "next", "sending", "finalize",
            "resolve", "panic"}

LisTypeOK ==
    /\ bot \in Listeners \cup {NoBot}
    /\ stopped \subseteq Listeners
    /\ loop \in [Listeners -> [pc : LoopPCs, req : Reqs \cup {NoReq}]]
    /\ cur \in [Listeners -> [Chats -> Reqs \cup {NoReq}]]
    /\ wakeup \subseteq Listeners

PromptTypeOK ==
    /\ asked \in [Reqs -> Nat]
    /\ live \subseteq Reqs
    /\ selected \in [Reqs -> Nat]
    /\ answers \in [Reqs -> Seq(Nat)]
    /\ overlapped \subseteq Reqs

\* What a handler works on: the request, the question its user saw, and later
\* the reply it delivers with the answers given.
HandStates ==
    [pc : HandPCs, req : Reqs \cup {NoReq}, q : Nat,
     reply : Replies \cup {Nothing}, given : Seq(Nat), lis : Listeners \cup {NoBot}]

HandTypeOK == hand \in [Handlers -> HandStates]

TypeOK == RegTypeOK /\ LisTypeOK /\ PromptTypeOK /\ HandTypeOK

Init ==
    /\ RegInit
    /\ bot = NoBot
    /\ stopped = {}
    /\ loop = [l \in Listeners |-> [pc |-> "off", req |-> NoReq]]
    /\ cur = [l \in Listeners |-> [c \in Chats |-> NoReq]]
    /\ wakeup = {}
    /\ asked = [r \in Reqs |-> 0]
    /\ live = {}
    /\ selected = [r \in Reqs |-> 0]
    /\ answers = [r \in Reqs |-> <<>>]
    /\ overlapped = {}
    /\ hand = [h \in Handlers |-> IdleHand]

NumQuestions(r) == Len(Questions[r])

\* TypeAskText or TypeAskSecret: a plain message of the chat answers it.
IsText(r) ==
    /\ r \notin Confirms
    /\ asked[r] \in 1..NumQuestions(r)
    /\ Questions[r][asked[r]] = "text"

GoLoop(l, pc, r) == loop' = [loop EXCEPT ![l] = [pc |-> pc, req |-> r]]
GoHand(h, pc) == hand' = [hand EXCEPT ![h].pc = pc]

-----------------------------------------------------------------------------
(* The bot: New starts a listener, Close cancels it.  A reload is a Close   *)
(* followed by a New; the old loop may still be running then.               *)

NewBot(l) ==
    /\ bot = NoBot
    /\ loop[l].pc = "off"
    /\ bot' = l
    /\ GoLoop(l, "start", NoReq)
    /\ UNCHANGED <<regVars, stopped, cur, wakeup, promptVars, hand>>

\* Only for a reload: another listener object is left to take over.
CloseBot ==
    /\ bot # NoBot
    /\ \E l \in Listeners : loop[l].pc = "off"
    /\ bot' = NoBot
    /\ stopped' = stopped \cup {bot}
    /\ UNCHANGED <<regVars, loop, cur, wakeup, promptVars, hand>>

-----------------------------------------------------------------------------
(* The loop: register; then clean, emit until nothing can be picked, wait.  *)

Start(l) ==
    /\ loop[l].pc = "start"
    /\ Registered(l)
    /\ GoLoop(l, "clean", NoReq)
    /\ UNCHANGED <<bot, stopped, cur, wakeup, promptVars, hand>>

\* Variant for mutation checks: every prompt is taken for stale.
CleanAllCur(l) ==
    /\ loop[l].pc = "clean"
    /\ cur' = [cur EXCEPT ![l] = [c \in Chats |-> NoReq]]
    /\ GoLoop(l, "pick", NoReq)
    /\ UNCHANGED <<regVars, bot, stopped, wakeup, promptVars, hand>>

CleanStaleCur(l) ==
    /\ loop[l].pc = "clean"
    /\ cur' = [cur EXCEPT ![l] =
                 [c \in Chats |-> IF cur[l][c] \in Reqs /\ entry[cur[l][c]] = "absent"
                                  THEN NoReq ELSE cur[l][c]]]
    /\ GoLoop(l, "pick", NoReq)
    /\ UNCHANGED <<regVars, bot, stopped, wakeup, promptVars, hand>>

\* Variant for mutation checks: a busy chat is accepted.
AcceptedBusy(l) == Reqs

\* `accept`: the chat is free, or the chat cannot be found (sendPrompt fails it).
Accepted(l) == {r \in Reqs : ChatOf[r] = NoChat \/ cur[l][ChatOf[r]] = NoReq}

Pick(l) ==
    /\ loop[l].pc = "pick"
    /\ \E r \in Reqs :
          /\ IsOldest(r, Pickable(l, Accepted(l)))
          /\ Claimed(r)
          /\ GoLoop(l, "send", r)
    /\ UNCHANGED <<bot, stopped, cur, wakeup, promptVars, hand>>

NothingToPick(l) ==
    /\ loop[l].pc = "pick"
    /\ Pickable(l, Accepted(l)) = {}
    /\ GoLoop(l, "wait", NoReq)
    /\ UNCHANGED <<regVars, bot, stopped, cur, wakeup, promptVars, hand>>

\* The prompt goes out; `cur` is set only after the send returned (SetCur).
\* A sync request whose context ended since the pick is not sent.
SendPrompt(l) ==
    LET r == loop[l].req IN
    /\ loop[l].pc = "send"
    /\ r \notin ctxDone /\ ChatOf[r] # NoChat
    /\ asked' = [asked EXCEPT ![r] = 1]
    /\ live' = live \cup {r}
    /\ GoLoop(l, "open", r)
    /\ UNCHANGED <<regVars, bot, stopped, cur, wakeup, selected, answers, overlapped, hand>>

\* The context ended, no chat was found, or the transport failed.
FailPrompt(l) ==
    LET r == loop[l].req IN
    /\ loop[l].pc = "send"
    /\ Resolved(r, "error")
    /\ GoLoop(l, "pick", NoReq)
    /\ UNCHANGED <<bot, stopped, cur, wakeup, promptVars, hand>>

SetCur(l) ==
    LET r == loop[l].req IN
    /\ loop[l].pc = "open"
    /\ cur' = [cur EXCEPT ![l][ChatOf[r]] = r]
    /\ GoLoop(l, "pick", NoReq)
    /\ UNCHANGED <<regVars, bot, stopped, wakeup, promptVars, hand>>

OnNotify(l) ==
    /\ loop[l].pc = "wait"
    /\ TakeToken(l)
    /\ GoLoop(l, "clean", NoReq)
    /\ UNCHANGED <<bot, stopped, cur, wakeup, promptVars, hand>>

OnWakeup(l) ==
    /\ loop[l].pc = "wait"
    /\ l \in wakeup
    /\ wakeup' = wakeup \ {l}
    /\ GoLoop(l, "clean", NoReq)
    /\ UNCHANGED <<regVars, bot, stopped, cur, promptVars, hand>>

Exit(l) ==
    /\ loop[l].pc = "wait"
    /\ l \in stopped
    /\ Unregistered(l)
    /\ GoLoop(l, "exited", NoReq)
    /\ UNCHANGED <<bot, stopped, cur, wakeup, promptVars, hand>>

-----------------------------------------------------------------------------
(* A tap (OnCallback) or a text (OnText): the check of `cur` is under l.mu, *)
(* everything after it is not.                                              *)

Match(h, r) ==
    /\ hand' = [hand EXCEPT ![h] = [IdleHand EXCEPT !.pc = "matched", !.req = r,
                                                    !.q = asked[r], !.lis = bot]]
    /\ overlapped' = IF \E g \in Handlers : hand[g].req = r
                     THEN overlapped \cup {r} ELSE overlapped
    /\ UNCHANGED <<asked, live, selected, answers>>

\* The tapped message is the one state.message holds; any other is a miss.
OnCallback(h, c) ==
    /\ bot # NoBot
    /\ hand[h].pc = "idle"
    /\ cur[bot][c] \in live
    /\ Match(h, cur[bot][c])
    /\ UNCHANGED <<regVars, lisVars>>

\* A text names no message: any text of the chat answers the open question.
OnText(h, c) ==
    /\ bot # NoBot
    /\ hand[h].pc = "idle"
    /\ cur[bot][c] # NoReq /\ IsText(cur[bot][c])
    /\ Match(h, cur[bot][c])
    /\ UNCHANGED <<regVars, lisVars>>

\* deletePrompt.  A confirm goes on to finalize with its reply (Yes or No are
\* answers, Stop is an error), a question to its answer.
DeletePrompt(h) ==
    LET r == hand[h].req IN
    /\ hand[h].pc = "matched"
    /\ live' = live \ {r}
    /\ \/ /\ r \in Confirms
          /\ \E v \in Replies :
                hand' = [hand EXCEPT ![h].pc = "finalize", ![h].reply = v]
       \/ r \notin Confirms /\ GoHand(h, "record")
    /\ UNCHANGED <<regVars, lisVars, asked, selected, answers, overlapped>>

\* What a handler does after state.selected++ : ask the next question or end.
AfterRecord(h, n, as) ==
    IF n >= NumQuestions(hand[h].req)
    THEN [hand[h] EXCEPT !.pc = "finalize", !.reply = "answer", !.given = as]
    ELSE [hand[h] EXCEPT !.pc = "next"]

\* state.answers = append(...); state.selected++ ; the test of advance.
Record(h) ==
    LET r == hand[h].req
        as == Append(answers[r], hand[h].q)
        n == selected[r] + 1
    IN
    /\ hand[h].pc = "record"
    /\ answers' = [answers EXCEPT ![r] = as]
    /\ selected' = [selected EXCEPT ![r] = n]
    /\ hand' = [hand EXCEPT ![h] = AfterRecord(h, n, as)]
    /\ UNCHANGED <<regVars, lisVars, asked, live, overlapped>>

\* Two handlers race on the unlocked fields and one update is lost: the
\* outcomes a data race adds to the two serial orders.
RacyRecord(g, h) ==
    LET r == hand[h].req IN
    /\ g # h
    /\ hand[g].pc = "record" /\ hand[h].pc = "record" /\ hand[g].req = r
    /\ \E n \in 1..2, as \in {Append(answers[r], hand[g].q),
                              Append(answers[r], hand[h].q)} :
          /\ answers' = [answers EXCEPT ![r] = as]
          /\ selected' = [selected EXCEPT ![r] = selected[r] + n]
          /\ hand' = [hand EXCEPT ![g] = AfterRecord(g, selected[r] + n, as),
                                  ![h] = AfterRecord(h, selected[r] + n, as)]
    /\ UNCHANGED <<regVars, lisVars, asked, live, overlapped>>

\* Variant for mutation checks: the question just answered is asked again.
AskSame(h) ==
    LET r == hand[h].req IN
    /\ hand[h].pc = "next"
    /\ hand' = [hand EXCEPT ![h].pc = "sending", ![h].q = selected[r]]
    /\ UNCHANGED <<regVars, lisVars, promptVars>>

\* askNext reads state.questions[state.selected]: out of range if another
\* handler moved `selected` on since the test.
AskNext(h) ==
    LET r == hand[h].req IN
    /\ hand[h].pc = "next"
    /\ hand' = [hand EXCEPT ![h] =
                  IF selected[r] < NumQuestions(r)
                  THEN [@ EXCEPT !.pc = "sending", !.q = selected[r] + 1]
                  ELSE [@ EXCEPT !.pc = "panic"]]
    /\ UNCHANGED <<regVars, lisVars, promptVars>>

NextSent(h) ==
    LET r == hand[h].req IN
    /\ hand[h].pc = "sending"
    /\ asked' = [asked EXCEPT ![r] = hand[h].q]
    /\ live' = live \cup {r}
    /\ hand' = [hand EXCEPT ![h] = IdleHand]
    /\ UNCHANGED <<regVars, lisVars, selected, answers, overlapped>>

NextFailed(h) ==
    /\ hand[h].pc = "sending"
    /\ hand' = [hand EXCEPT ![h].pc = "finalize", ![h].reply = "error"]
    /\ UNCHANGED <<regVars, lisVars, promptVars>>

\* Variant for mutation checks: the chat is freed whatever it waits on.
FinalizeAny(h) ==
    /\ hand[h].pc = "finalize"
    /\ cur' = [cur EXCEPT ![hand[h].lis][ChatOf[hand[h].req]] = NoReq]
    /\ GoHand(h, "resolve")
    /\ UNCHANGED <<regVars, bot, stopped, loop, wakeup, promptVars>>

\* finalize: the chat is freed under l.mu if it still waits on this prompt ...
Finalize(h) ==
    LET r == hand[h].req  l == hand[h].lis  c == ChatOf[r] IN
    /\ hand[h].pc = "finalize"
    /\ cur' = IF cur[l][c] = r THEN [cur EXCEPT ![l][c] = NoReq] ELSE cur
    /\ GoHand(h, "resolve")
    /\ UNCHANGED <<regVars, bot, stopped, loop, wakeup, promptVars>>

\* Variant for mutation checks: the loop is not woken.
ResolveSilently(h) ==
    /\ hand[h].pc = "resolve"
    /\ Resolved(hand[h].req, hand[h].reply)
    /\ hand' = [hand EXCEPT ![h] = IdleHand]
    /\ UNCHANGED <<bot, stopped, loop, cur, wakeup, promptVars>>

\* ... then the reply is delivered ...
ResolveReply(h) ==
    /\ hand[h].pc = "resolve"
    /\ Resolved(hand[h].req, hand[h].reply)
    /\ wakeup' = wakeup \cup {hand[h].lis}        \* ... and the loop woken
    /\ hand' = [hand EXCEPT ![h] = IdleHand]
    /\ UNCHANGED <<bot, stopped, loop, cur, promptVars>>

-----------------------------------------------------------------------------
LoopStep(l) ==
    \/ Start(l) \/ CleanStaleCur(l) \/ Pick(l) \/ NothingToPick(l)
    \/ SendPrompt(l) \/ FailPrompt(l) \/ SetCur(l)
    \/ OnNotify(l) \/ OnWakeup(l) \/ Exit(l)

HandlerStep(h) ==
    \/ DeletePrompt(h) \/ Record(h) \/ AskNext(h) \/ NextSent(h) \/ NextFailed(h)
    \/ Finalize(h) \/ ResolveReply(h)

Panicked == \E h \in Handlers : hand[h].pc = "panic"

\* Nothing more can come: every caller has returned and every claim is settled.
Quiet ==
    /\ \A r \in Reqs : asker[r] = "returned" /\ entry[r] = "absent"
    /\ \A h \in Handlers : hand[h].pc = "idle"
    /\ \A l \in Listeners : loop[l].pc \in {"off", "wait", "exited"}
    /\ UNCHANGED vars

\* A panic of a handler goroutine ends the daemon: nothing follows it.
Next ==
    /\ ~Panicked
    /\ \/ AskerStep /\ UNCHANGED <<lisVars, promptVars, hand>>
       \/ CloseBot
       \/ \E l \in Listeners : NewBot(l) \/ LoopStep(l)
       \/ \E h \in Handlers : HandlerStep(h)
       \/ \E h \in Handlers, c \in Chats : OnCallback(h, c) \/ OnText(h, c)
       \/ \E g, h \in Handlers : RacyRecord(g, h)
       \/ Quiet

Spec == Init /\ [][Next]_vars

(* Fairness.  Goroutines that can run do run; the transport's calls return  *)
(* (with an error, at worst); a deadline passes; the users of a chat answer *)
(* a prompt its asker still waits for, and need not touch one it gave up.   *)
Fairness ==
    /\ \A r \in Reqs : WF_vars(/\ Stamp(r) \/ Insert(r) \/ Signal(r) \/ Return(r)
                               /\ UNCHANGED <<lisVars, promptVars, hand>>)
    /\ \A r \in Reqs : WF_vars(EndContext(r) /\ UNCHANGED <<lisVars, promptVars, hand>>)
    /\ \A l \in Listeners : WF_vars(NewBot(l) \/ LoopStep(l))
    /\ \A h \in Handlers : WF_vars(HandlerStep(h))
    /\ \A c \in Chats : WF_vars(/\ bot # NoBot /\ cur[bot][c] # NoReq
                                /\ Owed(cur[bot][c])
                                /\ \E h \in Handlers : OnCallback(h, c) \/ OnText(h, c))

FairSpec == Spec /\ Fairness

-----------------------------------------------------------------------------
(* Properties.                                                              *)

\* An Ask returns once and an AskUser callback runs at most once, whatever the
\* number of taps, expiries, drops and reloads that race on the entry.
AtMostOneResult == \A r \in Reqs : Len(outcome[r]) <= 1

\* The goroutine that will open, keep open or settle a claimed request.
HeldByLoop(r) == \E l \in Listeners : loop[l].req = r
HeldByHand(r) == \E h \in Handlers : hand[h].req = r
Waiting(r) == /\ bot # NoBot /\ ChatOf[r] # NoChat
              /\ cur[bot][ChatOf[r]] = r
              /\ r \in live \/ IsText(r)

\* What a reload leaves behind: the closed bot's listener sent it, or is
\* sending it, and the taps of the chat now go to the new one.
LeftBehind(r) == \E l \in stopped : loop[l].req = r \/ \E c \in Chats : cur[l][c] = r

\* A claim is never stranded: while the caller of a claimed request is owed a
\* reply, the loop or a handler is at work on it or a tap of its chat reaches
\* it.  (`claimed` is never reset, so a lost claim could not be picked again.)
\* Only a reload strands claims.
NoStrandedClaim ==
    \A r \in Reqs : Owed(r) /\ entry[r] = "claimed" =>
                        HeldByLoop(r) \/ HeldByHand(r) \/ Waiting(r) \/ LeftBehind(r)

\* On the chat's screen, answerable as far as its user can see, not yet settled.
OnScreen(r) == /\ Owed(r) /\ entry[r] = "claimed" /\ asked[r] > 0
               /\ ~\E h \in Handlers : hand[h].req = r /\ hand[h].pc = "resolve"

\* Two prompts of the running bot never wait on one chat at a time: a text,
\* which names no prompt, could then answer the wrong one.
OnePromptPerChat ==
    \A r, s \in Reqs : /\ OnScreen(r) /\ OnScreen(s)
                       /\ ~LeftBehind(r) /\ ~LeftBehind(s)
                       /\ ChatOf[r] = ChatOf[s]
                       => r = s

\* The answers handed to the asker are one per question, each given by a user
\* who was looking at that question, and no handler asks past the last question
\* - unless two taps or texts on that very prompt were handled at a time, which
\* nothing in the listener prevents.  Taps on other prompts, texts that name no
\* prompt, expiries, drops and reloads may come at any moment.
AnswersMatchQuestions ==
    \A h \in Handlers :
        hand[h].req \in Reqs \ (Confirms \cup overlapped) =>
            /\ hand[h].pc # "panic"
            /\ hand[h].pc \in {"finalize", "resolve"} /\ hand[h].reply = "answer" =>
                  hand[h].given = [i \in 1..NumQuestions(hand[h].req) |-> i]

\* A queued prompt does not wait behind its chat forever: it is shown, or its
\* caller gives up, or a resume drops it.
EveryPromptShown == \A r \in Reqs : entry[r] = "queued" ~> entry[r] # "queued"

\* Every prompt of a chat whose users answer is settled.
EveryPromptSettled ==
    \A r \in Reqs : entry[r] # "absent" ~> entry[r] = "absent"

-----------------------------------------------------------------------------
(* Refinement: the phase of each request as PromptDesk sees it.             *)

Settling(r) == \E h \in Handlers : hand[h].req = r /\ hand[h].pc = "resolve"

Phase(r) ==
    IF outcome[r] = <<"answer">> THEN "answered"
    ELSE IF outcome[r] = <<"error">> THEN "failed"
    ELSE IF outcome[r] = <<"ctx">> THEN "withdrawn"
    ELSE IF asker[r] \in {"idle", "stamped"} THEN "absent"
    \* Dropped: an async request ends there, a waiter until its context ends.
    ELSE IF entry[r] = "absent" THEN IF r \in Async THEN "withdrawn" ELSE "closing"
    ELSE IF entry[r] = "queued" THEN "queued"
    ELSE IF replyCh[r] # Nothing \/ Settling(r) \/ LeftBehind(r) THEN "closing"
    ELSE "open"

PhaseOf == [r \in Reqs |-> Phase(r)]

Desk == INSTANCE PromptDesk WITH
            Windows <- Chats, WindowOf <- ChatOf, NoWindow <- NoChat,
            status <- PhaseOf

\* Whatever taps, expiries, drops and reloads race, the prompts follow
\* PromptDesk: one open prompt per chat, one result per request, and what the
\* listener of a closed bot claimed never comes back to the screen.
ImplementsPromptDesk == Desk!Spec
=============================================================================
