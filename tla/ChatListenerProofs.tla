-------------------------- MODULE ChatListenerProofs --------------------------
(***************************************************************************)
(* Theorems about ChatListener, for every set of requests, listeners,      *)
(* chats and handlers: the invariants are proved in layers, types, then    *)
(* who holds a request, then what a claim still waits for.                 *)
(* And about Dialogs, for every catalog of providers and servers: what the *)
(* connections hold of the tokens; then the pages as a stack, the draft of *)
(* a server as the choices on the pages before say it, and the draft of a  *)
(* model with the lists that are fetched for it.                           *)
(***************************************************************************)
EXTENDS ChatListener, Dialogs, SequenceTheorems, WellFoundedInduction, TLAPS

\* What any step does to the registry's variables.
RegistryOp ==
    \/ AskerStep
    \/ \E r \in Reqs : Claimed(r) /\ entry[r] = "queued"
    \/ \E r \in Reqs, v \in Replies : Resolved(r, v)
    \/ \E l \in Listeners : Registered(l) \/ Unregistered(l) \/ TakeToken(l)
    \/ UNCHANGED regVars

\* The registry's part of an action keeps the registry's types.
LEMMA RegistryType ==
    ASSUME RegTypeOK, RegistryOp
    PROVE  RegTypeOK'
<1> USE RegistryAssumption DEF RegTypeOK, Replies, Nothing
<1>1. CASE \E r \in Reqs : Stamp(r)  BY <1>1 DEF Stamp
<1>2. CASE \E r \in Reqs : Insert(r)  BY <1>2 DEF Insert
<1>3. CASE \E r \in Reqs : Signal(r)  BY <1>3 DEF Signal
<1>4. CASE \E r \in Reqs : EndContext(r)  BY <1>4 DEF EndContext
<1>5. CASE \E r \in Reqs : Return(r)
  <2> PICK r \in Reqs : Return(r)  BY <1>5
  <2>1. PICK v \in Results : outcome' = [outcome EXCEPT ![r] = Append(@, v)]
    BY DEF Return, Results
  <2>2. outcome' \in [Reqs -> Seq(Results)]  BY <2>1, AppendProperties
  <2> QED  BY <2>2 DEF Return
<1>6. CASE \E t \in Tasks : DropTask(t)  BY <1>6 DEF DropTask
<1>7. CASE \E r \in Reqs : Claimed(r)  BY <1>7 DEF Claimed
<1>8. CASE \E r \in Reqs, v \in Replies : Resolved(r, v)
  <2> PICK r \in Reqs, v \in Replies : Resolved(r, v)  BY <1>8
  <2>1. v \in Results  BY DEF Results
  <2>2. Append(outcome[r], v) \in Seq(Results)  BY <2>1, AppendProperties
  <2>3. outcome' = outcome \/ outcome' = [outcome EXCEPT ![r] = Append(@, v)]
    BY DEF Resolved
  <2>4. outcome' \in [Reqs -> Seq(Results)]  BY <2>2, <2>3
  <2> QED  BY <2>4 DEF Resolved
<1>9. CASE \E l \in Listeners : Registered(l)  BY <1>9 DEF Registered
<1>10. CASE \E l \in Listeners : Unregistered(l)  BY <1>10 DEF Unregistered
<1>11. CASE \E l \in Listeners : TakeToken(l)  BY <1>11 DEF TakeToken
<1>12. CASE UNCHANGED regVars  BY <1>12 DEF regVars
<1> QED  BY <1>1, <1>2, <1>3, <1>4, <1>5, <1>6, <1>7, <1>8, <1>9, <1>10,
            <1>11, <1>12 DEF AskerStep, RegistryOp

-----------------------------------------------------------------------------
\* In the steps that need it, a handler has a request, a listener, a chat and
\* a reply to work on ...
GoodHand(x) ==
    /\ x \in HandStates
    /\ x.pc # "idle" => /\ x.req \in Reqs
                        /\ x.lis \in Listeners
                        /\ ChatOf[x.req] \in Chats
    /\ x.pc = "idle" => x.req = NoReq
    /\ x.pc \in {"finalize", "resolve"} => x.reply \in Replies

\* ... and a loop has a request and a chat.
Working ==
    /\ \A l \in Listeners :
          /\ loop[l].pc \in {"send", "open"} => loop[l].req \in Reqs
          /\ loop[l].pc = "open" => ChatOf[loop[l].req] \in Chats
    /\ \A l \in Listeners, c \in Chats : cur[l][c] \in Reqs => ChatOf[cur[l][c]] = c
    /\ \A h \in Handlers : GoodHand(hand[h])

TypeInv == TypeOK /\ Working

\* The registry's part of every step of the system is one of its operations.
LEMMA RegistryStep ==
    ASSUME TypeInv, [Next]_vars
    PROVE  RegistryOp
<1> USE DEF RegistryOp
<1>1. ASSUME NEW l \in Listeners, LoopStep(l) PROVE RegistryOp
  <2>1. CASE Start(l)  BY <2>1 DEF Start
  <2>2. CASE Pick(l)  BY <2>2 DEF Pick, IsOldest, Pickable
  <2>3. CASE FailPrompt(l)
    BY <2>3 DEF FailPrompt, TypeInv, Working, Replies
  <2>4. CASE OnNotify(l)  BY <2>4 DEF OnNotify
  <2>5. CASE Exit(l)  BY <2>5 DEF Exit
  <2>6. CASE \/ CleanStaleCur(l) \/ NothingToPick(l) \/ SendPrompt(l)
             \/ SetCur(l) \/ OnWakeup(l)
    BY <2>6 DEF CleanStaleCur, NothingToPick, SendPrompt, SetCur, OnWakeup
  <2> QED  BY <1>1, <2>1, <2>2, <2>3, <2>4, <2>5, <2>6 DEF LoopStep
<1>2. ASSUME NEW h \in Handlers, HandlerStep(h) PROVE RegistryOp
  <2>1. CASE ResolveReply(h)
    BY <2>1 DEF ResolveReply, TypeInv, Working, GoodHand
  <2>2. CASE ~ResolveReply(h)
    BY <1>2, <2>2 DEF HandlerStep, DeletePrompt, Record, AskNext, NextSent,
                      NextFailed, Finalize
  <2> QED  BY <2>1, <2>2
<1>3. CASE AskerStep  BY <1>3
<1>4. CASE CloseBot \/ UNCHANGED vars
  BY <1>4 DEF CloseBot, vars
<1>5. ASSUME NEW l \in Listeners, NewBot(l) PROVE RegistryOp
  BY <1>5 DEF NewBot
<1>6. ASSUME NEW h \in Handlers, NEW c \in Chats, OnCallback(h, c) \/ OnText(h, c)
      PROVE  RegistryOp
  BY <1>6 DEF OnCallback, OnText
<1>7. ASSUME NEW g \in Handlers, NEW h \in Handlers, RacyRecord(g, h)
      PROVE  RegistryOp
  BY <1>7 DEF RacyRecord
<1> QED  BY <1>1, <1>2, <1>3, <1>4, <1>5, <1>6, <1>7 DEF Next, Quiet

LEMMA TypeInit == Init => TypeInv
<1> USE ChatAssumption, EmptySeq
        DEF Init, TypeInv, TypeOK, Working, GoodHand, HandStates, IdleHand,
            LoopPCs, HandPCs
<1>1. Init => RegTypeOK
  BY DEF RegInit, RegTypeOK, Nothing
<1>2. Init => LisTypeOK
  BY DEF LisTypeOK
<1>3. Init => PromptTypeOK
  BY DEF PromptTypeOK
<1>4. Init => HandTypeOK
  BY DEF HandTypeOK, Nothing
<1>5. Init => Working
  BY DEF Nothing
<1> QED  BY <1>1, <1>2, <1>3, <1>4, <1>5

LEMMA LoopType ==
    ASSUME TypeInv, RegTypeOK', NEW l \in Listeners, LoopStep(l)
    PROVE  TypeInv'
<1> USE ChatAssumption DEF TypeInv, TypeOK, LisTypeOK, PromptTypeOK, HandTypeOK,
        Working, GoLoop, LoopPCs, promptVars
<1>1. CASE Start(l)  BY <1>1 DEF Start
<1>2. CASE CleanStaleCur(l)  BY <1>2 DEF CleanStaleCur
<1>3. CASE Pick(l)  BY <1>3 DEF Pick
<1>4. CASE NothingToPick(l)  BY <1>4 DEF NothingToPick
<1>5. CASE SendPrompt(l)  BY <1>5 DEF SendPrompt
<1>6. CASE FailPrompt(l)  BY <1>6 DEF FailPrompt
<1>7. CASE SetCur(l)  BY <1>7 DEF SetCur
<1>8. CASE OnNotify(l)  BY <1>8 DEF OnNotify
<1>9. CASE OnWakeup(l)  BY <1>9 DEF OnWakeup
<1>10. CASE Exit(l)  BY <1>10 DEF Exit
<1> QED  BY <1>1, <1>2, <1>3, <1>4, <1>5, <1>6, <1>7, <1>8, <1>9, <1>10 DEF LoopStep

\* What a handler writes into its own record after state.selected++.
LEMMA AfterRecordGood ==
    ASSUME NEW h \in Handlers, GoodHand(hand[h]), hand[h].pc = "record",
           NEW n \in Nat, NEW as \in Seq(Nat)
    PROVE  /\ GoodHand(AfterRecord(h, n, as))
           /\ AfterRecord(h, n, as).pc \in {"next", "finalize"}
           /\ AfterRecord(h, n, as).req = hand[h].req
  BY DEF GoodHand, HandStates, HandPCs, AfterRecord, Replies

\* A step of one handler keeps the types when its new record is good.
LEMMA OneHand ==
    ASSUME TypeInv, NEW h \in Handlers, NEW x, GoodHand(x),
           hand' = [hand EXCEPT ![h] = x],
           RegTypeOK', PromptTypeOK',
           UNCHANGED <<bot, stopped, loop>>, wakeup' \subseteq Listeners,
           \/ UNCHANGED cur
           \/ \E l \in Listeners, c \in Chats : cur' = [cur EXCEPT ![l][c] = NoReq]
    PROVE  TypeInv'
<1> USE ChatAssumption DEF TypeInv, TypeOK, LisTypeOK, HandTypeOK, Working
<1>1. \A g \in Handlers : hand'[g] = IF g = h THEN x ELSE hand[g]
  OBVIOUS
<1>2. HandTypeOK'
  BY <1>1 DEF GoodHand
<1>3. \A g \in Handlers : GoodHand(hand'[g])
  BY <1>1
<1>4. LisTypeOK' /\ \A l \in Listeners, c \in Chats :
                        cur'[l][c] \in Reqs => ChatOf[cur'[l][c]] = c
  <2>1. CASE UNCHANGED cur
    BY <2>1
  <2>2. ASSUME NEW l \in Listeners, NEW c \in Chats,
               cur' = [cur EXCEPT ![l][c] = NoReq]
        PROVE  /\ cur' \in [Listeners -> [Chats -> Reqs \cup {NoReq}]]
               /\ \A k \in Listeners, d \in Chats : cur'[k][d] \in {cur[k][d], NoReq}
    BY <2>2
  <2>3. /\ cur' \in [Listeners -> [Chats -> Reqs \cup {NoReq}]]
        /\ \A k \in Listeners, d \in Chats : cur'[k][d] \in {cur[k][d], NoReq}
    BY <2>1, <2>2
  <2>4. LisTypeOK'  BY <2>3
  <2> QED  BY <2>3, <2>4
<1> QED  BY <1>2, <1>3, <1>4 DEF GoodHand

LEMMA HandType ==
    ASSUME TypeInv, RegTypeOK', NEW h \in Handlers, HandlerStep(h)
    PROVE  TypeInv'
<1> DEFINE r == hand[h].req
<1>0. hand \in [Handlers -> HandStates] /\ GoodHand(hand[h])
  BY DEF TypeInv, TypeOK, HandTypeOK, Working
<1> USE <1>0, ChatAssumption
        DEF TypeOK, LisTypeOK, PromptTypeOK, HandStates, GoodHand,
            HandPCs, GoHand, promptVars, lisVars
<1>1. CASE DeletePrompt(h)
  <2>1. PromptTypeOK' BY <1>1 DEF DeletePrompt, TypeInv
  <2>2. ASSUME NEW v \in Replies,
               hand' = [hand EXCEPT ![h].pc = "finalize", ![h].reply = v]
        PROVE  TypeInv'
    <3> DEFINE x == [hand[h] EXCEPT !.pc = "finalize", !.reply = v]
    <3>1. GoodHand(x)  BY <1>1 DEF DeletePrompt
    <3>2. hand' = [hand EXCEPT ![h] = x]  BY <2>2
    <3> HIDE DEF x
    <3> QED  BY <1>1, <2>1, <3>1, <3>2, OneHand DEF DeletePrompt, TypeInv
  <2>3. ASSUME GoHand(h, "record")
        PROVE  TypeInv'
    <3> DEFINE x == [hand[h] EXCEPT !.pc = "record"]
    <3>1. GoodHand(x)  BY <1>1 DEF DeletePrompt
    <3>2. hand' = [hand EXCEPT ![h] = x]  BY <2>3
    <3> HIDE DEF x
    <3> QED  BY <1>1, <2>1, <3>1, <3>2, OneHand DEF DeletePrompt, TypeInv
  <2> QED  BY <1>1, <2>2, <2>3 DEF DeletePrompt
<1>2. CASE Record(h)
  <2> DEFINE as == Append(answers[r], hand[h].q)
             n == selected[r] + 1
  <2>1. as \in Seq(Nat) /\ n \in Nat  BY <1>2, AppendProperties DEF Record, TypeInv
  <2> HIDE DEF as, n
  <2>2. /\ answers' = [answers EXCEPT ![r] = as]
        /\ selected' = [selected EXCEPT ![r] = n]
        /\ hand' = [hand EXCEPT ![h] = AfterRecord(h, n, as)]
        /\ UNCHANGED <<bot, stopped, loop, cur, wakeup, asked, live, overlapped>>
        /\ hand[h].pc = "record"
    BY <1>2 DEF Record, as, n
  <2>3. PromptTypeOK'  BY <2>1, <2>2 DEF TypeInv
  <2> QED  BY <2>1, <2>2, <2>3, AfterRecordGood, OneHand DEF TypeInv
<1>3. CASE AskNext(h)
  <2> DEFINE x == IF selected[r] < NumQuestions(r)
                  THEN [hand[h] EXCEPT !.pc = "sending", !.q = selected[r] + 1]
                  ELSE [hand[h] EXCEPT !.pc = "panic"]
  <2>1. hand' = [hand EXCEPT ![h] = x]
    BY <1>3 DEF AskNext
  <2>2. GoodHand([hand[h] EXCEPT !.pc = "panic"])
    BY <1>3 DEF AskNext
  <2>3. GoodHand([hand[h] EXCEPT !.pc = "sending", !.q = selected[r] + 1])
    <3>1. selected[r] + 1 \in Nat  BY <1>3 DEF AskNext, TypeInv
    <3> QED  BY <1>3, <3>1 DEF AskNext
  <2>4. GoodHand(x)
    BY <2>2, <2>3
  <2> HIDE DEF x
  <2> QED  BY <1>3, <2>1, <2>4, OneHand DEF AskNext, TypeInv
<1>4. CASE NextSent(h)
  <2>1. hand' = [hand EXCEPT ![h] = IdleHand] /\ GoodHand(IdleHand)
    BY <1>4, EmptySeq DEF NextSent, IdleHand, Nothing
  <2>2. PromptTypeOK' /\ UNCHANGED lisVars
    BY <1>4 DEF NextSent, TypeInv
  <2> HIDE DEF GoodHand
  <2> QED  BY <2>1, <2>2, OneHand DEF TypeInv
<1>5. CASE NextFailed(h)
  <2> DEFINE x == [hand[h] EXCEPT !.pc = "finalize", !.reply = "error"]
  <2>1. hand' = [hand EXCEPT ![h] = x] /\ GoodHand(x)
    BY <1>5 DEF NextFailed, Replies
  <2> HIDE DEF x
  <2> QED  BY <1>5, <2>1, OneHand DEF NextFailed, TypeInv
<1>6. CASE Finalize(h)
  <2> DEFINE x == [hand[h] EXCEPT !.pc = "resolve"]
  <2>1. hand' = [hand EXCEPT ![h] = x] /\ GoodHand(x)
    BY <1>6 DEF Finalize
  <2> HIDE DEF x
  <2> QED  BY <1>6, <2>1, OneHand DEF Finalize, TypeInv
<1>7. CASE ResolveReply(h)
  <2>1. hand' = [hand EXCEPT ![h] = IdleHand] /\ GoodHand(IdleHand)
    BY <1>7, EmptySeq DEF ResolveReply, IdleHand, Nothing
  <2>2. /\ PromptTypeOK' /\ wakeup' \subseteq Listeners
        /\ UNCHANGED <<bot, stopped, loop, cur>>
    BY <1>7 DEF ResolveReply, TypeInv
  <2> HIDE DEF GoodHand
  <2> QED  BY <2>1, <2>2, OneHand DEF TypeInv
<1> QED  BY <1>1, <1>2, <1>3, <1>4, <1>5, <1>6, <1>7 DEF HandlerStep

LEMMA TapType ==
    ASSUME TypeInv, RegTypeOK', NEW h \in Handlers, NEW c \in Chats,
           OnCallback(h, c) \/ OnText(h, c)
    PROVE  TypeInv'
<1> DEFINE r == cur[bot][c]
           x == [IdleHand EXCEPT !.pc = "matched", !.req = r, !.q = asked[r], !.lis = bot]
<1>1. /\ hand' = [hand EXCEPT ![h] = x]
      /\ UNCHANGED <<regVars, lisVars, asked, live, selected, answers>>
      /\ overlapped' \in {overlapped, overlapped \cup {r}}
  BY DEF OnCallback, OnText, Match
<1>2. r \in Reqs /\ bot \in Listeners /\ ChatOf[r] \in Chats /\ asked[r] \in Nat
  BY ChatAssumption
     DEF OnCallback, OnText, TypeInv, TypeOK, LisTypeOK, PromptTypeOK, Working
<1> HIDE DEF r
<1>3. GoodHand(x)
  BY <1>2, EmptySeq DEF GoodHand, HandStates, HandPCs, IdleHand
<1> HIDE DEF x
<1>4. PromptTypeOK'
  BY <1>1, <1>2 DEF PromptTypeOK, TypeInv, TypeOK
<1> QED
  BY <1>1, <1>3, <1>4, OneHand DEF lisVars, TypeInv, TypeOK, LisTypeOK

LEMMA RacyType ==
    ASSUME TypeInv, RegTypeOK', NEW g \in Handlers, NEW h \in Handlers,
           RacyRecord(g, h)
    PROVE  TypeInv'
<1> DEFINE r == hand[h].req
<1>1. PICK n \in 1..2, as \in {Append(answers[r], hand[g].q),
                               Append(answers[r], hand[h].q)} :
          /\ answers' = [answers EXCEPT ![r] = as]
          /\ selected' = [selected EXCEPT ![r] = selected[r] + n]
          /\ hand' = [hand EXCEPT ![g] = AfterRecord(g, selected[r] + n, as),
                                  ![h] = AfterRecord(h, selected[r] + n, as)]
  BY DEF RacyRecord
<1>2. /\ hand[g].pc = "record" /\ hand[h].pc = "record"
      /\ UNCHANGED <<regVars, bot, stopped, loop, cur, wakeup, asked, live, overlapped>>
  BY DEF RacyRecord, lisVars
<1>3. /\ GoodHand(hand[g]) /\ GoodHand(hand[h])
      /\ r \in Reqs
      /\ answers[r] \in Seq(Nat) /\ selected[r] \in Nat
      /\ hand[g].q \in Nat /\ hand[h].q \in Nat
  BY <1>2 DEF TypeInv, TypeOK, PromptTypeOK, Working, GoodHand, HandStates
<1>4. as \in Seq(Nat) /\ selected[r] + n \in Nat
  <2>1. /\ Append(answers[r], hand[g].q) \in Seq(Nat)
        /\ Append(answers[r], hand[h].q) \in Seq(Nat)
    BY <1>3, AppendProperties
  <2>2. selected[r] + n \in Nat
    BY <1>3
  <2> QED  BY <2>1, <2>2
<1> DEFINE x == AfterRecord(g, selected[r] + n, as)
           y == AfterRecord(h, selected[r] + n, as)
<1>5. GoodHand(x) /\ GoodHand(y)
  BY <1>2, <1>3, <1>4, AfterRecordGood
<1> HIDE DEF x, y, r
<1>6. \A k \in Handlers : hand'[k] = IF k = h THEN y ELSE IF k = g THEN x ELSE hand[k]
  BY <1>1 DEF x, y, TypeInv, TypeOK, HandTypeOK
<1>7. \A k \in Handlers : GoodHand(hand'[k])
  BY <1>5, <1>6 DEF TypeInv, Working
<1>8. HandTypeOK'
  <2>1. hand' \in [Handlers -> HandStates]
    BY <1>1, <1>5 DEF x, y, GoodHand, TypeInv, TypeOK, HandTypeOK
  <2> QED  BY <2>1 DEF HandTypeOK
<1>9. PromptTypeOK'
  BY <1>1, <1>2, <1>4 DEF PromptTypeOK, TypeInv, TypeOK
<1> QED
  BY <1>2, <1>7, <1>8, <1>9 DEF TypeInv, TypeOK, LisTypeOK, Working, GoodHand

LEMMA TypeStep == TypeInv /\ [Next]_vars => TypeInv'
<1> SUFFICES ASSUME TypeInv, [Next]_vars PROVE TypeInv'
  OBVIOUS
<1>1. RegTypeOK'
  BY RegistryStep, RegistryType DEF TypeInv, TypeOK
<1> USE <1>1 DEF TypeInv, TypeOK, LisTypeOK, PromptTypeOK, HandTypeOK, Working, GoodHand
<1>2. CASE AskerStep /\ UNCHANGED <<lisVars, promptVars, hand>>
  BY <1>2 DEF lisVars, promptVars
<1>3. CASE CloseBot
  BY <1>3 DEF CloseBot, promptVars
<1>4. ASSUME NEW l \in Listeners, NewBot(l) PROVE TypeInv'
  BY <1>4, ChatAssumption DEF NewBot, GoLoop, LoopPCs, promptVars
<1>5. CASE UNCHANGED vars
  BY <1>5 DEF vars, lisVars, promptVars
<1> QED
  BY <1>2, <1>3, <1>4, <1>5, LoopType, HandType, TapType, RacyType DEF Next, Quiet

\* Every variable keeps its type, and so a reply that reaches a caller is an
\* answer or an error and never a raw context value.
THEOREM TypeCorrect == Spec => []TypeOK
<1>1. Spec => []TypeInv
  BY TypeInit, TypeStep, PTL DEF Spec
<1> QED  BY <1>1, PTL DEF TypeInv

-----------------------------------------------------------------------------
(* Who holds a request.                                                     *)

\* A result is given only once the request has left the map for good (async),
\* or by the return of its Ask (sync).
GoodResult(r) ==
    /\ asker[r] \in {"idle", "stamped"} => entry[r] = "absent"
    /\ r \in Async => asker[r] # "waiting"
    /\ outcome[r] # <<>> =>
          IF r \in Async THEN entry[r] = "absent" /\ asker[r] \notin {"idle", "stamped"}
                         ELSE asker[r] = "returned"
    /\ Len(outcome[r]) <= 1

ResultInv == \A r \in Reqs : GoodResult(r)

\* Not in the map yet, or in it and not claimed: no loop, chat or handler knows
\* such a request.
Fresh(r) == asker[r] \in {"idle", "stamped"} \/ entry[r] = "queued"

Untouched(r) ==
    /\ \A l \in Listeners : loop[l].req # r
    /\ \A l \in Listeners, c \in Chats : cur[l][c] # r
    /\ \A h \in Handlers : hand[h].req # r

\* Between the pick and the SetCur the loop has the request to itself, and the
\* chat it goes to is kept free.
Sending(l, r) ==
    /\ \A k \in Listeners : loop[k].req = r => k = l
    /\ \A k \in Listeners, c \in Chats : cur[k][c] # r
    /\ \A h \in Handlers : hand[h].req # r
    /\ ChatOf[r] \in Chats => cur[l][ChatOf[r]] = NoReq
    /\ loop[l].pc = "open" => r \in live

HoldInv ==
    /\ \A r \in Reqs : Fresh(r) => Untouched(r)
    /\ \A l \in Listeners :
          /\ loop[l].req \in Reqs => /\ loop[l].pc \in {"send", "open"}
                                     /\ Sending(l, loop[l].req)
          /\ loop[l].pc # "off" => l = bot \/ l \in stopped
          /\ \A c \in Chats : cur[l][c] \in Reqs => loop[l].pc # "off"
    /\ \A r \in Reqs : asked[r] > 0 => ChatOf[r] \in Chats

\* In the map, with nothing decided: a request that is owed a reply, or was when
\* its context ended.
Unsettled(r) == entry[r] # "absent" /\ replyCh[r] = Nothing

\* A claim that is not settled is held by a loop, by its chat, or is being settled;
\* in its chat it can be tapped or a handler is at work on it.
GoodClaim(r) ==
    Unsettled(r) =>
      /\ entry[r] = "claimed" /\ ~Settling(r)
         => \/ HeldByLoop(r)
            \/ ChatOf[r] \in Chats /\ \E l \in Listeners : cur[l][ChatOf[r]] = r
      /\ (\E l \in Listeners, c \in Chats : cur[l][c] = r)
         => r \in live \/ HeldByHand(r)

ClaimInv == \A r \in Reqs : GoodClaim(r)

-----------------------------------------------------------------------------
\* One more result on an empty list is one result.
LEMMA FirstResult ==
    ASSUME RegTypeOK, NEW r \in Reqs, NEW v \in Results, outcome[r] = <<>>
    PROVE  Len(Append(outcome[r], v)) = 1
<1>1. outcome[r] \in Seq(Results) /\ Len(outcome[r]) = 0
  BY DEF RegTypeOK
<1> QED  BY <1>1, AppendProperties

LEMMA ResultRegistry ==
    ASSUME RegTypeOK, ResultInv, RegistryOp
    PROVE  ResultInv'
<1>0. /\ asker \in [Reqs -> {"idle", "stamped", "entered", "waiting", "returned"}]
      /\ entry \in [Reqs -> {"absent", "queued", "claimed"}]
      /\ outcome \in [Reqs -> Seq(Results)]
      /\ replyCh \in [Reqs -> Replies \cup {Nothing}]
  BY DEF RegTypeOK
<1> USE <1>0, RegistryAssumption DEF GoodResult
<1>1. CASE \E r \in Reqs : Stamp(r)  BY <1>1 DEF ResultInv, Stamp
<1>2. CASE \E r \in Reqs : Insert(r)  BY <1>2 DEF ResultInv, Insert
<1>3. CASE \E r \in Reqs : Signal(r)  BY <1>3 DEF ResultInv, Signal
<1>4. CASE \E r \in Reqs : EndContext(r)  BY <1>4 DEF ResultInv, EndContext
<1>5. CASE \E r \in Reqs : Return(r)
  <2> PICK r \in Reqs : Return(r)  BY <1>5
  <2>1. PICK v \in Results : outcome' = [outcome EXCEPT ![r] = Append(@, v)]
    BY DEF Return, Results
  <2>2. /\ r \notin Async /\ outcome[r] = <<>>
        /\ asker' = [asker EXCEPT ![r] = "returned"]
        /\ entry' = [entry EXCEPT ![r] = "absent"]
    BY DEF Return, ResultInv
  <2>3. Len(outcome'[r]) = 1
    BY <2>1, <2>2, FirstResult
  <2>4. \A s \in Reqs : s # r => outcome'[s] = outcome[s]
    BY <2>1
  <2>5. GoodResult(r)'
    BY <2>2, <2>3
  <2>6. \A s \in Reqs : s # r => GoodResult(s)'
    BY <2>2, <2>4 DEF ResultInv
  <2> QED  BY <2>5, <2>6 DEF ResultInv
<1>6. CASE \E t \in Tasks : DropTask(t)  BY <1>6 DEF ResultInv, DropTask
<1>7. CASE \E r \in Reqs : Claimed(r) /\ entry[r] = "queued"
  BY <1>7 DEF ResultInv, Claimed
<1>8. CASE \E r \in Reqs, v \in Replies : Resolved(r, v)
  <2> PICK r \in Reqs, v \in Replies : Resolved(r, v)  BY <1>8
  <2>0. \A s \in Reqs : /\ s # r \/ s \notin Async => entry'[s] = entry[s]
                        /\ s \in Async /\ s = r => entry'[s] = "absent"
    BY DEF Resolved
  <2>1. CASE r \in Async /\ entry[r] # "absent"
    <3>1. outcome' = [outcome EXCEPT ![r] = Append(@, v)] /\ UNCHANGED asker
      BY <2>1 DEF Resolved
    <3>2. outcome[r] = <<>> /\ asker[r] \notin {"idle", "stamped"}
      BY <2>1 DEF ResultInv
    <3>3. Len(outcome'[r]) = 1
      BY <3>1, <3>2, FirstResult DEF Results
    <3>4. \A s \in Reqs : s # r => outcome'[s] = outcome[s]
      BY <3>1
    <3> QED  BY <2>0, <2>1, <3>1, <3>2, <3>3, <3>4 DEF ResultInv
  <2>2. CASE ~(r \in Async /\ entry[r] # "absent")
    <3>1. UNCHANGED <<outcome, asker, entry>>
      BY <2>2 DEF Resolved
    <3> QED  BY <3>1 DEF ResultInv
  <2> QED  BY <2>1, <2>2
<1>9. CASE \E l \in Listeners : Registered(l) \/ Unregistered(l) \/ TakeToken(l)
  BY <1>9 DEF ResultInv, Registered, Unregistered, TakeToken
<1>10. CASE UNCHANGED regVars  BY <1>10 DEF ResultInv, regVars
<1> QED  BY <1>1, <1>2, <1>3, <1>4, <1>5, <1>6, <1>7, <1>8, <1>9, <1>10 DEF AskerStep, RegistryOp

\* An Ask returns once and a callback runs at most once, however many taps,
\* expiries, drops and reloads race.
THEOREM OneResult == Spec => []AtMostOneResult
<1>1. Init => ResultInv
  BY DEF Init, RegInit, ResultInv, GoodResult
<1>2. TypeInv /\ ResultInv /\ [Next]_vars => ResultInv'
  BY RegistryStep, ResultRegistry DEF TypeInv, TypeOK
<1>3. ResultInv => AtMostOneResult
  BY DEF ResultInv, GoodResult, AtMostOneResult
<1> QED  BY TypeInit, TypeStep, <1>1, <1>2, <1>3, PTL DEF Spec

-----------------------------------------------------------------------------
\* A request never becomes fresh again, and a claim ends its freshness.
LEMMA FreshOnce ==
    ASSUME TypeInv, ResultInv, [Next]_vars
    PROVE  /\ \A r \in Reqs : Fresh(r)' => Fresh(r)
           /\ \A r \in Reqs : Claimed(r) /\ entry[r] = "queued" => Fresh(r) /\ ~Fresh(r)'
<1> USE RegistryAssumption DEF Fresh
<1>0. /\ asker \in [Reqs -> {"idle", "stamped", "entered", "waiting", "returned"}]
      /\ entry \in [Reqs -> {"absent", "queued", "claimed"}]
      /\ \A r \in Reqs : asker[r] \in {"idle", "stamped"} => entry[r] = "absent"
  BY DEF TypeInv, TypeOK, RegTypeOK, ResultInv, GoodResult
<1>1. AskerStep => \A r \in Reqs : Fresh(r)' => Fresh(r)
  BY <1>0 DEF AskerStep, Stamp, Insert, Signal, EndContext, Return, DropTask
<1>2. ASSUME NEW s \in Reqs, Claimed(s), entry[s] = "queued"
      PROVE  /\ \A r \in Reqs : Fresh(r)' => Fresh(r)
             /\ Fresh(s) /\ ~Fresh(s)'
  BY <1>0, <1>2 DEF Claimed
<1>3. ASSUME NEW s \in Reqs, NEW v \in Replies, Resolved(s, v)
      PROVE  \A r \in Reqs : Fresh(r)' => Fresh(r)
  BY <1>0, <1>3 DEF Resolved
<1>4. ASSUME NEW l \in Listeners, Registered(l) \/ Unregistered(l) \/ TakeToken(l)
      PROVE  \A r \in Reqs : Fresh(r)' => Fresh(r)
  BY <1>4 DEF Registered, Unregistered, TakeToken
<1>5. UNCHANGED regVars => \A r \in Reqs : Fresh(r)' => Fresh(r)
  BY DEF regVars
<1> QED  BY <1>1, <1>2, <1>3, <1>4, <1>5, RegistryStep DEF RegistryOp

\* A step of a loop keeps HoldInv.
LEMMA LoopHold ==
    ASSUME TypeInv, ResultInv, HoldInv, [Next]_vars,
           NEW l \in Listeners, LoopStep(l)
    PROVE  HoldInv'
<1>0. /\ \A r \in Reqs : Fresh(r)' => Fresh(r)
      /\ \A r \in Reqs : Claimed(r) /\ entry[r] = "queued" => Fresh(r) /\ ~Fresh(r)'
  BY FreshOnce
<1>1. /\ loop \in [Listeners -> [pc : LoopPCs, req : Reqs \cup {NoReq}]]
      /\ cur \in [Listeners -> [Chats -> Reqs \cup {NoReq}]]
      /\ asked \in [Reqs -> Nat] /\ live \subseteq Reqs
      /\ Working
  BY DEF TypeInv, TypeOK, LisTypeOK, PromptTypeOK
<1>a. HoldInv
  OBVIOUS
<1> HIDE DEF Fresh
<1> USE <1>0, <1>1, <1>a, ChatAssumption
        DEF HoldInv, Untouched, Sending, GoLoop, promptVars, Working
<1>2. CASE Start(l)  BY <1>2 DEF Start
<1>3. CASE CleanStaleCur(l)  BY <1>3 DEF CleanStaleCur
<1>4. CASE Pick(l)
  <2> PICK r \in Reqs : /\ entry[r] = "queued"
                        /\ r \in Accepted(l)
                        /\ Claimed(r)
                        /\ GoLoop(l, "send", r)
    BY <1>4 DEF Pick, IsOldest, Pickable
  <2> QED  BY <1>4 DEF Pick, Accepted
<1>5. CASE NothingToPick(l)  BY <1>5 DEF NothingToPick
<1>6. CASE SendPrompt(l)  BY <1>6 DEF SendPrompt
<1>7. CASE FailPrompt(l)  BY <1>7 DEF FailPrompt
<1>8. CASE SetCur(l)  BY <1>8 DEF SetCur
<1>9. CASE OnNotify(l)  BY <1>9 DEF OnNotify
<1>10. CASE OnWakeup(l)  BY <1>10 DEF OnWakeup
<1>11. CASE Exit(l)  BY <1>11 DEF Exit
<1> QED  BY <1>2, <1>3, <1>4, <1>5, <1>6, <1>7, <1>8, <1>9, <1>10, <1>11 DEF LoopStep

\* A handler keeps the request it took until it is idle again.
LEMMA HandKeeps ==
    ASSUME hand \in [Handlers -> HandStates], NEW h \in Handlers
    PROVE  /\ DeletePrompt(h) => \A g \in Handlers : hand'[g].req = hand[g].req
           /\ \A g \in Handlers :
                 RacyRecord(g, h) => \A k \in Handlers : hand'[k].req = hand[k].req
           /\ \A r \in Reqs : Match(h, r) =>
                 \A g \in Handlers : hand'[g].req \in {hand[g].req, r}
<1>1. ASSUME DeletePrompt(h)
      PROVE  \A g \in Handlers : hand'[g].req = hand[g].req
  <2>1. ASSUME NEW v \in Replies,
               hand' = [hand EXCEPT ![h].pc = "finalize", ![h].reply = v]
        PROVE  \A g \in Handlers : hand'[g].req = hand[g].req
    BY <2>1 DEF HandStates
  <2>2. ASSUME GoHand(h, "record")
        PROVE  \A g \in Handlers : hand'[g].req = hand[g].req
    BY <2>2 DEF GoHand, HandStates
  <2> QED  BY <1>1, <2>1, <2>2 DEF DeletePrompt
<1>2. ASSUME NEW g \in Handlers, RacyRecord(g, h)
      PROVE  \A k \in Handlers : hand'[k].req = hand[k].req
  <2>1. PICK n, as : hand' = [hand EXCEPT ![g] = AfterRecord(g, n, as),
                                          ![h] = AfterRecord(h, n, as)]
    BY <1>2 DEF RacyRecord
  <2>2. \A k \in Handlers : AfterRecord(k, n, as).req = hand[k].req
    BY DEF AfterRecord, HandStates
  <2>3. \A k \in Handlers : hand'[k] = IF k \in {g, h} THEN AfterRecord(k, n, as) ELSE hand[k]
    BY <2>1
  <2> QED  BY <2>2, <2>3
<1>3. ASSUME NEW r \in Reqs, Match(h, r)
      PROVE  \A g \in Handlers : hand'[g].req \in {hand[g].req, r}
  <2>1. [IdleHand EXCEPT !.pc = "matched", !.req = r, !.q = asked[r], !.lis = bot].req = r
    BY DEF IdleHand
  <2> QED  BY <1>3, <2>1 DEF Match
<1> QED  BY <1>1, <1>2, <1>3

\* A handler takes its request from a chat that waits on it, and keeps it until
\* it is idle again.
LEMMA HandHold ==
    ASSUME TypeInv, ResultInv, HoldInv, [Next]_vars,
           \/ \E h \in Handlers : HandlerStep(h)
           \/ \E h \in Handlers, c \in Chats : OnCallback(h, c) \/ OnText(h, c)
           \/ \E g, h \in Handlers : RacyRecord(g, h)
    PROVE  HoldInv'
<1>0. \A r \in Reqs : Fresh(r)' => Fresh(r)
  BY FreshOnce
<1>1. /\ cur \in [Listeners -> [Chats -> Reqs \cup {NoReq}]]
      /\ asked \in [Reqs -> Nat] /\ live \subseteq Reqs
      /\ hand \in [Handlers -> HandStates]
      /\ bot \in Listeners \cup {NoBot}
      /\ Working
  BY DEF TypeInv, TypeOK, LisTypeOK, PromptTypeOK, HandTypeOK
<1>a. HoldInv
  OBVIOUS
<1> HIDE DEF Fresh
<1> USE <1>0, <1>1, <1>a, ChatAssumption
        DEF HoldInv, Untouched, Sending, GoHand, lisVars, promptVars, Working,
            GoodHand, HandStates, IdleHand
<1>2. ASSUME NEW h \in Handlers, DeletePrompt(h) PROVE HoldInv'
  <2>1. \A g \in Handlers : hand'[g].req = hand[g].req
    BY <1>2, HandKeeps
  <2> QED  BY <1>2, <2>1 DEF DeletePrompt
<1>3. ASSUME NEW h \in Handlers, Record(h) PROVE HoldInv'
  <2>1. \A g \in Handlers : hand'[g].req = hand[g].req
    BY <1>3 DEF Record, AfterRecord
  <2> QED  BY <1>3, <2>1 DEF Record
<1>4. ASSUME NEW h \in Handlers, AskNext(h) PROVE HoldInv'
  <2>1. \A g \in Handlers : hand'[g].req = hand[g].req
    BY <1>4 DEF AskNext
  <2> QED  BY <1>4, <2>1 DEF AskNext
<1>5. ASSUME NEW h \in Handlers, NextSent(h) PROVE HoldInv'
  <2>1. \A g \in Handlers : hand'[g].req \in {hand[g].req, NoReq}
    BY <1>5 DEF NextSent
  <2> QED  BY <1>5, <2>1 DEF NextSent
<1>6. ASSUME NEW h \in Handlers, NextFailed(h) PROVE HoldInv'
  <2>1. \A g \in Handlers : hand'[g].req = hand[g].req
    BY <1>6 DEF NextFailed
  <2> QED  BY <1>6, <2>1 DEF NextFailed
<1>7. ASSUME NEW h \in Handlers, Finalize(h) PROVE HoldInv'
  <2>1. \A g \in Handlers : hand'[g].req = hand[g].req
    BY <1>7 DEF Finalize
  <2>2. \A l \in Listeners, c \in Chats : cur'[l][c] \in {cur[l][c], NoReq}
    BY <1>7 DEF Finalize
  <2> QED  BY <1>7, <2>1, <2>2 DEF Finalize
<1>8. ASSUME NEW h \in Handlers, ResolveReply(h) PROVE HoldInv'
  <2>1. \A g \in Handlers : hand'[g].req \in {hand[g].req, NoReq}
    BY <1>8 DEF ResolveReply
  <2>2. UNCHANGED <<bot, stopped, loop, cur, asked, live>>
    BY <1>8 DEF ResolveReply
  <2>3. \A r \in Reqs : Untouched(r) => Untouched(r)'
    BY <2>1, <2>2
  <2>4. \A l \in Listeners, r \in Reqs : Sending(l, r) => Sending(l, r)'
    BY <2>1, <2>2
  <2>5. /\ \A r \in Reqs : Fresh(r)' => Untouched(r)'
        /\ \A l \in Listeners : loop'[l].req \in Reqs =>
              loop'[l].pc \in {"send", "open"} /\ Sending(l, loop[l].req)'
    <3> HIDE DEF Untouched, Sending
    <3> QED  BY <2>2, <2>3, <2>4
  <2> QED  BY <2>2, <2>5
<1>9. ASSUME NEW h \in Handlers, NEW c \in Chats, OnCallback(h, c) \/ OnText(h, c)
      PROVE  HoldInv'
  <2>1. bot \in Listeners /\ cur[bot][c] \in Reqs
    BY <1>9 DEF OnCallback, OnText
  <2>2. \A g \in Handlers : hand'[g].req \in {hand[g].req, cur[bot][c]}
    BY <1>9, <2>1, HandKeeps DEF OnCallback, OnText
  <2>3. UNCHANGED <<bot, stopped, loop, cur, asked, live>>
    BY <1>9 DEF OnCallback, OnText, Match
  <2> QED  BY <2>1, <2>2, <2>3
<1>10. ASSUME NEW g \in Handlers, NEW h \in Handlers, RacyRecord(g, h)
       PROVE  HoldInv'
  <2>1. \A k \in Handlers : hand'[k].req = hand[k].req
    BY <1>10, HandKeeps
  <2>2. UNCHANGED <<bot, stopped, loop, cur, asked, live>>
    BY <1>10 DEF RacyRecord
  <2> QED  BY <2>1, <2>2
<1> QED  BY <1>2, <1>3, <1>4, <1>5, <1>6, <1>7, <1>8, <1>9, <1>10 DEF HandlerStep

LEMMA HoldStep == TypeInv /\ ResultInv /\ HoldInv /\ [Next]_vars => HoldInv'
<1> SUFFICES ASSUME TypeInv, ResultInv, HoldInv, [Next]_vars PROVE HoldInv'
  OBVIOUS
<1>0. \A r \in Reqs : Fresh(r)' => Fresh(r)
  BY FreshOnce
<1>1. /\ loop \in [Listeners -> [pc : LoopPCs, req : Reqs \cup {NoReq}]]
      /\ bot \in Listeners \cup {NoBot}
  BY DEF TypeInv, TypeOK, LisTypeOK
<1>2. CASE AskerStep /\ UNCHANGED <<lisVars, promptVars, hand>>
  BY <1>0, <1>2 DEF HoldInv, Untouched, Sending, lisVars, promptVars
<1>3. CASE CloseBot
  BY <1>0, <1>3 DEF CloseBot, HoldInv, Untouched, Sending, promptVars
<1>4. ASSUME NEW l \in Listeners, NewBot(l) PROVE HoldInv'
  BY <1>0, <1>1, <1>4, ChatAssumption
     DEF NewBot, GoLoop, HoldInv, Untouched, Sending, promptVars
<1>5. CASE UNCHANGED vars
  BY <1>0, <1>5 DEF vars, HoldInv, Untouched, Sending, lisVars, promptVars
<1> QED
  BY <1>2, <1>3, <1>4, <1>5, LoopHold, HandHold DEF Next, Quiet

-----------------------------------------------------------------------------
\* A request stays settled, but for the fresh ones; and
\* it becomes claimed only by a pick.
LEMMA SettledOnce ==
    ASSUME TypeInv, ResultInv, [Next]_vars, NEW r \in Reqs, Unsettled(r)'
    PROVE  /\ Unsettled(r) \/ Fresh(r)
           /\ entry'[r] = "claimed" => \/ Unsettled(r) /\ entry[r] = "claimed"
                                       \/ Claimed(r) /\ entry[r] = "queued"
           /\ \A v \in Replies : ~Resolved(r, v)
<1> USE RegistryAssumption DEF Fresh, Unsettled
<1>0. /\ asker \in [Reqs -> {"idle", "stamped", "entered", "waiting", "returned"}]
      /\ entry \in [Reqs -> {"absent", "queued", "claimed"}]
      /\ replyCh \in [Reqs -> Replies \cup {Nothing}]
      /\ "answer" # Nothing /\ "error" # Nothing
  BY DEF TypeInv, TypeOK, RegTypeOK, Nothing
<1> DEFINE Old == /\ Unsettled(r) \/ Fresh(r)
                  /\ entry'[r] = "claimed" => \/ Unsettled(r) /\ entry[r] = "claimed"
                                              \/ Claimed(r) /\ entry[r] = "queued"
<1>1. AskerStep => Old
  BY <1>0 DEF AskerStep, Stamp, Insert, Signal, EndContext, Return, DropTask
<1>2. ASSUME NEW s \in Reqs, Claimed(s), entry[s] = "queued" PROVE Old
  <2>1. CASE s = r  BY <1>0, <1>2, <2>1
  <2>2. CASE s # r  BY <1>0, <1>2, <2>2 DEF Claimed
  <2> QED  BY <2>1, <2>2
<1>3. ASSUME NEW s \in Reqs, NEW v \in Replies, Resolved(s, v) PROVE Old /\ s # r
  BY <1>0, <1>3 DEF Resolved, Replies
<1>4. ASSUME NEW l \in Listeners, Registered(l) \/ Unregistered(l) \/ TakeToken(l)
      PROVE  Old
  BY <1>4 DEF Registered, Unregistered, TakeToken
<1>5. UNCHANGED regVars => Old
  BY DEF regVars
<1>6. Old
  <2> HIDE DEF Old
  <2> QED  BY <1>1, <1>2, <1>3, <1>4, <1>5, RegistryStep DEF RegistryOp
<1>7. \A v \in Replies : ~Resolved(r, v)
  BY <1>3
<1> QED  BY <1>6, <1>7

LEMMA LoopClaim ==
    ASSUME TypeInv, ResultInv, HoldInv, ClaimInv, [Next]_vars,
           NEW l \in Listeners, LoopStep(l), NEW r \in Reqs, Unsettled(r)'
    PROVE  GoodClaim(r)'
<1>0. /\ Unsettled(r) \/ Fresh(r)
      /\ entry'[r] = "claimed" => \/ Unsettled(r) /\ entry[r] = "claimed"
                                  \/ Claimed(r) /\ entry[r] = "queued"
      /\ \A v \in Replies : ~Resolved(r, v)
  BY SettledOnce
<1>1. /\ loop \in [Listeners -> [pc : LoopPCs, req : Reqs \cup {NoReq}]]
      /\ cur \in [Listeners -> [Chats -> Reqs \cup {NoReq}]]
      /\ entry \in [Reqs -> {"absent", "queued", "claimed"}]
      /\ live \subseteq Reqs
      /\ Working
  BY DEF TypeInv, TypeOK, RegTypeOK, LisTypeOK, PromptTypeOK
<1>2. GoodClaim(r) /\ (Fresh(r) => Untouched(r))
  BY DEF ClaimInv, HoldInv
<1>3. loop[l].req = r => Sending(l, r) /\ loop[l].pc \in {"send", "open"}
  BY DEF HoldInv
<1> HIDE DEF Fresh
<1> USE <1>0, <1>1, <1>2, <1>3, ChatAssumption
        DEF GoodClaim, Settling, HeldByLoop, HeldByHand, Untouched, Sending, GoLoop,
            promptVars
<1>4. CASE Start(l)  BY <1>4 DEF Start, Registered, Claimed
<1>5. CASE CleanStaleCur(l)
  BY <1>5 DEF CleanStaleCur, Unsettled, Claimed, regVars
<1>6. CASE Pick(l)  BY <1>6 DEF Pick, Claimed
<1>7. CASE NothingToPick(l)  BY <1>7 DEF NothingToPick, regVars, Claimed
<1>8. CASE SendPrompt(l)  BY <1>8 DEF SendPrompt, regVars, Claimed
<1>9. CASE FailPrompt(l)
  <2>1. loop[l].req # r /\ UNCHANGED <<cur, live, hand>>
    BY <1>9 DEF FailPrompt, Replies
  <2>2. \A k \in Listeners : k # l => loop'[k] = loop[k]
    BY <1>9 DEF FailPrompt
  <2>3. ~Claimed(r) \/ entry[r] # "queued"
    BY <1>9 DEF FailPrompt, Claimed, Resolved
  <2> QED  BY <2>1, <2>2, <2>3
<1>10. CASE SetCur(l)
  <2> DEFINE s == loop[l].req
             c == ChatOf[s]
  <2>1. /\ s \in Reqs /\ c \in Chats /\ cur[l][c] = NoReq /\ s \in live
        /\ \A k \in Listeners : loop[k].req = s => k = l
    BY <1>10 DEF SetCur, Working, HoldInv
  <2>2. /\ cur' = [cur EXCEPT ![l][c] = s]
        /\ loop' = [loop EXCEPT ![l] = [pc |-> "pick", req |-> NoReq]]
        /\ UNCHANGED <<entry, live, hand>>
    BY <1>10 DEF SetCur, regVars
  <2>3. entry[r] # "queued" \/ ~Claimed(r)
    BY <2>2 DEF Claimed
  <2> HIDE DEF s, c
  <2>4. \A k \in Listeners, d \in Chats :
            cur'[k][d] = IF k = l /\ d = c THEN s ELSE cur[k][d]
    BY <2>1, <2>2
  <2>5. \A k \in Listeners : k # l => loop'[k].req = loop[k].req
    BY <2>2
  <2>6. CASE r = s
    BY <2>1, <2>2, <2>4, <2>6 DEF c
  <2>7. CASE r # s
    BY <2>1, <2>2, <2>3, <2>4, <2>5, <2>7 DEF s
  <2> QED  BY <2>6, <2>7
<1>11. CASE OnNotify(l)  BY <1>11 DEF OnNotify, TakeToken, Claimed
<1>12. CASE OnWakeup(l)  BY <1>12 DEF OnWakeup, regVars, Claimed
<1>13. CASE Exit(l)  BY <1>13 DEF Exit, Unregistered, Claimed
<1> QED  BY <1>4, <1>5, <1>6, <1>7, <1>8, <1>9, <1>10, <1>11, <1>12, <1>13 DEF LoopStep

\* What the step of a handler does to a claim that is not settled after it: the
\* prompt is kept, or it is being settled; and it can be tapped or is held.
LEMMA HandFrame ==
    ASSUME TypeInv, ResultInv, HoldInv, ClaimInv, [Next]_vars,
           NEW r \in Reqs, Unsettled(r)', UNCHANGED loop,
           ~(Claimed(r) /\ entry[r] = "queued"),
           \A l \in Listeners, c \in Chats :
              /\ cur'[l][c] = r => cur[l][c] = r
              /\ cur[l][c] = r => cur'[l][c] = r \/ Settling(r)',
           Settling(r) => Settling(r)',
           r \in live \/ HeldByHand(r) => r \in live' \/ HeldByHand(r)'
    PROVE  GoodClaim(r)'
<1>1. /\ Unsettled(r) \/ Fresh(r)
      /\ entry'[r] = "claimed" => Unsettled(r) /\ entry[r] = "claimed"
  BY SettledOnce
<1>2. GoodClaim(r) /\ (Fresh(r) => Untouched(r))
  BY DEF ClaimInv, HoldInv
<1>3. HeldByLoop(r) => HeldByLoop(r)'
  BY DEF HeldByLoop
<1> HIDE DEF Fresh, Settling
<1> QED  BY <1>1, <1>2, <1>3 DEF GoodClaim, Untouched

LEMMA HandClaim ==
    ASSUME TypeInv, ResultInv, HoldInv, ClaimInv, [Next]_vars,
           \/ \E h \in Handlers : HandlerStep(h)
           \/ \E h \in Handlers, c \in Chats : OnCallback(h, c) \/ OnText(h, c)
           \/ \E g, h \in Handlers : RacyRecord(g, h),
           NEW r \in Reqs, Unsettled(r)'
    PROVE  GoodClaim(r)'
<1>0. \A v \in Replies : ~Resolved(r, v)
  BY SettledOnce
<1>1. /\ cur \in [Listeners -> [Chats -> Reqs \cup {NoReq}]]
      /\ entry \in [Reqs -> {"absent", "queued", "claimed"}]
      /\ hand \in [Handlers -> HandStates]
      /\ live \subseteq Reqs
      /\ \A h \in Handlers : GoodHand(hand[h])
  BY DEF TypeInv, TypeOK, RegTypeOK, LisTypeOK, PromptTypeOK, HandTypeOK, Working
<1>2. UNCHANGED entry \/ (\E s \in Reqs, v \in Replies : Resolved(s, v))
      => ~(Claimed(r) /\ entry[r] = "queued")
  BY <1>1 DEF Claimed, Resolved
<1>3. ASSUME NEW h \in Handlers, DeletePrompt(h) PROVE GoodClaim(r)'
  <2>1. /\ \A g \in Handlers : /\ hand'[g].req = hand[g].req
                               /\ g # h => hand'[g] = hand[g]
        /\ hand[h].pc = "matched" /\ live' = live \ {hand[h].req}
        /\ UNCHANGED <<entry, loop, cur>>
    BY <1>1, <1>3, HandKeeps DEF DeletePrompt, GoHand, lisVars, regVars
  <2>2. Settling(r) => Settling(r)'
    BY <2>1 DEF Settling
  <2>3. r \in live \/ HeldByHand(r) => r \in live' \/ HeldByHand(r)'
    BY <2>1 DEF HeldByHand
  <2> QED  BY <1>2, <2>1, <2>2, <2>3, HandFrame
<1>4. ASSUME NEW h \in Handlers, Record(h) \/ AskNext(h) \/ NextFailed(h)
      PROVE  GoodClaim(r)'
  <2>1. /\ hand[h].pc # "resolve" /\ UNCHANGED <<entry, loop, cur, live>>
        /\ \A g \in Handlers : g # h => hand'[g] = hand[g]
    <3>1. CASE Record(h)  BY <1>1, <3>1 DEF Record, lisVars, regVars
    <3>2. CASE AskNext(h)  BY <1>1, <3>2 DEF AskNext, lisVars, promptVars, regVars
    <3>3. CASE NextFailed(h)
      BY <1>1, <3>3 DEF NextFailed, lisVars, promptVars, regVars
    <3> QED  BY <1>4, <3>1, <3>2, <3>3
  <2>2. hand'[h].req = hand[h].req
    <3>1. CASE Record(h)  BY <1>1, <3>1 DEF Record, AfterRecord, HandStates
    <3>2. CASE AskNext(h)  BY <1>1, <3>2 DEF AskNext, HandStates
    <3>3. CASE NextFailed(h)  BY <1>1, <3>3 DEF NextFailed, HandStates
    <3> QED  BY <1>4, <3>1, <3>2, <3>3
  <2>3. Settling(r) => Settling(r)'
    BY <2>1 DEF Settling
  <2>4. HeldByHand(r) => HeldByHand(r)'
    BY <2>1, <2>2 DEF HeldByHand
  <2> QED  BY <1>2, <2>1, <2>3, <2>4, HandFrame
<1>5. ASSUME NEW h \in Handlers, NextSent(h) PROVE GoodClaim(r)'
  <2>1. /\ hand[h].pc # "resolve" /\ UNCHANGED <<entry, loop, cur>>
        /\ \A g \in Handlers : g # h => hand'[g] = hand[g]
        /\ live' = live \cup {hand[h].req}
    BY <1>5 DEF NextSent, lisVars, regVars
  <2>2. Settling(r) => Settling(r)'
    BY <2>1 DEF Settling
  <2>3. r \in live \/ HeldByHand(r) => r \in live' \/ HeldByHand(r)'
    BY <2>1 DEF HeldByHand
  <2> QED  BY <1>2, <2>1, <2>2, <2>3, HandFrame
<1>6. ASSUME NEW h \in Handlers, Finalize(h) PROVE GoodClaim(r)'
  <2>1. /\ \A g \in Handlers : g # h => hand'[g] = hand[g]
        /\ hand'[h].req = hand[h].req /\ hand'[h].pc = "resolve"
        /\ UNCHANGED <<entry, loop, live>>
    BY <1>1, <1>6 DEF Finalize, GoHand, HandStates, promptVars, regVars
  <2>2. \A l \in Listeners, c \in Chats :
            \/ cur'[l][c] = cur[l][c]
            \/ cur'[l][c] = NoReq /\ cur[l][c] = hand[h].req
    BY <1>1, <1>6 DEF Finalize
  <2>3. Settling(r) \/ hand[h].req = r => Settling(r)'
    BY <2>1 DEF Settling
  <2>4. HeldByHand(r) => HeldByHand(r)'
    BY <2>1 DEF HeldByHand
  <2>5. \A l \in Listeners, c \in Chats :
            /\ cur'[l][c] = r => cur[l][c] = r
            /\ cur[l][c] = r => cur'[l][c] = r \/ Settling(r)'
    BY <2>2, <2>3, ChatAssumption
  <2> QED  BY <1>2, <2>1, <2>3, <2>4, <2>5, HandFrame
<1>7. ASSUME NEW h \in Handlers, ResolveReply(h) PROVE GoodClaim(r)'
  <2>1. /\ \A g \in Handlers : g # h => hand'[g] = hand[g]
        /\ UNCHANGED <<loop, cur, live>>
        /\ hand[h].pc = "resolve" /\ Resolved(hand[h].req, hand[h].reply)
    BY <1>7 DEF ResolveReply, promptVars
  <2>2. hand[h].req \in Reqs /\ hand[h].reply \in Replies
    BY <1>1, <2>1 DEF GoodHand
  <2>3. hand[h].req # r
    BY <1>0, <2>1, <2>2
  <2>4. (Settling(r) => Settling(r)') /\ (HeldByHand(r) => HeldByHand(r)')
    BY <2>1, <2>3 DEF Settling, HeldByHand
  <2> QED  BY <1>2, <2>1, <2>2, <2>4, HandFrame
<1>8. ASSUME NEW h \in Handlers, NEW c \in Chats, OnCallback(h, c) \/ OnText(h, c)
      PROVE  GoodClaim(r)'
  <2>1. /\ hand[h].pc = "idle" /\ UNCHANGED <<entry, loop, cur, live>>
        /\ \A g \in Handlers : g # h => hand'[g] = hand[g]
    <3>1. CASE OnCallback(h, c)
      BY <1>1, <3>1 DEF OnCallback, Match, lisVars, promptVars, regVars
    <3>2. CASE OnText(h, c)
      BY <1>1, <3>2 DEF OnText, Match, lisVars, promptVars, regVars
    <3> QED  BY <1>8, <3>1, <3>2
  <2>2. hand[h].req # r
    BY <1>1, <2>1, ChatAssumption DEF GoodHand
  <2>3. (Settling(r) => Settling(r)') /\ (HeldByHand(r) => HeldByHand(r)')
    BY <2>1, <2>2 DEF Settling, HeldByHand
  <2> QED  BY <1>2, <2>1, <2>3, HandFrame
<1>9. ASSUME NEW g \in Handlers, NEW h \in Handlers, RacyRecord(g, h)
      PROVE  GoodClaim(r)'
  <2>1. \A k \in Handlers : hand'[k].req = hand[k].req
    BY <1>1, <1>9, HandKeeps
  <2>2. \A k \in Handlers : hand[k].pc = "resolve" => hand'[k] = hand[k]
    <3>1. PICK x, y : hand' = [hand EXCEPT ![g] = x, ![h] = y]
      BY <1>9 DEF RacyRecord
    <3>2. hand[g].pc = "record" /\ hand[h].pc = "record"
      BY <1>9 DEF RacyRecord
    <3> QED  BY <1>1, <3>1, <3>2
  <2>3. UNCHANGED <<entry, cur, loop, live>>
    BY <1>9 DEF RacyRecord, regVars, lisVars
  <2>4. (Settling(r) => Settling(r)') /\ (HeldByHand(r) => HeldByHand(r)')
    BY <2>1, <2>2 DEF Settling, HeldByHand
  <2> QED  BY <1>2, <2>3, <2>4, HandFrame
<1> QED  BY <1>3, <1>4, <1>5, <1>6, <1>7, <1>8, <1>9 DEF HandlerStep

LEMMA ClaimStep ==
    TypeInv /\ ResultInv /\ HoldInv /\ ClaimInv /\ [Next]_vars => ClaimInv'
<1> SUFFICES ASSUME TypeInv, ResultInv, HoldInv, ClaimInv, [Next]_vars,
                    NEW r \in Reqs, Unsettled(r)'
             PROVE  GoodClaim(r)'
  BY DEF ClaimInv, GoodClaim
<1>1. CASE AskerStep /\ UNCHANGED <<lisVars, promptVars, hand>>
  <2>1. ~(Claimed(r) /\ entry[r] = "queued")
    BY <1>1 DEF AskerStep, Claimed, Stamp, Insert, Signal, EndContext, Return, DropTask,
                TypeInv, TypeOK, RegTypeOK
  <2>2. UNCHANGED <<loop, cur, live, hand>>
    BY <1>1 DEF lisVars, promptVars
  <2> QED  BY <2>1, <2>2, HandFrame DEF Settling, HeldByHand
<1>2. CASE CloseBot \/ (\E l \in Listeners : NewBot(l)) \/ UNCHANGED vars
  <2>1. UNCHANGED <<entry, cur, live, hand>>
    BY <1>2 DEF CloseBot, NewBot, vars, regVars, lisVars, promptVars
  <2>2. \A l \in Listeners : loop[l].req \in Reqs => loop'[l] = loop[l]
    BY <1>2, ChatAssumption
       DEF CloseBot, NewBot, GoLoop, vars, lisVars, HoldInv, TypeInv, TypeOK, LisTypeOK
  <2>3. GoodClaim(r) /\ Unsettled(r)
    BY <1>2, <2>1 DEF ClaimInv, CloseBot, NewBot, Unsettled, vars, regVars
  <2> QED
    BY <2>1, <2>2, <2>3 DEF GoodClaim, Settling, HeldByLoop, HeldByHand
<1> QED
  BY <1>1, <1>2, LoopClaim, HandClaim DEF Next, Quiet

-----------------------------------------------------------------------------
SafetyInv == TypeInv /\ ResultInv /\ HoldInv /\ ClaimInv

LEMMA Safety == Spec => []SafetyInv
<1>1. Init => SafetyInv
  <2> SUFFICES ASSUME Init PROVE SafetyInv
    OBVIOUS
  <2>1. TypeInv
    BY TypeInit
  <2>2. ResultInv
    BY DEF Init, RegInit, ResultInv, GoodResult
  <2>3. HoldInv
    BY ChatAssumption DEF Init, RegInit, HoldInv, Untouched, Sending, IdleHand
  <2>4. ClaimInv
    BY DEF Init, RegInit, ClaimInv, GoodClaim, Unsettled
  <2> QED  BY <2>1, <2>2, <2>3, <2>4 DEF SafetyInv
<1>2. SafetyInv /\ [Next]_vars => SafetyInv'
  <2>1. TypeInv /\ ResultInv /\ [Next]_vars => ResultInv'
    BY RegistryStep, ResultRegistry DEF TypeInv, TypeOK
  <2> QED  BY <2>1, TypeStep, HoldStep, ClaimStep DEF SafetyInv
<1> QED  BY <1>1, <1>2, PTL DEF Spec

\* A request held by a chat or a loop belongs to the running bot or to one that
\* a reload has left behind.
LEMMA HolderKnown ==
    ASSUME SafetyInv, NEW r \in Reqs, NEW l \in Listeners,
           loop[l].req = r \/ \E c \in Chats : cur[l][c] = r
    PROVE  l = bot \/ LeftBehind(r)
<1>1. loop[l].pc # "off"
  BY DEF SafetyInv, HoldInv
<1>2. l = bot \/ l \in stopped
  BY <1>1 DEF SafetyInv, HoldInv
<1> QED  BY <1>2 DEF LeftBehind

\* While the caller of a claimed prompt is owed a reply, somebody works on the
\* prompt or a tap of its chat reaches it; only a reload strands a claim.
THEOREM ClaimsNotStranded == Spec => []NoStrandedClaim
<1>1. SafetyInv => NoStrandedClaim
  <2> SUFFICES ASSUME SafetyInv, NEW r \in Reqs, Owed(r), entry[r] = "claimed",
                      ~HeldByHand(r), ~HeldByLoop(r), ~LeftBehind(r)
               PROVE  Waiting(r)
    BY DEF NoStrandedClaim
  <2>1. GoodClaim(r) /\ ~Settling(r) /\ Unsettled(r)
    BY DEF SafetyInv, ClaimInv, Settling, HeldByHand, Owed, Unsettled
  <2>2. PICK l \in Listeners : ChatOf[r] \in Chats /\ cur[l][ChatOf[r]] = r
    BY <2>1 DEF GoodClaim
  <2>3. l = bot
    BY <2>2, HolderKnown
  <2>4. r \in live
    BY <2>1, <2>2 DEF GoodClaim
  <2> QED  BY <2>2, <2>3, <2>4, ChatAssumption DEF Waiting
<1> QED  BY <1>1, Safety, PTL

\* The running bot never has two prompts waiting on one chat, so that a text
\* of the chat can only answer the prompt its author sees.
THEOREM OneAtATime == Spec => []OnePromptPerChat
<1>1. SafetyInv => OnePromptPerChat
  <2> SUFFICES ASSUME SafetyInv, NEW r \in Reqs, NEW s \in Reqs,
                      OnScreen(r), OnScreen(s), ~LeftBehind(r), ~LeftBehind(s),
                      ChatOf[r] = ChatOf[s]
               PROVE  r = s
    BY DEF OnePromptPerChat
  <2> DEFINE c == ChatOf[r]
  <2>1. c \in Chats
    BY DEF SafetyInv, HoldInv, OnScreen
  <2>2. ASSUME NEW q \in {r, s}
        PROVE  /\ bot \in Listeners
               /\ loop[bot].req = q \/ cur[bot][c] = q
    <3>1. GoodClaim(q) /\ Unsettled(q) /\ entry[q] = "claimed" /\ ~Settling(q) /\ ChatOf[q] = c
      BY <2>2 DEF SafetyInv, ClaimInv, OnScreen, Settling, Owed, Unsettled
    <3>2. PICK l \in Listeners : loop[l].req = q \/ cur[l][c] = q
      BY <3>1 DEF GoodClaim, HeldByLoop
    <3>3. l = bot
      BY <2>1, <2>2, <3>2, HolderKnown
    <3> QED  BY <3>2, <3>3
  <2>3. \A q \in {r, s} : loop[bot].req = q => cur[bot][c] = NoReq
    BY <2>1, <2>2 DEF SafetyInv, HoldInv, Sending
  <2> QED  BY <2>2, <2>3, ChatAssumption
<1> QED  BY <1>1, Safety, PTL

-----------------------------------------------------------------------------
(* ChatListener implements PromptDesk.                                      *)

\* A request no loop and no handler knows has no reply in its channel.
ReplyInv == \A r \in Reqs : Fresh(r) => replyCh[r] = Nothing

\* Ask takes its entry with it when it returns.
GoneInv == \A r \in Reqs : r \notin Async /\ asker[r] = "returned" => entry[r] = "absent"

LEMMA GoneStep ==
    ASSUME SafetyInv, GoneInv, [Next]_vars
    PROVE  GoneInv'
<1>0. /\ asker \in [Reqs -> {"idle", "stamped", "entered", "waiting", "returned"}]
      /\ entry \in [Reqs -> {"absent", "queued", "claimed"}]
  BY DEF SafetyInv, TypeInv, TypeOK, RegTypeOK
<1> USE <1>0 DEF GoneInv
<1>1. CASE AskerStep
  BY <1>1 DEF AskerStep, Stamp, Insert, Signal, EndContext, Return, DropTask
<1>2. CASE \E r \in Reqs : Claimed(r) /\ entry[r] = "queued"
  BY <1>2 DEF Claimed
<1>3. CASE \E r \in Reqs, v \in Replies : Resolved(r, v)
  BY <1>3 DEF Resolved
<1>4. CASE \E l \in Listeners : Registered(l) \/ Unregistered(l) \/ TakeToken(l)
  BY <1>4 DEF Registered, Unregistered, TakeToken
<1>5. CASE UNCHANGED regVars
  BY <1>5 DEF regVars
<1> QED
  BY <1>1, <1>2, <1>3, <1>4, <1>5, RegistryStep DEF SafetyInv, RegistryOp

LEMMA ReplyStep ==
    ASSUME SafetyInv, ReplyInv, [Next]_vars
    PROVE  ReplyInv'
<1>0. /\ \A r \in Reqs : Fresh(r)' => Fresh(r)
      /\ replyCh \in [Reqs -> Replies \cup {Nothing}]
      /\ HoldInv /\ Working
  BY FreshOnce DEF SafetyInv, TypeInv, TypeOK, RegTypeOK
<1> HIDE DEF Fresh
<1> USE <1>0 DEF ReplyInv
<1>1. ASSUME NEW s \in Reqs, NEW v \in Replies, Resolved(s, v), ~Fresh(s) PROVE ReplyInv'
  BY <1>1 DEF Resolved
<1>2. CASE UNCHANGED replyCh
  BY <1>2
<1>3. ASSUME NEW l \in Listeners, LoopStep(l) PROVE ReplyInv'
  <2>1. CASE FailPrompt(l)
    <3>1. loop[l].req \in Reqs /\ ~Fresh(loop[l].req)
      BY <2>1, ChatAssumption DEF FailPrompt, HoldInv, Untouched, Working
    <3> QED  BY <1>1, <2>1, <3>1 DEF FailPrompt, Replies
  <2>2. CASE ~FailPrompt(l)
    BY <1>2, <1>3, <2>2 DEF LoopStep, Start, Registered, CleanStaleCur, Pick, Claimed, NothingToPick,
       SendPrompt, SetCur, OnNotify, TakeToken, OnWakeup, Exit, Unregistered, regVars
  <2> QED  BY <2>1, <2>2
<1>4. ASSUME NEW h \in Handlers, HandlerStep(h) PROVE ReplyInv'
  <2>1. CASE ResolveReply(h)
    <3>1. hand[h].req \in Reqs /\ ~Fresh(hand[h].req) /\ hand[h].reply \in Replies
      BY <2>1 DEF ResolveReply, HoldInv, Untouched, Working, GoodHand
    <3> QED  BY <1>1, <2>1, <3>1 DEF ResolveReply
  <2>2. CASE ~ResolveReply(h)
    BY <1>2, <1>4, <2>2 DEF HandlerStep, DeletePrompt, Record, AskNext, NextSent, NextFailed,
       Finalize, regVars
  <2> QED  BY <2>1, <2>2
<1>5. CASE AskerStep
  BY <1>2, <1>5 DEF AskerStep, Stamp, Insert, Signal, EndContext, Return, DropTask
<1>6. CASE CloseBot \/ UNCHANGED vars
  BY <1>2, <1>6 DEF CloseBot, vars, regVars
<1>7. CASE \/ \E l \in Listeners : NewBot(l)
           \/ \E h \in Handlers, c \in Chats : OnCallback(h, c) \/ OnText(h, c)
           \/ \E g, h \in Handlers : RacyRecord(g, h)
  BY <1>2, <1>7 DEF NewBot, OnCallback, OnText, RacyRecord, regVars
<1> QED  BY <1>3, <1>4, <1>5, <1>6, <1>7 DEF Next, Quiet

\* The reasons for which a claimed request is past its prompt.
Closing(r) == replyCh[r] # Nothing \/ Settling(r) \/ LeftBehind(r)

\* What Phase says of a request without and with a result.
LEMMA PhaseOpen ==
    ASSUME RegTypeOK, NEW r \in Reqs, outcome[r] = <<>>
    PROVE  /\ asker[r] \in {"idle", "stamped"} => Phase(r) = "absent"
           /\ asker[r] \notin {"idle", "stamped"} =>
              /\ entry[r] = "absent" => Phase(r) = IF r \in Async THEN "withdrawn" ELSE "closing"
              /\ entry[r] = "queued" => Phase(r) = "queued"
              /\ entry[r] = "claimed" => Phase(r) = IF Closing(r) THEN "closing" ELSE "open"
<1>1. /\ outcome[r] # <<"answer">>
      /\ outcome[r] # <<"error">>
      /\ outcome[r] # <<"ctx">>
  OBVIOUS
<1>2. entry[r] \in {"absent", "queued", "claimed"}
  BY DEF RegTypeOK
<1> HIDE DEF LeftBehind, Settling
<1> QED  BY <1>1, <1>2 DEF Phase, Closing

LEMMA PhaseEnded ==
    ASSUME RegTypeOK, NEW r \in Reqs
    PROVE  /\ outcome[r] = <<"answer">> => Phase(r) = "answered"
           /\ outcome[r] = <<"error">> => Phase(r) = "failed"
           /\ outcome[r] = <<"ctx">> => Phase(r) = "withdrawn"
<1>1. /\ <<"answer">> # <<"error">>
      /\ <<"answer">> # <<"ctx">>
      /\ <<"error">> # <<"ctx">>
  OBVIOUS
<1> HIDE DEF LeftBehind, Settling
<1> QED  BY <1>1 DEF Phase

LEMMA OutcomeShape ==
    ASSUME SafetyInv, NEW r \in Reqs
    PROVE  outcome[r] \in {<<>>, <<"answer">>, <<"error">>, <<"ctx">>}
<1>1. outcome[r] \in Seq(Results) /\ Len(outcome[r]) <= 1
  BY DEF SafetyInv, TypeInv, TypeOK, RegTypeOK, ResultInv, GoodResult
<1>2. CASE Len(outcome[r]) = 0  BY <1>1, <1>2, EmptySeq
<1>3. CASE Len(outcome[r]) = 1
  <2>1. outcome[r] = <<outcome[r][1]>> /\ outcome[r][1] \in Results  BY <1>1, <1>3
  <2> QED  BY <2>1 DEF Results, Replies
<1>4. Len(outcome[r]) \in Nat
  BY <1>1, LenProperties
<1>5. Len(outcome[r]) = 0 \/ Len(outcome[r]) = 1
  <2> DEFINE n == Len(outcome[r])
  <2>1. n \in Nat /\ n <= 1
    BY <1>1, <1>4
  <2> HIDE DEF n
  <2>2. n = 0 \/ n = 1
    BY <2>1
  <2> QED  BY <2>2 DEF n
<1> QED  BY <1>2, <1>3, <1>5

\* A step of the desk, or none.
DeskStep == Desk!Next \/ UNCHANGED PhaseOf

\* The steps in which one request changes its phase.
LEMMA DeskMoves ==
    ASSUME NEW r \in Reqs, \A s \in Reqs : s # r => Phase(s)' = Phase(s)
    PROVE  /\ Phase(r)' = Phase(r) => DeskStep
           /\ Phase(r) = "absent" /\ Phase(r)' = "queued" => DeskStep
           /\ Phase(r) \in {"queued", "open"} /\ Phase(r)' = "closing" => DeskStep
           /\ Phase(r) = "closing" /\ Phase(r)' = "answered" => DeskStep
           /\ Phase(r) \in {"open", "closing"} /\ Phase(r)' = "failed" => DeskStep
           /\ Phase(r) \in {"queued", "open", "closing"} /\ Phase(r)' = "withdrawn" => DeskStep
           /\ /\ Phase(r) = "queued" /\ Phase(r)' = "open"
              /\ \A s \in Reqs : ChatOf[s] = ChatOf[r] /\ Phase(s) = "open" => ChatOf[r] = NoChat
              => DeskStep
<1> HIDE DEF Phase
<1>1. PhaseOf[r] = Phase(r) /\ PhaseOf' = [PhaseOf EXCEPT ![r] = Phase(r)']
  BY DEF PhaseOf
<1>2. ASSUME NEW from, Phase(r) \in from PROVE Desk!Move(r, from, Phase(r)')
  BY <1>1, <1>2 DEF Desk!Move
<1>3. Phase(r)' = Phase(r) => UNCHANGED PhaseOf
  BY DEF PhaseOf
<1>4. Phase(r) = "absent" /\ Phase(r)' = "queued" => Desk!Queue(r)
  BY <1>2 DEF Desk!Queue
<1>5. Phase(r) \in {"queued", "open"} /\ Phase(r)' = "closing" => Desk!Close(r)
  BY <1>2 DEF Desk!Close
<1>6. Phase(r) = "closing" /\ Phase(r)' = "answered" => Desk!Answer(r)
  BY <1>2 DEF Desk!Answer
<1>7. Phase(r) \in {"open", "closing"} /\ Phase(r)' = "failed" => Desk!Fail(r)
  BY <1>2 DEF Desk!Fail
<1>8. Phase(r) \in {"queued", "open", "closing"} /\ Phase(r)' = "withdrawn" => Desk!Withdraw(r)
  BY <1>2 DEF Desk!Withdraw
<1>9. /\ Phase(r) = "queued" /\ Phase(r)' = "open"
      /\ \A s \in Reqs : ChatOf[s] = ChatOf[r] /\ Phase(s) = "open" => ChatOf[r] = NoChat
      => Desk!Open(r)
  BY <1>2 DEF Desk!Open, PhaseOf
<1> QED
  BY <1>3, <1>4, <1>5, <1>6, <1>7, <1>8, <1>9 DEF DeskStep, Desk!Next

\* The steps in which several are dropped or left behind.
LEMMA DeskDrops ==
    ASSUME NEW S \in SUBSET Reqs,
           \A r \in S : /\ Phase(r) \in {"queued", "open", "closing"}
                        /\ Phase(r)' \in {"closing", "withdrawn"},
           \A r \in Reqs \ S : Phase(r)' = Phase(r)
    PROVE  DeskStep
<1> HIDE DEF Phase
<1> DEFINE end == [r \in S |-> Phase(r)']
<1>1. end \in [S -> {"closing", "withdrawn"}]
  OBVIOUS
<1>2. PhaseOf' = [r \in Reqs |-> IF r \in S THEN end[r] ELSE PhaseOf[r]]
  BY DEF PhaseOf
<1>3. \A r \in S : PhaseOf[r] \in {"queued", "open", "closing"}
  BY DEF PhaseOf
<1> HIDE DEF end
<1>4. Desk!Drop(S)
  BY <1>1, <1>2, <1>3 DEF Desk!Drop
<1> QED  BY <1>4 DEF DeskStep, Desk!Next

\* What keeps the phase of a request.
LEMMA PhaseKept ==
    ASSUME RegTypeOK, NEW r \in Reqs,
           outcome'[r] = outcome[r], entry'[r] = entry[r],
           asker'[r] \in {"idle", "stamped"} <=> asker[r] \in {"idle", "stamped"},
           entry[r] = "claimed" => (Closing(r)' <=> Closing(r))
    PROVE  Phase(r)' = Phase(r)
<1>1. entry[r] \in {"absent", "queued", "claimed"}
  BY DEF RegTypeOK
<1> HIDE DEF Settling, LeftBehind
<1> QED  BY <1>1 DEF Phase, Closing

\* A request that is over stays so.
LEMMA PhaseOver ==
    ASSUME SafetyInv, NEW r \in Reqs, outcome[r] # <<>>, outcome'[r] = outcome[r]
    PROVE  Phase(r)' = Phase(r)
<1> HIDE DEF Settling, LeftBehind
<1> QED  BY OutcomeShape DEF Phase

\* The phase after the result of a request.
LEMMA PhaseResult ==
    ASSUME SafetyInv, NEW r \in Reqs, NEW v \in Results,
           outcome[r] = <<>>, outcome' = [outcome EXCEPT ![r] = Append(@, v)]
    PROVE  /\ v = "answer" => Phase(r)' = "answered"
           /\ v = "error" => Phase(r)' = "failed"
           /\ v = "ctx" => Phase(r)' = "withdrawn"
           /\ \A s \in Reqs : s # r => outcome'[s] = outcome[s]
<1>1. outcome'[r] = Append(<<>>, v) /\ \A s \in Reqs : s # r => outcome'[s] = outcome[s]
  BY DEF SafetyInv, TypeInv, TypeOK, RegTypeOK
<1>2. Append(<<>>, v) = <<v>>
  OBVIOUS
<1>3. /\ <<"answer">> # <<"error">>
      /\ <<"answer">> # <<"ctx">>
      /\ <<"error">> # <<"ctx">>
  OBVIOUS
<1> HIDE DEF Settling, LeftBehind
<1> QED  BY <1>1, <1>2, <1>3 DEF Phase

\* A step that keeps the registry and the reasons to close keeps every phase.
LEMMA DeskStutters ==
    ASSUME RegTypeOK, UNCHANGED <<outcome, entry, replyCh>>,
           \A r \in Reqs : asker'[r] \in {"idle", "stamped"} <=> asker[r] \in {"idle", "stamped"},
           \A r \in Reqs : entry[r] = "claimed" => /\ Settling(r)' <=> Settling(r)
                                                   /\ LeftBehind(r)' <=> LeftBehind(r)
    PROVE  DeskStep
<1> HIDE DEF Settling, LeftBehind, Phase
<1>1. \A r \in Reqs : entry[r] = "claimed" => (Closing(r)' <=> Closing(r))
  BY DEF Closing
<1>2. \A r \in Reqs : Phase(r)' = Phase(r)
  <2> SUFFICES ASSUME NEW r \in Reqs PROVE Phase(r)' = Phase(r)
    OBVIOUS
  <2> HIDE DEF Closing
  <2> QED  BY <1>1, PhaseKept
<1>3. UNCHANGED PhaseOf
  BY <1>2 DEF PhaseOf
<1> QED  BY <1>3 DEF DeskStep

\* The step of a caller, and a resume's.
LEMMA AskerDesk ==
    ASSUME SafetyInv, ReplyInv, AskerStep, UNCHANGED <<lisVars, promptVars, hand>>
    PROVE  DeskStep
<1>1. RegTypeOK /\ ResultInv /\ ReplyInv
  BY DEF SafetyInv, TypeInv, TypeOK
<1>2. \A r \in Reqs : /\ Settling(r)' <=> Settling(r)
                      /\ LeftBehind(r)' <=> LeftBehind(r)
  BY DEF lisVars, Settling, LeftBehind
<1> HIDE DEF Settling, LeftBehind, Phase
<1>3. ASSUME NEW r \in Reqs, Stamp(r) \/ Signal(r) \/ EndContext(r) PROVE DeskStep
  <2>1. \A s \in Reqs : asker'[s] \in {"idle", "stamped"} <=> asker[s] \in {"idle", "stamped"}
    BY <1>1, <1>3 DEF Stamp, Signal, EndContext, RegTypeOK
  <2>2. UNCHANGED <<outcome, entry, replyCh>>
    BY <1>3 DEF Stamp, Signal, EndContext
  <2> QED  BY <1>1, <1>2, <2>1, <2>2, DeskStutters
<1>4. ASSUME NEW r \in Reqs, Insert(r) PROVE DeskStep
  <2>1. \A s \in Reqs : s # r => /\ asker'[s] = asker[s]
                                 /\ entry'[s] = entry[s]
                                 /\ outcome'[s] = outcome[s]
                                 /\ replyCh'[s] = replyCh[s]
    BY <1>4 DEF Insert
  <2>2. \A s \in Reqs : s # r => Phase(s)' = Phase(s)
    <3> SUFFICES ASSUME NEW s \in Reqs, s # r PROVE Phase(s)' = Phase(s)
      OBVIOUS
    <3> QED  BY <1>1, <1>2, <2>1, PhaseKept DEF Closing
  <2>3. outcome[r] = <<>>
    BY <1>1, <1>4 DEF Insert, ResultInv, GoodResult
  <2>4. Phase(r) = "absent"
    BY <1>1, <1>4, <2>3, PhaseOpen DEF Insert
  <2>5. Phase(r)' = "queued"
    <3>1. outcome'[r] = <<>> /\ asker'[r] = "entered" /\ entry'[r] = "queued"
      BY <1>1, <1>4, <2>3 DEF Insert, RegTypeOK
    <3>2. <<>> # <<"answer">> /\ <<>> # <<"error">> /\ <<>> # <<"ctx">>
      OBVIOUS
    <3> QED  BY <3>1, <3>2 DEF Phase
  <2> QED  BY <2>2, <2>4, <2>5, DeskMoves
<1>5. ASSUME NEW r \in Reqs, Return(r) PROVE DeskStep
  <2>1. asker[r] = "waiting" /\ r \notin Async /\ outcome[r] = <<>>
    BY <1>1, <1>5 DEF Return, ResultInv, GoodResult
  <2>2. PICK v \in Results : /\ outcome' = [outcome EXCEPT ![r] = Append(@, v)]
                             /\ v # "ctx" => v = replyCh[r] /\ replyCh[r] # Nothing
    BY <1>1, <1>5 DEF Return, RegTypeOK, Results
  <2>3. /\ v = "answer" => Phase(r)' = "answered"
        /\ v = "error" => Phase(r)' = "failed"
        /\ v = "ctx" => Phase(r)' = "withdrawn"
        /\ \A s \in Reqs : s # r => outcome'[s] = outcome[s]
    BY <2>1, <2>2, PhaseResult
  <2>4. \A s \in Reqs : s # r => Phase(s)' = Phase(s)
    <3> SUFFICES ASSUME NEW s \in Reqs, s # r PROVE Phase(s)' = Phase(s)
      OBVIOUS
    <3>1. asker'[s] = asker[s] /\ entry'[s] = entry[s] /\ replyCh'[s] = replyCh[s]
      BY <1>5 DEF Return
    <3> QED  BY <1>1, <1>2, <2>3, <3>1, PhaseKept DEF Closing
  <2>5. asker[r] \notin {"idle", "stamped"} /\ entry[r] \in {"absent", "queued", "claimed"}
    BY <1>1, <2>1 DEF RegTypeOK
  <2>6. Phase(r) \in {"queued", "open", "closing"}
    BY <1>1, <2>1, <2>5, PhaseOpen
  <2>7. replyCh[r] # Nothing => Phase(r) = "closing"
    <3>1. replyCh[r] # Nothing => entry[r] # "queued"
      BY <1>1 DEF ReplyInv, Fresh
    <3> QED  BY <1>1, <2>1, <2>5, <3>1, PhaseOpen DEF Closing
  <2>8. v \in {"answer", "error", "ctx"}
    BY DEF Results, Replies
  <2> QED  BY <2>2, <2>3, <2>4, <2>6, <2>7, <2>8, DeskMoves
<1>6. ASSUME NEW t \in Tasks, DropTask(t) PROVE DeskStep
  <2> DEFINE S == {r \in Reqs : TaskOf[r] = t /\ entry[r] # "absent" /\ outcome[r] = <<>>}
  <2>1. UNCHANGED <<asker, outcome, replyCh>>
    BY <1>6 DEF DropTask
  <2>2. \A r \in Reqs \ S : Phase(r)' = Phase(r)
    <3> SUFFICES ASSUME NEW r \in Reqs \ S PROVE Phase(r)' = Phase(r)
      OBVIOUS
    <3>1. CASE outcome[r] # <<>>
      BY <2>1, <3>1, PhaseOver
    <3>2. CASE outcome[r] = <<>>
      <4>1. entry'[r] = entry[r]
        BY <1>6, <3>2 DEF DropTask
      <4> QED  BY <1>1, <1>2, <2>1, <4>1, PhaseKept DEF Closing
    <3> QED  BY <3>1, <3>2
  <2>3. \A r \in S : /\ Phase(r) \in {"queued", "open", "closing"}
                     /\ Phase(r)' \in {"closing", "withdrawn"}
    <3> SUFFICES ASSUME NEW r \in S
                 PROVE  /\ Phase(r) \in {"queued", "open", "closing"}
                        /\ Phase(r)' \in {"closing", "withdrawn"}
      OBVIOUS
    <3>1. entry[r] # "absent" /\ entry'[r] = "absent" /\ outcome[r] = <<>> /\ outcome'[r] = <<>>
      BY <1>6, <2>1 DEF DropTask
    <3>2. asker[r] \notin {"idle", "stamped"} /\ asker'[r] = asker[r]
      BY <1>1, <2>1, <3>1 DEF ResultInv, GoodResult
    <3>3. entry[r] \in {"queued", "claimed"}
      BY <1>1, <3>1 DEF RegTypeOK
    <3>4. Phase(r) \in {"queued", "open", "closing"}
      BY <1>1, <3>1, <3>2, <3>3, PhaseOpen
    <3>5. <<>> # <<"answer">> /\ <<>> # <<"error">> /\ <<>> # <<"ctx">>
      OBVIOUS
    <3> QED  BY <3>1, <3>2, <3>4, <3>5 DEF Phase
  <2> HIDE DEF S
  <2>4. S \in SUBSET Reqs
    BY DEF S
  <2> QED  BY <2>2, <2>3, <2>4, DeskDrops
<1> QED  BY <1>3, <1>4, <1>5, <1>6 DEF AskerStep

\* Where one listener's holdings are the only change, and keep the claimed
\* requests in them, the prompts left behind stay the same.
LEMMA LeftBehindKept ==
    ASSUME UNCHANGED stopped, NEW r \in Reqs,
           \A l \in Listeners : (loop[l].req = r \/ \E c \in Chats : cur[l][c] = r)
                             <=> (loop'[l].req = r \/ \E c \in Chats : cur'[l][c] = r),
           stopped \subseteq Listeners
    PROVE  LeftBehind(r)' <=> LeftBehind(r)
  BY DEF LeftBehind

\* A loop's step that takes no request in hand and settles none.
LEMMA LoopStutters ==
    ASSUME SafetyInv, NEW l \in Listeners,
           \/ Start(l) \/ CleanStaleCur(l) \/ NothingToPick(l) \/ SendPrompt(l) \/ SetCur(l)
           \/ OnNotify(l) \/ OnWakeup(l) \/ Exit(l)
    PROVE  DeskStep
<1>0. /\ loop \in [Listeners -> [pc : LoopPCs, req : Reqs \cup {NoReq}]]
      /\ cur \in [Listeners -> [Chats -> Reqs \cup {NoReq}]]
      /\ stopped \subseteq Listeners
      /\ RegTypeOK /\ Working /\ HoldInv
  BY DEF SafetyInv, TypeInv, TypeOK, LisTypeOK
<1>1. UNCHANGED <<asker, outcome, entry, replyCh, stopped, hand>>
  BY DEF Start, Registered, CleanStaleCur, NothingToPick, SendPrompt, SetCur, OnNotify, TakeToken,
         OnWakeup, Exit, Unregistered, regVars
<1>2. \A r \in Reqs : Settling(r)' <=> Settling(r)
  BY <1>1 DEF Settling
<1>3. ASSUME NEW r \in Reqs, entry[r] = "claimed" PROVE LeftBehind(r)' <=> LeftBehind(r)
  <2>1. CASE Start(l) \/ NothingToPick(l) \/ OnNotify(l) \/ OnWakeup(l) \/ Exit(l)
    <3>1. loop[l].req # r
      BY <1>0, <2>1 DEF Start, NothingToPick, OnNotify, OnWakeup, Exit, HoldInv
    <3>2. UNCHANGED cur /\ \E pc : loop' = [loop EXCEPT ![l] = [pc |-> pc, req |-> NoReq]]
      BY <2>1 DEF Start, NothingToPick, OnNotify, OnWakeup, Exit, GoLoop
    <3> QED  BY <1>0, <1>1, <3>1, <3>2, ChatAssumption, LeftBehindKept
  <2>2. CASE CleanStaleCur(l)
    <3>1. loop[l].req # r /\ loop' = [loop EXCEPT ![l] = [pc |-> "pick", req |-> NoReq]]
      BY <1>0, <2>2 DEF CleanStaleCur, HoldInv, GoLoop
    <3>2. \A k \in Listeners, c \in Chats : cur'[k][c] = r <=> cur[k][c] = r
      BY <1>0, <1>3, <2>2, ChatAssumption DEF CleanStaleCur
    <3> QED  BY <1>0, <1>1, <3>1, <3>2, ChatAssumption, LeftBehindKept
  <2>3. CASE SendPrompt(l)
    <3>1. UNCHANGED cur /\ loop' = [loop EXCEPT ![l] = [pc |-> "open", req |-> loop[l].req]]
      BY <2>3 DEF SendPrompt, GoLoop
    <3> QED  BY <1>0, <1>1, <3>1, LeftBehindKept
  <2>4. CASE SetCur(l)
    <3> DEFINE s == loop[l].req
               c == ChatOf[s]
    <3>1. /\ s \in Reqs /\ c \in Chats /\ cur[l][c] = NoReq
          /\ cur' = [cur EXCEPT ![l][c] = s]
          /\ loop' = [loop EXCEPT ![l] = [pc |-> "pick", req |-> NoReq]]
      BY <1>0, <2>4 DEF SetCur, Working, HoldInv, Sending, GoLoop
    <3> HIDE DEF c
    <3>2. \A k \in Listeners, d \in Chats :
              cur'[k][d] = IF k = l /\ d = c THEN s ELSE cur[k][d]
      BY <1>0, <3>1
    <3>3. \A k \in Listeners : loop'[k].req = IF k = l THEN NoReq ELSE loop[k].req
      BY <1>0, <3>1
    <3> QED  BY <1>1, <1>0, <3>1, <3>2, <3>3, ChatAssumption, LeftBehindKept
  <2> QED  BY <2>1, <2>2, <2>3, <2>4
<1> HIDE DEF Settling, LeftBehind
<1> QED  BY <1>0, <1>1, <1>2, <1>3, DeskStutters

\* The pick opens a queued prompt; a stopped listener's pick leaves it behind.
LEMMA PickDesk ==
    ASSUME SafetyInv, ReplyInv, GoneInv, [Next]_vars, NEW l \in Listeners, Pick(l)
    PROVE  DeskStep
<1>0. /\ loop \in [Listeners -> [pc : LoopPCs, req : Reqs \cup {NoReq}]]
      /\ cur \in [Listeners -> [Chats -> Reqs \cup {NoReq}]]
      /\ stopped \subseteq Listeners
      /\ entry \in [Reqs -> {"absent", "queued", "claimed"}]
      /\ RegTypeOK /\ Working /\ HoldInv /\ ResultInv /\ ReplyInv /\ ClaimInv
  BY DEF SafetyInv, TypeInv, TypeOK, LisTypeOK, RegTypeOK
<1> PICK r \in Reqs : /\ entry[r] = "queued"
                      /\ r \in Accepted(l)
                      /\ Claimed(r)
                      /\ GoLoop(l, "send", r)
  BY DEF Pick, IsOldest, Pickable
<1>1. /\ UNCHANGED <<asker, outcome, replyCh, stopped, cur, hand>>
      /\ entry' = [entry EXCEPT ![r] = "claimed"]
      /\ loop' = [loop EXCEPT ![l] = [pc |-> "send", req |-> r]]
      /\ loop[l].pc = "pick"
  BY DEF Pick, Claimed, GoLoop
<1>2. Fresh(r) /\ Untouched(r)
  BY <1>0 DEF Fresh, HoldInv
<1>3. /\ outcome[r] = <<>> /\ asker[r] \notin {"idle", "stamped"} /\ replyCh[r] = Nothing
  <2>1. GoodResult(r) /\ replyCh[r] = Nothing
    BY <1>0, <1>2 DEF ResultInv, ReplyInv
  <2> QED  BY <2>1 DEF GoodResult, GoneInv
<1>4. \A s \in Reqs : Settling(s)' <=> Settling(s)
  BY <1>1 DEF Settling
<1>5. loop[l].req \notin Reqs
  BY <1>0, <1>1 DEF HoldInv
<1>6. \A s \in Reqs \ {r} : LeftBehind(s)' <=> LeftBehind(s)
  <2> SUFFICES ASSUME NEW s \in Reqs \ {r} PROVE LeftBehind(s)' <=> LeftBehind(s)
    OBVIOUS
  <2>1. \A k \in Listeners : loop'[k].req = s <=> loop[k].req = s
    BY <1>0, <1>1, <1>5
  <2> QED  BY <1>0, <1>1, <2>1, LeftBehindKept
<1>7. \A s \in Reqs : s # r => Phase(s)' = Phase(s)
  <2> SUFFICES ASSUME NEW s \in Reqs, s # r PROVE Phase(s)' = Phase(s)
    OBVIOUS
  <2>1. outcome'[s] = outcome[s] /\ entry'[s] = entry[s] /\ asker'[s] = asker[s]
    BY <1>1
  <2>2. Closing(s)' <=> Closing(s)
    BY <1>1, <1>4, <1>6 DEF Closing
  <2> HIDE DEF Closing, Phase
  <2> QED  BY <1>0, <2>1, <2>2, PhaseKept
<1>8. Phase(r) = "queued"
  BY <1>0, <1>3, PhaseOpen
<1>9. Phase(r)' = IF LeftBehind(r)' THEN "closing" ELSE "open"
  <2>1. outcome'[r] = <<>> /\ asker'[r] \notin {"idle", "stamped"} /\ replyCh'[r] = Nothing
        /\ entry'[r] = "claimed"
    BY <1>0, <1>1, <1>3
  <2>2. ~Settling(r)'
    BY <1>2, <1>4 DEF Settling, Untouched
  <2>3. <<>> # <<"answer">> /\ <<>> # <<"error">> /\ <<>> # <<"ctx">>
    OBVIOUS
  <2> HIDE DEF Settling, LeftBehind
  <2> QED  BY <2>1, <2>2, <2>3 DEF Phase
<1>10. CASE LeftBehind(r)'
  <2> HIDE DEF LeftBehind, Phase
  <2> QED  BY <1>7, <1>8, <1>9, <1>10, DeskMoves
<1>11. CASE ~LeftBehind(r)'
  <2>1. l = bot
    <3>1. l \notin stopped
      BY <1>0, <1>1, <1>11 DEF LeftBehind
    <3> QED  BY <1>0, <1>1, <3>1 DEF HoldInv
  <2>2. ASSUME NEW s \in Reqs, ChatOf[s] = ChatOf[r], Phase(s) = "open", ChatOf[r] # NoChat
        PROVE  FALSE
    <3>1. entry[s] = "claimed" /\ outcome[s] = <<>> /\ ~Closing(s)
      <4>1. outcome[s] = <<>>
        BY <2>2, OutcomeShape, PhaseEnded, <1>0
      <4>2. asker[s] \notin {"idle", "stamped"} /\ entry[s] = "claimed"
        BY <1>0, <2>2, <4>1, PhaseOpen
      <4> QED  BY <1>0, <2>2, <4>1, <4>2, PhaseOpen
    <3>2. GoodClaim(s) /\ Unsettled(s) /\ ~Settling(s) /\ ~LeftBehind(s)
      BY <1>0, <3>1 DEF ClaimInv, Unsettled, Closing
    <3>3. PICK k \in Listeners : loop[k].req = s \/ (ChatOf[s] \in Chats /\ cur[k][ChatOf[s]] = s)
      BY <3>1, <3>2 DEF GoodClaim, HeldByLoop
    <3>4. k = l
      BY <2>1, <3>2, <3>3, HolderKnown
    <3>5. ChatOf[s] \in Chats /\ cur[l][ChatOf[s]] = s
      BY <1>5, <3>3, <3>4
    <3> QED  BY <2>2, <3>5, ChatAssumption DEF Accepted
  <2> HIDE DEF LeftBehind, Phase
  <2> QED  BY <1>7, <1>8, <1>9, <1>11, <2>2, DeskMoves
<1> QED  BY <1>10, <1>11

\* Resolve's effect on one request: over if it was async and there, its channel
\* filled otherwise; the phases of the others follow the reasons to close.
LEMMA ResolveDesk ==
    ASSUME SafetyInv, NEW r \in Reqs, NEW v \in Replies, Resolved(r, v), ~Fresh(r),
           v = "answer" /\ entry[r] = "claimed" => Closing(r),
           \A s \in Reqs : s # r /\ entry[s] = "claimed" => (Closing(s)' <=> Closing(s))
    PROVE  DeskStep
<1>0. /\ entry \in [Reqs -> {"absent", "queued", "claimed"}]
      /\ replyCh \in [Reqs -> Replies \cup {Nothing}]
      /\ RegTypeOK /\ ResultInv
  BY DEF SafetyInv, TypeInv, TypeOK, RegTypeOK
<1> HIDE DEF Closing, Phase
<1>1. \A s \in Reqs : s # r => Phase(s)' = Phase(s)
  <2> SUFFICES ASSUME NEW s \in Reqs, s # r PROVE Phase(s)' = Phase(s)
    OBVIOUS
  <2>1. asker'[s] = asker[s] /\ entry'[s] = entry[s] /\ outcome'[s] = outcome[s]
    BY DEF Resolved
  <2> QED  BY <1>0, <2>1, PhaseKept
<1>2. UNCHANGED asker /\ entry[r] # "queued" /\ asker[r] \notin {"idle", "stamped"}
  BY DEF Resolved, Fresh
<1>3. CASE entry[r] = "absent"
  <2>1. UNCHANGED <<outcome, asker>> /\ entry'[r] = "absent"
    BY <1>0, <1>3 DEF Resolved
  <2>2. Phase(r)' = Phase(r)
    BY <1>0, <1>3, <2>1, PhaseKept
  <2> QED  BY <1>1, <2>2, DeskMoves
<1>4. CASE entry[r] = "claimed" /\ outcome[r] # <<>>
  <2>1. r \notin Async
    BY <1>0, <1>4 DEF ResultInv, GoodResult
  <2>2. outcome'[r] = outcome[r]
    BY <2>1 DEF Resolved
  <2>3. Phase(r)' = Phase(r)
    BY <1>4, <2>2, PhaseOver
  <2> QED  BY <1>1, <2>3, DeskMoves
<1>5. CASE entry[r] = "claimed" /\ outcome[r] = <<>> /\ r \in Async
  <2>1. outcome' = [outcome EXCEPT ![r] = Append(@, v)]
    BY <1>5 DEF Resolved
  <2>2. v \in Results /\ v \in {"answer", "error"}
    BY DEF Results, Replies
  <2>3. /\ v = "answer" => Phase(r)' = "answered"
        /\ v = "error" => Phase(r)' = "failed"
    BY <1>5, <2>1, <2>2, PhaseResult
  <2>4. Phase(r) = IF Closing(r) THEN "closing" ELSE "open"
    BY <1>0, <1>2, <1>5, PhaseOpen
  <2> QED  BY <1>1, <1>5, <2>2, <2>3, <2>4, DeskMoves
<1>6. CASE entry[r] = "claimed" /\ outcome[r] = <<>> /\ r \notin Async
  <2>1. outcome'[r] = <<>> /\ entry'[r] = "claimed" /\ asker'[r] \notin {"idle", "stamped"}
    BY <1>2, <1>6 DEF Resolved
  <2>2. replyCh'[r] # Nothing
    BY <1>0, <1>6 DEF Resolved, Replies, Nothing
  <2>3. <<>> # <<"answer">> /\ <<>> # <<"error">> /\ <<>> # <<"ctx">>
    OBVIOUS
  <2>4. Phase(r)' = "closing"
    <3> HIDE DEF Settling, LeftBehind
    <3> QED  BY <2>1, <2>2, <2>3 DEF Phase
  <2>5. Phase(r) = IF Closing(r) THEN "closing" ELSE "open"
    BY <1>0, <1>2, <1>6, PhaseOpen
  <2> QED  BY <1>1, <2>4, <2>5, DeskMoves
<1> QED  BY <1>0, <1>2, <1>3, <1>4, <1>5, <1>6

\* A prompt that cannot be sent fails.
LEMMA FailDesk ==
    ASSUME SafetyInv, NEW l \in Listeners, FailPrompt(l)
    PROVE  DeskStep
<1>0. /\ loop \in [Listeners -> [pc : LoopPCs, req : Reqs \cup {NoReq}]]
      /\ stopped \subseteq Listeners
      /\ Working /\ HoldInv
  BY DEF SafetyInv, TypeInv, TypeOK, LisTypeOK
<1> DEFINE r == loop[l].req
<1>1. /\ r \in Reqs /\ Resolved(r, "error")
      /\ loop' = [loop EXCEPT ![l] = [pc |-> "pick", req |-> NoReq]]
      /\ UNCHANGED <<stopped, cur, hand>>
  BY <1>0 DEF FailPrompt, Working, GoLoop
<1>2. ~Fresh(r) /\ "error" \in Replies /\ "error" # "answer"
  BY <1>0, <1>1 DEF HoldInv, Untouched, Replies
<1>3. \A s \in Reqs : s # r => (Closing(s)' <=> Closing(s))
  <2> SUFFICES ASSUME NEW s \in Reqs, s # r PROVE Closing(s)' <=> Closing(s)
    OBVIOUS
  <2>1. \A k \in Listeners : loop'[k].req = s <=> loop[k].req = s
    BY <1>0, <1>1, ChatAssumption
  <2>2. LeftBehind(s)' <=> LeftBehind(s)
    BY <1>0, <1>1, <2>1, LeftBehindKept
  <2>3. (Settling(s)' <=> Settling(s)) /\ replyCh'[s] = replyCh[s]
    BY <1>1 DEF Settling, Resolved
  <2> HIDE DEF Settling, LeftBehind
  <2> QED  BY <2>2, <2>3 DEF Closing
<1> HIDE DEF r, Fresh, Closing
<1> QED  BY <1>1, <1>2, <1>3, ResolveDesk

LEMMA LoopDesk ==
    ASSUME SafetyInv, ReplyInv, GoneInv, [Next]_vars, NEW l \in Listeners, LoopStep(l)
    PROVE  DeskStep
  BY LoopStutters, PickDesk, FailDesk DEF LoopStep

\* A handler that delivers its reply.
LEMMA ReplyDesk ==
    ASSUME SafetyInv, NEW h \in Handlers, ResolveReply(h)
    PROVE  DeskStep
<1>0. hand \in [Handlers -> HandStates] /\ GoodHand(hand[h]) /\ HoldInv
  BY DEF SafetyInv, TypeInv, TypeOK, HandTypeOK, Working
<1> DEFINE r == hand[h].req
<1>1. /\ r \in Reqs /\ hand[h].reply \in Replies /\ Resolved(r, hand[h].reply)
      /\ hand' = [hand EXCEPT ![h] = IdleHand]
      /\ UNCHANGED <<stopped, loop, cur>>
      /\ hand[h].pc = "resolve"
  BY <1>0 DEF ResolveReply, GoodHand
<1>2. ~Fresh(r)
  BY <1>0, <1>1 DEF HoldInv, Untouched
<1>3. Closing(r)
  BY <1>1 DEF Closing, Settling
<1>4. \A s \in Reqs : s # r => (Closing(s)' <=> Closing(s))
  <2> SUFFICES ASSUME NEW s \in Reqs, s # r PROVE Closing(s)' <=> Closing(s)
    OBVIOUS
  <2>1. LeftBehind(s)' <=> LeftBehind(s)
    BY <1>1 DEF LeftBehind
  <2>2. Settling(s)' <=> Settling(s)
    <3>1. \A k \in Handlers : hand'[k] = IF k = h THEN IdleHand ELSE hand[k]
      BY <1>0, <1>1
    <3> QED  BY <1>1, <3>1 DEF Settling, IdleHand
  <2>3. replyCh'[s] = replyCh[s]
    BY <1>1 DEF Resolved
  <2> HIDE DEF Settling, LeftBehind
  <2> QED  BY <2>1, <2>2, <2>3 DEF Closing
<1> HIDE DEF r, Fresh, Closing
<1> QED  BY <1>1, <1>2, <1>3, <1>4, ResolveDesk

\* A handler that frees the chat has its reply ready.
LEMMA FinalizeDesk ==
    ASSUME SafetyInv, NEW h \in Handlers, Finalize(h)
    PROVE  DeskStep
<1>0. /\ hand \in [Handlers -> HandStates] /\ GoodHand(hand[h])
      /\ cur \in [Listeners -> [Chats -> Reqs \cup {NoReq}]]
      /\ stopped \subseteq Listeners
      /\ RegTypeOK /\ HoldInv /\ ResultInv
  BY DEF SafetyInv, TypeInv, TypeOK, HandTypeOK, LisTypeOK, Working
<1> DEFINE l == hand[h].lis
<1>a. hand[h].req \in Reqs
  BY <1>0 DEF Finalize, GoodHand
<1> PICK r \in Reqs : r = hand[h].req
  BY <1>a
<1>1. /\ r = hand[h].req
      /\ cur' = IF cur[l][ChatOf[r]] = r THEN [cur EXCEPT ![l][ChatOf[r]] = NoReq] ELSE cur
      /\ UNCHANGED <<asker, entry, outcome, replyCh, stopped, loop>>
      /\ hand[h].pc = "finalize"
  BY <1>0 DEF Finalize, GoodHand, regVars
<1>2. \A k \in Handlers : /\ hand'[k].req = hand[k].req
                          /\ hand'[k].pc = IF k = h THEN "resolve" ELSE hand[k].pc
  BY <1>0 DEF Finalize, GoHand, HandStates
<1>3. Settling(r)' /\ \A s \in Reqs : s # r => (Settling(s)' <=> Settling(s))
  BY <1>1, <1>2 DEF Settling
<1>4. \A s \in Reqs : s # r => (LeftBehind(s)' <=> LeftBehind(s))
  <2> SUFFICES ASSUME NEW s \in Reqs, s # r PROVE LeftBehind(s)' <=> LeftBehind(s)
    OBVIOUS
  <2> HIDE DEF l
  <2>1. \A k \in Listeners, c \in Chats : cur'[k][c] = s <=> cur[k][c] = s
    BY <1>0, <1>1, ChatAssumption
  <2> QED  BY <1>0, <1>1, <2>1, LeftBehindKept
<1> HIDE DEF l, Settling, LeftBehind, Phase
<1>5. \A s \in Reqs : s # r => Phase(s)' = Phase(s)
  <2> SUFFICES ASSUME NEW s \in Reqs, s # r PROVE Phase(s)' = Phase(s)
    OBVIOUS
  <2> QED  BY <1>0, <1>1, <1>3, <1>4, PhaseKept DEF Closing
<1>6. ~Fresh(r)
  BY <1>0, <1>1 DEF HoldInv, Untouched
<1>7. CASE outcome[r] # <<>> \/ entry[r] = "absent"
  <2>1. Phase(r)' = Phase(r)
    BY <1>0, <1>1, <1>7, PhaseOver, PhaseKept
  <2> QED  BY <1>1, <1>5, <2>1, DeskMoves
<1>8. CASE outcome[r] = <<>> /\ entry[r] # "absent"
  <2>1. asker[r] \notin {"idle", "stamped"} /\ entry[r] = "claimed"
    BY <1>0, <1>1, <1>6, <1>8 DEF Fresh, RegTypeOK
  <2>2. Phase(r) \in {"open", "closing"}
    BY <1>0, <1>1, <1>8, <2>1, PhaseOpen
  <2>3. <<>> # <<"answer">> /\ <<>> # <<"error">> /\ <<>> # <<"ctx">>
    OBVIOUS
  <2>4. Phase(r)' = "closing"
    BY <1>1, <1>3, <1>8, <2>1, <2>3 DEF Phase
  <2> QED  BY <1>1, <1>5, <2>2, <2>4, DeskMoves
<1> QED  BY <1>7, <1>8

\* The other steps of handlers: none comes to its reply or leaves it.
LEMMA HandStutters ==
    ASSUME SafetyInv, NEW h \in Handlers,
           \/ DeletePrompt(h) \/ Record(h) \/ AskNext(h) \/ NextSent(h) \/ NextFailed(h)
           \/ \E c \in Chats : OnCallback(h, c) \/ OnText(h, c)
           \/ \E g \in Handlers : RacyRecord(g, h)
    PROVE  DeskStep
<1>0. hand \in [Handlers -> HandStates] /\ RegTypeOK
  BY DEF SafetyInv, TypeInv, TypeOK, HandTypeOK
<1>1. UNCHANGED <<asker, outcome, entry, replyCh, stopped, loop, cur>>
  BY DEF DeletePrompt, Record, AskNext, NextSent, NextFailed, OnCallback, OnText, RacyRecord,
         regVars, lisVars
<1>2. \A k \in Handlers : /\ hand[k].pc = "resolve" => hand'[k] = hand[k]
                          /\ hand'[k].pc = "resolve" => hand'[k] = hand[k]
  <2>1. CASE DeletePrompt(h) \/ NextSent(h) \/ NextFailed(h)
    BY <1>0, <2>1 DEF DeletePrompt, GoHand, NextSent, NextFailed, HandStates, IdleHand
  <2>2. CASE AskNext(h)
    BY <1>0, <2>2 DEF AskNext, HandStates
  <2>3. ASSUME NEW n, NEW as, hand[h].pc = "record"
        PROVE  AfterRecord(h, n, as).pc # "resolve"
    BY <1>0, <2>3 DEF AfterRecord, HandStates
  <2>4. CASE Record(h)
    <3>1. PICK n, as : hand' = [hand EXCEPT ![h] = AfterRecord(h, n, as)] /\ hand[h].pc = "record"
      BY <2>4 DEF Record
    <3>2. AfterRecord(h, n, as).pc # "resolve"
      BY <2>3, <3>1
    <3> HIDE DEF AfterRecord
    <3> QED  BY <1>0, <3>1, <3>2
  <2>5. ASSUME NEW c \in Chats, OnCallback(h, c) \/ OnText(h, c)
        PROVE  \A k \in Handlers : /\ hand[k].pc = "resolve" => hand'[k] = hand[k]
                                   /\ hand'[k].pc = "resolve" => hand'[k] = hand[k]
    BY <1>0, <2>5 DEF OnCallback, OnText, Match, IdleHand
  <2>6. ASSUME NEW g \in Handlers, RacyRecord(g, h)
        PROVE  \A k \in Handlers : /\ hand[k].pc = "resolve" => hand'[k] = hand[k]
                                   /\ hand'[k].pc = "resolve" => hand'[k] = hand[k]
    <3>1. hand[g].pc = "record" /\ hand[h].pc = "record" /\ g # h
      BY <2>6 DEF RacyRecord
    <3>2. \A n, as : AfterRecord(g, n, as).pc # "resolve" /\ AfterRecord(h, n, as).pc # "resolve"
      BY <1>0, <3>1 DEF AfterRecord, HandStates
    <3>3. PICK n, as : hand' = [hand EXCEPT ![g] = AfterRecord(g, n, as),
                                            ![h] = AfterRecord(h, n, as)]
      BY <2>6 DEF RacyRecord
    <3> HIDE DEF AfterRecord
    <3> QED  BY <1>0, <3>1, <3>2, <3>3
  <2> QED  BY <2>1, <2>2, <2>4, <2>5, <2>6
<1>3. \A s \in Reqs : (Settling(s)' <=> Settling(s)) /\ (LeftBehind(s)' <=> LeftBehind(s))
  BY <1>1, <1>2 DEF Settling, LeftBehind
<1> HIDE DEF Settling, LeftBehind
<1> QED  BY <1>0, <1>1, <1>3, DeskStutters

\* A bot that closes leaves its prompts behind; a new one takes none over.
LEMMA BotDesk ==
    ASSUME SafetyInv, CloseBot \/ \E l \in Listeners : NewBot(l)
    PROVE  DeskStep
<1>0. /\ loop \in [Listeners -> [pc : LoopPCs, req : Reqs \cup {NoReq}]]
      /\ cur \in [Listeners -> [Chats -> Reqs \cup {NoReq}]]
      /\ stopped \subseteq Listeners /\ bot \in Listeners \cup {NoBot}
      /\ RegTypeOK /\ HoldInv /\ ResultInv
  BY DEF SafetyInv, TypeInv, TypeOK, LisTypeOK
<1>1. UNCHANGED <<asker, entry, outcome, replyCh, hand, cur>>
  BY DEF CloseBot, NewBot, regVars
<1>2. \A r \in Reqs : Settling(r)' <=> Settling(r)
  BY <1>1 DEF Settling
<1>3. ASSUME NEW l \in Listeners, NewBot(l) PROVE DeskStep
  <2>1. \A r \in Reqs : LeftBehind(r)' <=> LeftBehind(r)
    <3> SUFFICES ASSUME NEW r \in Reqs PROVE LeftBehind(r)' <=> LeftBehind(r)
      OBVIOUS
    <3>1. \A k \in Listeners : loop'[k].req = r <=> loop[k].req = r
      BY <1>0, <1>3, ChatAssumption DEF NewBot, GoLoop, HoldInv
    <3>2. UNCHANGED stopped
      BY <1>3 DEF NewBot
    <3> QED  BY <1>0, <1>1, <3>1, <3>2, LeftBehindKept
  <2> HIDE DEF Settling, LeftBehind
  <2> QED  BY <1>0, <1>1, <1>2, <2>1, DeskStutters
<1>4. CASE CloseBot
  <2>1. /\ \A r \in Reqs : LeftBehind(r) => LeftBehind(r)'
        /\ UNCHANGED loop
    BY <1>1, <1>4 DEF CloseBot, LeftBehind
  <2> DEFINE S == {r \in Reqs : Phase(r) = "open" /\ LeftBehind(r)'}
  <2> HIDE DEF Settling, LeftBehind
  <2>2. ASSUME NEW r \in Reqs, outcome[r] = <<>>, entry[r] = "claimed"
        PROVE  /\ Phase(r) = IF Closing(r) THEN "closing" ELSE "open"
               /\ Phase(r)' = IF Closing(r)' THEN "closing" ELSE "open"
    <3>1. asker[r] \notin {"idle", "stamped"}
      BY <1>0, <2>2 DEF ResultInv, GoodResult
    <3>2. <<>> # <<"answer">> /\ <<>> # <<"error">> /\ <<>> # <<"ctx">>
      OBVIOUS
    <3>3. asker'[r] = asker[r] /\ outcome'[r] = <<>> /\ entry'[r] = "claimed"
      BY <1>1, <2>2
    <3> QED  BY <2>2, <3>1, <3>2, <3>3 DEF Phase, Closing
  <2>3. \A r \in Reqs : Closing(r)' <=> Closing(r) \/ LeftBehind(r)'
    BY <1>1, <1>2, <2>1 DEF Closing
  <2> HIDE DEF Closing
  <2>4. \A r \in Reqs \ S : Phase(r)' = Phase(r)
    <3> SUFFICES ASSUME NEW r \in Reqs \ S PROVE Phase(r)' = Phase(r)
      OBVIOUS
    <3>1. CASE outcome[r] # <<>>
      BY <1>1, <3>1, PhaseOver
    <3>2. CASE entry[r] # "claimed"
      BY <1>0, <1>1, <3>2, PhaseKept
    <3>3. CASE outcome[r] = <<>> /\ entry[r] = "claimed"
      BY <2>2, <2>3, <3>3
    <3> QED  BY <3>1, <3>2, <3>3
  <2>5. \A r \in S : Phase(r) = "open" /\ Phase(r)' = "closing"
    <3> SUFFICES ASSUME NEW r \in S PROVE Phase(r) = "open" /\ Phase(r)' = "closing"
      OBVIOUS
    <3>1. outcome[r] = <<>>
      BY <1>0, OutcomeShape, PhaseEnded
    <3>2. entry[r] = "claimed"
      <4>1. entry[r] \in {"absent", "queued", "claimed"}
        BY <1>0 DEF RegTypeOK
      <4>2. Phase(r) = "open" /\ r \in Reqs
        OBVIOUS
      <4> HIDE DEF S, Phase
      <4> QED  BY <1>0, <3>1, <4>1, <4>2, PhaseOpen
    <3> QED  BY <2>2, <2>3, <3>1, <3>2
  <2> HIDE DEF S, Phase
  <2>6. S \in SUBSET Reqs
    BY DEF S
  <2> QED  BY <2>4, <2>5, <2>6, DeskDrops
<1> QED  BY <1>3, <1>4

LEMMA StepDesk ==
    ASSUME SafetyInv, ReplyInv, GoneInv, [Next]_vars
    PROVE  DeskStep
<1>1. CASE AskerStep /\ UNCHANGED <<lisVars, promptVars, hand>>
  BY <1>1, AskerDesk
<1>2. ASSUME NEW l \in Listeners, LoopStep(l) PROVE DeskStep
  BY <1>2, LoopDesk
<1>3. CASE CloseBot \/ \E l \in Listeners : NewBot(l)
  BY <1>3, BotDesk
<1>4. ASSUME NEW h \in Handlers, HandlerStep(h) PROVE DeskStep
  BY <1>4, HandStutters, FinalizeDesk, ReplyDesk DEF HandlerStep
<1>5. CASE \/ \E h \in Handlers, c \in Chats : OnCallback(h, c) \/ OnText(h, c)
           \/ \E g, h \in Handlers : RacyRecord(g, h)
  BY <1>5, HandStutters
<1>6. CASE UNCHANGED vars
  <2>1. UNCHANGED PhaseOf
    BY <1>6 DEF vars, regVars, lisVars, PhaseOf, Phase, Settling, LeftBehind
  <2> QED  BY <2>1 DEF DeskStep
<1> QED  BY <1>1, <1>2, <1>3, <1>4, <1>5, <1>6 DEF Next, Quiet

\* Whatever taps, expiries, drops and reloads race, the prompts follow
\* PromptDesk: one open prompt per chat, one result per request, and no return
\* to the screen of what the listener of a closed bot had claimed.
THEOREM PromptsKeepTheDesk == Spec => ImplementsPromptDesk
<1>1. Init => Desk!Init /\ ReplyInv /\ GoneInv
  <2> SUFFICES ASSUME Init PROVE Desk!Init /\ ReplyInv /\ GoneInv
    OBVIOUS
  <2>1. ReplyInv /\ GoneInv
    BY DEF Init, RegInit, ReplyInv, GoneInv
  <2>2. \A r \in Reqs : Phase(r) = "absent"
    <3> SUFFICES ASSUME NEW r \in Reqs PROVE Phase(r) = "absent"
      OBVIOUS
    <3>1. <<>> # <<"answer">> /\ <<>> # <<"error">> /\ <<>> # <<"ctx">>
      OBVIOUS
    <3>2. outcome[r] = <<>> /\ asker[r] = "idle"
      BY DEF Init, RegInit
    <3> QED  BY <3>1, <3>2 DEF Phase
  <2>3. Desk!Init
    BY <2>2 DEF Desk!Init, PhaseOf
  <2> QED  BY <2>1, <2>3
<1>2. SafetyInv /\ ReplyInv /\ GoneInv /\ [Next]_vars => ReplyInv' /\ GoneInv'
  BY ReplyStep, GoneStep
<1>3. SafetyInv /\ ReplyInv /\ GoneInv /\ [Next]_vars => [Desk!Next]_PhaseOf
  BY StepDesk DEF DeskStep
<1> QED
  BY <1>1, <1>2, <1>3, Safety, PTL DEF Spec, ImplementsPromptDesk, Desk!Spec

-----------------------------------------------------------------------------
(* The answers to the prompts that no two taps or texts overlapped on.       *)

UpTo(n) == [i \in 1..n |-> i]

LEMMA UpToAppend ==
    ASSUME NEW n \in Nat
    PROVE  Append(UpTo(n), n + 1) = UpTo(n + 1)
<1>1. UpTo(n) \in Seq(Nat) /\ Len(UpTo(n)) = n
  BY DEF UpTo
<1> DEFINE s == Append(UpTo(n), n + 1)
<1>2. s \in Seq(Nat) /\ Len(s) = n + 1
  BY <1>1, AppendProperties
<1>3. \A i \in 1..(n + 1) : s[i] = i
  BY <1>1, AppendProperties DEF UpTo
<1>4. s = [i \in 1..(n + 1) |-> s[i]]
  BY <1>2, LenProperties
<1> HIDE DEF s
<1>5. s = UpTo(n + 1)
  BY <1>3, <1>4 DEF UpTo
<1> QED  BY <1>5 DEF s

InChat(r) == \E l \in Listeners, c \in Chats : cur[l][c] = r

\* n questions are answered, the q-th is the one asked last.
Stands(r, n, q) == selected[r] = n /\ answers[r] = UpTo(n) /\ asked[r] = q

\* The requests that ask questions and were handled one tap at a time.
Single == Reqs \ (Confirms \cup overlapped)

\* A request that was never overlapped on has one handler at most.
SoleInv ==
    \A g, h \in Handlers :
        hand[g].req \in Reqs \ overlapped /\ hand[g].req = hand[h].req => g = h

\* A prompt nobody has seen has no answers, one that waits in its chat asks the
\* first question without one.
ProgressInv ==
    \A r \in Single :
      /\ Fresh(r) \/ HeldByLoop(r) => Stands(r, 0, asked[r])
      /\ \A l \in Listeners :
            loop[l].req = r /\ loop[l].pc = "open" => Stands(r, 0, 1)
      /\ InChat(r) /\ ~HeldByHand(r) =>
            /\ selected[r] < NumQuestions(r)
            /\ Stands(r, selected[r], selected[r] + 1)

\* What a handler knows of the questions of its request.
GoodStage(h) ==
    LET r == hand[h].req  n == selected[r] IN
    /\ hand[h].pc \in {"matched", "record"} =>
          n < NumQuestions(r) /\ Stands(r, n, n + 1) /\ hand[h].q = n + 1
    /\ hand[h].pc = "next" => n < NumQuestions(r) /\ Stands(r, n, n)
    /\ hand[h].pc = "sending" =>
          n < NumQuestions(r) /\ Stands(r, n, n) /\ hand[h].q = n + 1
    /\ hand[h].pc \in {"finalize", "resolve"} /\ hand[h].reply = "answer" =>
          hand[h].given = UpTo(NumQuestions(r))
    /\ hand[h].pc # "panic"

StageInv == \A h \in Handlers : hand[h].req \in Single => GoodStage(h)

\* One listener has a request in its chat, and the handler frees it there.
PlaceInv ==
    /\ \A l, k \in Listeners, c, d \in Chats :
          cur[l][c] \in Reqs /\ cur[l][c] = cur[k][d] => l = k
    /\ \A h \in Handlers, l \in Listeners, c \in Chats :
          hand[h].req \in Reqs \ overlapped /\ cur[l][c] = hand[h].req =>
              l = hand[h].lis /\ hand[h].pc # "resolve"

AnswerInv == SoleInv /\ ProgressInv /\ StageInv /\ PlaceInv

\* Steps that show no prompt, take no tap and move no answer.
LEMMA AnswerFrame ==
    ASSUME SafetyInv, AnswerInv, [Next]_vars,
           UNCHANGED <<hand, selected, answers, asked, overlapped>>,
           \A l \in Listeners : \/ loop'[l] = loop[l]
                                \/ loop'[l].req \notin Reqs
                                \/ loop'[l].pc # "open" /\ Fresh(loop'[l].req),
           \A l \in Listeners, c \in Chats : cur'[l][c] \in {cur[l][c], NoReq}
    PROVE  AnswerInv'
<1>1. \A r \in Reqs : Fresh(r)' => Fresh(r)
  BY FreshOnce DEF SafetyInv
<1>2. \A r \in Reqs : HeldByLoop(r)' => HeldByLoop(r) \/ Fresh(r)
  BY DEF HeldByLoop
<1>3. \A r \in Reqs : (InChat(r)' => InChat(r)) /\ (HeldByHand(r)' <=> HeldByHand(r))
  BY ChatAssumption DEF InChat, HeldByHand
<1>0. Single' = Single /\ Single \subseteq Reqs
  BY DEF Single
<1>7. SoleInv'
  BY DEF AnswerInv, SoleInv
<1> HIDE DEF Fresh
<1>4. ProgressInv'
  <2> HIDE DEF InChat, HeldByHand, HeldByLoop
  <2> SUFFICES ASSUME NEW r \in Single
      PROVE  /\ Fresh(r)' \/ HeldByLoop(r)' => Stands(r, 0, asked[r])'
             /\ \A l \in Listeners :
                   loop'[l].req = r /\ loop'[l].pc = "open" => Stands(r, 0, 1)'
             /\ InChat(r)' /\ ~HeldByHand(r)' =>
                   /\ selected'[r] < NumQuestions(r)
                   /\ Stands(r, selected[r], selected[r] + 1)'
    BY <1>0 DEF ProgressInv
  <2>1. \A n, q : Stands(r, n, q) => Stands(r, n, q)'
    BY DEF Stands
  <2>2. Stands(r, 0, asked[r])' <=> Stands(r, 0, asked[r])
    BY DEF Stands
  <2>3. Stands(r, selected[r], selected[r] + 1)' <=> Stands(r, selected[r], selected[r] + 1)
    BY DEF Stands
  <2> HIDE DEF Stands
  <2> QED  BY <1>0, <1>1, <1>2, <1>3, <2>1, <2>2, <2>3 DEF AnswerInv, ProgressInv
<1>5. StageInv'
  <2> SUFFICES ASSUME NEW h \in Handlers, hand[h].req \in Single PROVE GoodStage(h)'
    BY <1>0 DEF StageInv
  <2>1. GoodStage(h)
    BY DEF AnswerInv, StageInv
  <2> QED  BY <2>1 DEF GoodStage, Stands
<1>6. PlaceInv'
  <2>1. \A l \in Listeners, c \in Chats : cur'[l][c] \in Reqs => cur'[l][c] = cur[l][c]
    BY ChatAssumption
  <2>2. UNCHANGED <<hand, overlapped>>
    OBVIOUS
  <2> QED  BY <2>1, <2>2 DEF AnswerInv, PlaceInv
<1> QED  BY <1>4, <1>5, <1>6, <1>7 DEF AnswerInv

\* A step of a loop.
LEMMA LoopAnswers ==
    ASSUME SafetyInv, AnswerInv, [Next]_vars, NEW l \in Listeners, LoopStep(l)
    PROVE  AnswerInv'
<1>0. /\ loop \in [Listeners -> [pc : LoopPCs, req : Reqs \cup {NoReq}]]
      /\ cur \in [Listeners -> [Chats -> Reqs \cup {NoReq}]]
      /\ asked \in [Reqs -> Nat] /\ selected \in [Reqs -> Nat]
      /\ Working /\ HoldInv /\ AnswerInv
  BY DEF SafetyInv, TypeInv, TypeOK, LisTypeOK, PromptTypeOK
<1>1. /\ \A r \in Reqs : Fresh(r)' => Fresh(r)
      /\ \A r \in Reqs : Claimed(r) /\ entry[r] = "queued" => Fresh(r) /\ ~Fresh(r)'
  BY FreshOnce DEF SafetyInv
<1> HIDE DEF Fresh
<1>2. CASE Start(l) \/ NothingToPick(l) \/ FailPrompt(l) \/ OnNotify(l) \/ OnWakeup(l) \/ Exit(l)
  <2>1. UNCHANGED <<hand, cur, selected, answers, asked, overlapped>>
    BY <1>2 DEF Start, NothingToPick, FailPrompt, OnNotify, OnWakeup, Exit, promptVars
  <2>2. \E pc : loop' = [loop EXCEPT ![l] = [pc |-> pc, req |-> NoReq]]
    BY <1>2 DEF Start, NothingToPick, FailPrompt, OnNotify, OnWakeup, Exit, GoLoop
  <2> QED  BY <1>0, <2>1, <2>2, ChatAssumption, AnswerFrame
<1>3. CASE CleanStaleCur(l)
  <2>1. UNCHANGED <<hand, selected, answers, asked, overlapped>>
        /\ loop' = [loop EXCEPT ![l] = [pc |-> "pick", req |-> NoReq]]
    BY <1>3 DEF CleanStaleCur, promptVars, GoLoop
  <2>2. \A k \in Listeners, c \in Chats : cur'[k][c] \in {cur[k][c], NoReq}
    BY <1>0, <1>3 DEF CleanStaleCur
  <2> QED  BY <1>0, <2>1, <2>2, ChatAssumption, AnswerFrame
<1>4. CASE Pick(l)
  <2> PICK r \in Reqs : entry[r] = "queued" /\ Claimed(r) /\ GoLoop(l, "send", r)
    BY <1>4 DEF Pick, IsOldest, Pickable
  <2>1. /\ UNCHANGED <<hand, cur, selected, answers, asked, overlapped>> /\ Fresh(r)
        /\ loop' = [loop EXCEPT ![l] = [pc |-> "send", req |-> r]]
    BY <1>1, <1>4 DEF Pick, promptVars, GoLoop
  <2> QED  BY <1>0, <2>1, AnswerFrame
<1>5. CASE SendPrompt(l)
  <2> PICK r \in Reqs : r = loop[l].req
    BY <1>0, <1>5 DEF SendPrompt, Working
  <2>1. /\ UNCHANGED <<hand, cur, selected, answers, entry, asker, overlapped>>
        /\ asked' = [asked EXCEPT ![r] = 1]
        /\ loop' = [loop EXCEPT ![l] = [pc |-> "open", req |-> r]]
    BY <1>5 DEF SendPrompt, GoLoop, regVars
  <2>2. ~InChat(r) /\ ~HeldByHand(r) /\ ~Fresh(r) /\ \A k \in Listeners : loop[k].req = r => k = l
    BY <1>0 DEF HoldInv, Sending, InChat, HeldByHand, Untouched
  <2>3. \A s \in Reqs : (InChat(s)' <=> InChat(s)) /\ (HeldByHand(s)' <=> HeldByHand(s))
    BY <2>1 DEF InChat, HeldByHand
  <2>4. \A s \in Reqs : s # r => asked'[s] = asked[s]
    BY <1>0, <2>1
  <2>0. Single' = Single /\ Single \subseteq Reqs
    BY <2>1 DEF Single
  <2>5. ASSUME NEW s \in Single
        PROVE  /\ Fresh(s)' \/ HeldByLoop(s)' => Stands(s, 0, asked[s])'
               /\ \A k \in Listeners :
                     loop'[k].req = s /\ loop'[k].pc = "open" => Stands(s, 0, 1)'
               /\ InChat(s)' /\ ~HeldByHand(s)' =>
                     /\ selected'[s] < NumQuestions(s)
                     /\ Stands(s, selected[s], selected[s] + 1)'
    <3>1. CASE s = r
      <4>1. Stands(r, 0, asked[r])
        BY <1>0, <2>0, <2>5, <3>1 DEF AnswerInv, ProgressInv, HeldByLoop
      <4>2. selected'[s] = 0 /\ answers'[s] = UpTo(0) /\ asked'[s] = 1
        BY <1>0, <2>1, <3>1, <4>1 DEF Stands
      <4> QED  BY <2>2, <2>3, <3>1, <4>2 DEF Stands
    <3>2. CASE s # r
      <4>1. /\ \A k \in Listeners : loop'[k].req = s => loop'[k] = loop[k]
            /\ Fresh(s)' \/ HeldByLoop(s)' => Fresh(s) \/ HeldByLoop(s)
        BY <1>0, <1>1, <2>0, <2>1, <3>2 DEF HeldByLoop
      <4> HIDE DEF InChat, HeldByHand, HeldByLoop
      <4> QED  BY <1>0, <2>0, <2>1, <2>3, <2>4, <2>5, <3>2, <4>1 DEF AnswerInv, ProgressInv, Stands
    <3> QED  BY <3>1, <3>2
  <2>6. ProgressInv'
    BY <2>0, <2>5 DEF ProgressInv
  <2>7. StageInv'
    <3> SUFFICES ASSUME NEW h \in Handlers, hand[h].req \in Single PROVE GoodStage(h)'
      BY <2>0, <2>1 DEF StageInv
    <3>1. GoodStage(h) /\ hand[h].req # r
      BY <1>0, <2>0, <2>2 DEF AnswerInv, StageInv, HeldByHand
    <3> QED  BY <2>0, <2>1, <2>4, <3>1 DEF GoodStage, Stands
  <2>8. PlaceInv'
    BY <1>0, <2>1 DEF AnswerInv, PlaceInv
  <2>9. SoleInv'
    BY <1>0, <2>1 DEF AnswerInv, SoleInv
  <2> QED  BY <2>6, <2>7, <2>8, <2>9 DEF AnswerInv
<1>6. CASE SetCur(l)
  <2> PICK r \in Reqs : r = loop[l].req
    BY <1>0, <1>6 DEF SetCur, Working
  <2> DEFINE c == ChatOf[r]
  <2>1. /\ UNCHANGED <<hand, selected, answers, asked, entry, asker, overlapped>>
        /\ cur' = [cur EXCEPT ![l][c] = r]
        /\ loop' = [loop EXCEPT ![l] = [pc |-> "pick", req |-> NoReq]]
        /\ loop[l].pc = "open" /\ c \in Chats
    BY <1>0, <1>6 DEF SetCur, GoLoop, regVars, promptVars, Working
  <2>2. /\ \A k \in Listeners, d \in Chats : cur[k][d] # r
        /\ ~HeldByHand(r) /\ ~Fresh(r)
    BY <1>0 DEF HoldInv, Sending, HeldByHand, Untouched
  <2> HIDE DEF c
  <2>3. \A k \in Listeners, d \in Chats : cur'[k][d] = IF k = l /\ d = c THEN r ELSE cur[k][d]
    BY <1>0, <2>1
  <2>4. \A s \in Reqs : /\ s # r => (InChat(s)' => InChat(s))
                        /\ HeldByHand(s)' <=> HeldByHand(s)
                        /\ HeldByLoop(s)' => HeldByLoop(s)
    BY <1>0, <2>1, <2>3, ChatAssumption DEF InChat, HeldByHand, HeldByLoop
  <2>5. \A k \in Listeners : loop'[k].pc = "open" => loop'[k] = loop[k]
    BY <1>0, <2>1
  <2>0. Single' = Single /\ Single \subseteq Reqs \ Confirms
    BY <2>1 DEF Single
  <2>6. ProgressInv'
    <3> SUFFICES ASSUME NEW s \in Single
        PROVE  /\ Fresh(s)' \/ HeldByLoop(s)' => Stands(s, 0, asked[s])'
               /\ \A k \in Listeners :
                     loop'[k].req = s /\ loop'[k].pc = "open" => Stands(s, 0, 1)'
               /\ InChat(s)' /\ ~HeldByHand(s)' =>
                     /\ selected'[s] < NumQuestions(s)
                     /\ Stands(s, selected[s], selected[s] + 1)'
      BY <2>0 DEF ProgressInv
    <3>1. CASE s = r
      <4>1. Stands(r, 0, 1)
        BY <1>0, <2>1, <3>1 DEF AnswerInv, ProgressInv
      <4>2. 0 < NumQuestions(r)
        BY <2>0, <3>1, ChatAssumption DEF NumQuestions
      <4> QED  BY <2>1, <3>1, <4>1, <4>2 DEF Stands
    <3>2. CASE s # r
      <4> HIDE DEF InChat, HeldByHand, HeldByLoop
      <4> QED  BY <1>0, <1>1, <2>0, <2>1, <2>4, <2>5, <3>2 DEF AnswerInv, ProgressInv, Stands
    <3> QED  BY <3>1, <3>2
  <2>7. StageInv'
    <3> SUFFICES ASSUME NEW h \in Handlers, hand[h].req \in Single PROVE GoodStage(h)'
      BY <2>0, <2>1 DEF StageInv
    <3>1. GoodStage(h)
      BY <1>0 DEF AnswerInv, StageInv
    <3> QED  BY <2>1, <3>1 DEF GoodStage, Stands
  <2>8. PlaceInv'
    BY <1>0, <2>1, <2>2, <2>3, ChatAssumption DEF AnswerInv, PlaceInv, HeldByHand
  <2>9. SoleInv'
    BY <1>0, <2>1 DEF AnswerInv, SoleInv
  <2> QED  BY <2>6, <2>7, <2>8, <2>9 DEF AnswerInv
<1> QED  BY <1>2, <1>3, <1>4, <1>5, <1>6 DEF LoopStep

\* A step of a handler about request r, with x its new record.
LEMMA OneAnswers ==
    ASSUME SafetyInv, AnswerInv, [Next]_vars, NEW h \in Handlers,
           UNCHANGED loop, overlapped \subseteq overlapped',
           NEW r \in Reqs, NEW x \in HandStates, hand' = [hand EXCEPT ![h] = x],
           hand[h].req \in {NoReq, r}, x.req \in {NoReq, r},
           r \notin overlapped' => \A g \in Handlers \ {h} : hand[g].req # r,
           ~Fresh(r), ~HeldByLoop(r),
           \A s \in Reqs \ {r} : /\ selected'[s] = selected[s]
                                 /\ answers'[s] = answers[s]
                                 /\ asked'[s] = asked[s],
           \A l \in Listeners, c \in Chats : cur'[l][c] \in {cur[l][c], NoReq},
           r \in Single' /\ InChat(r)' /\ x.req = NoReq =>
                 /\ selected'[r] < NumQuestions(r)
                 /\ Stands(r, selected[r], selected[r] + 1)',
           r \in Single' /\ x.req = r => GoodStage(h)',
           r \notin overlapped' /\ x.req = r =>
               \A l \in Listeners, c \in Chats : cur'[l][c] = r => l = x.lis /\ x.pc # "resolve"
    PROVE  AnswerInv'
<1>0. /\ hand \in [Handlers -> HandStates] /\ NoReq \notin Reqs
      /\ Single' \subseteq Single /\ Single \subseteq Reqs \ Confirms
      /\ Single' \cap overlapped' = {}
  BY ChatAssumption DEF SafetyInv, TypeInv, TypeOK, HandTypeOK, Single
<1>1. /\ hand'[h] = x /\ \A g \in Handlers : g # h => hand'[g] = hand[g]
      /\ \A s \in Reqs \ {r} : HeldByHand(s)' <=> HeldByHand(s)
      /\ r \notin overlapped' => (HeldByHand(r)' <=> x.req = r)
  BY <1>0 DEF HeldByHand
<1>2. \A s \in Reqs : (InChat(s)' => InChat(s)) /\ (HeldByLoop(s)' <=> HeldByLoop(s))
  BY <1>0 DEF InChat, HeldByLoop
<1>3. \A s \in Reqs : Fresh(s)' => Fresh(s)
  BY FreshOnce DEF SafetyInv
<1> HIDE DEF Fresh, InChat, HeldByHand
<1>4. ProgressInv'
  <2> SUFFICES ASSUME NEW s \in Reqs, s \in Single'
      PROVE  /\ Fresh(s)' \/ HeldByLoop(s)' => Stands(s, 0, asked[s])'
             /\ \A k \in Listeners :
                   loop'[k].req = s /\ loop'[k].pc = "open" => Stands(s, 0, 1)'
             /\ InChat(s)' /\ ~HeldByHand(s)' =>
                   /\ selected'[s] < NumQuestions(s)
                   /\ Stands(s, selected[s], selected[s] + 1)'
    BY <1>0 DEF ProgressInv
  <2>1. CASE s = r
    <3>1. \A k \in Listeners : loop'[k].req # s
      BY <2>1 DEF HeldByLoop
    <3>2. InChat(s)' /\ ~HeldByHand(s)' => x.req = NoReq
      BY <1>0, <1>1, <2>1
    <3> HIDE DEF HeldByLoop, Single
    <3> QED  BY <1>2, <1>3, <2>1, <3>1, <3>2
  <2>2. CASE s # r
    <3>1. HeldByHand(s)' <=> HeldByHand(s)
      BY <1>1, <2>2
    <3>2. s \in Single
      BY <1>0
    <3> HIDE DEF HeldByLoop, Single
    <3> QED  BY <1>2, <1>3, <2>2, <3>1, <3>2 DEF AnswerInv, ProgressInv, Stands
  <2> QED  BY <2>1, <2>2
<1>5. StageInv'
  <2> SUFFICES ASSUME NEW g \in Handlers, hand'[g].req \in Single' PROVE GoodStage(g)'
    BY DEF StageInv
  <2>1. CASE g = h
    BY <1>0, <1>1, <2>1
  <2>2. CASE g # h
    <3>1. hand'[g] = hand[g] /\ hand[g].req \in Single /\ hand[g].req # r
      BY <1>0, <1>1, <2>2
    <3>2. GoodStage(g)
      BY <3>1 DEF AnswerInv, StageInv
    <3> PICK s \in Reqs \ {r} : s = hand[g].req
      BY <1>0, <3>1
    <3>3. selected'[s] = selected[s] /\ answers'[s] = answers[s] /\ asked'[s] = asked[s]
      OBVIOUS
    <3> QED  BY <3>1, <3>2, <3>3 DEF GoodStage, Stands
  <2> QED  BY <2>1, <2>2
<1>6. PlaceInv'
  <2>1. \A l, k \in Listeners, c, d \in Chats :
            cur'[l][c] \in Reqs /\ cur'[l][c] = cur'[k][d] => l = k
    BY <1>0 DEF AnswerInv, PlaceInv
  <2>2. ASSUME NEW g \in Handlers, NEW l \in Listeners, NEW c \in Chats,
               hand'[g].req \in Reqs \ overlapped', cur'[l][c] = hand'[g].req
        PROVE  l = hand'[g].lis /\ hand'[g].pc # "resolve"
    <3>1. CASE g = h
      BY <1>0, <1>1, <2>2, <3>1
    <3>2. CASE g # h
      <4>1. hand'[g] = hand[g] /\ cur[l][c] = hand[g].req /\ hand[g].req \in Reqs \ overlapped
        BY <1>0, <1>1, <2>2, <3>2
      <4> QED  BY <4>1 DEF AnswerInv, PlaceInv
    <3> QED  BY <3>1, <3>2
  <2> QED  BY <2>1, <2>2 DEF PlaceInv
<1>7. SoleInv'
  <2> SUFFICES ASSUME NEW g \in Handlers, NEW k \in Handlers,
                      hand'[g].req \in Reqs \ overlapped', hand'[g].req = hand'[k].req
               PROVE  g = k
    BY DEF SoleInv
  <2>1. CASE g # h /\ k # h
    BY <1>1, <2>1 DEF AnswerInv, SoleInv
  <2>2. CASE g = h \/ k = h
    BY <1>0, <1>1, <2>2
  <2> QED  BY <2>1, <2>2
<1> QED  BY <1>4, <1>5, <1>6, <1>7 DEF AnswerInv

\* What a handler does to the answers of its request.
LEMMA HandAnswers ==
    ASSUME SafetyInv, AnswerInv, [Next]_vars, NEW h \in Handlers, HandlerStep(h)
    PROVE  AnswerInv'
<1>0. /\ hand \in [Handlers -> HandStates] /\ GoodHand(hand[h])
      /\ cur \in [Listeners -> [Chats -> Reqs \cup {NoReq}]]
      /\ asked \in [Reqs -> Nat] /\ selected \in [Reqs -> Nat]
      /\ answers \in [Reqs -> Seq(Nat)]
      /\ \A l \in Listeners, c \in Chats : cur[l][c] \in Reqs => ChatOf[cur[l][c]] = c
  BY DEF SafetyInv, TypeInv, TypeOK, LisTypeOK, PromptTypeOK, HandTypeOK, Working
<1> PICK r \in Reqs : r = hand[h].req
  BY <1>0 DEF HandlerStep, DeletePrompt, Record, AskNext, NextSent, NextFailed, Finalize,
              ResolveReply, GoodHand
<1> DEFINE n == selected[r]
           N == NumQuestions(r)
<1>1. ~Fresh(r) /\ ~HeldByLoop(r)
  BY <1>0 DEF SafetyInv, HoldInv, Untouched, Sending, HeldByLoop
<1>2. r \in Single => GoodStage(h) /\ r \notin Confirms
  BY <1>0 DEF AnswerInv, StageInv, Single
<1>3. r \notin overlapped =>
          \A l \in Listeners, c \in Chats : cur[l][c] = r => l = hand[h].lis /\ hand[h].pc # "resolve"
  BY <1>0 DEF AnswerInv, PlaceInv
<1>b. overlapped' = overlapped /\ Single' = Single /\ (r \in Single => r \notin overlapped)
  BY DEF HandlerStep, DeletePrompt, Record, AskNext, NextSent, NextFailed, Finalize,
         ResolveReply, promptVars, Single
<1>c. r \notin overlapped' => \A g \in Handlers \ {h} : hand[g].req # r
  BY <1>b DEF AnswerInv, SoleInv
<1>4. r \notin Confirms => N \in Nat
  BY ChatAssumption, LenProperties DEF NumQuestions
<1> HIDE DEF Fresh, HeldByLoop, Single
<1>a. hand[h] \in HandStates /\ hand[h].req = r /\ NoReq # r
  BY <1>0, ChatAssumption
<1>5. CASE DeletePrompt(h)
  <2>0. UNCHANGED <<loop, cur, selected, answers, asked, overlapped>> /\ hand[h].pc = "matched"
    BY <1>5 DEF DeletePrompt, lisVars
  <2>1. /\ \E v \in Replies :
              \/ /\ r \in Confirms
                 /\ hand' = [hand EXCEPT ![h] = [hand[h] EXCEPT !.pc = "finalize", !.reply = v]]
              \/ /\ r \notin Confirms
                 /\ hand' = [hand EXCEPT ![h] = [hand[h] EXCEPT !.pc = "record"]]
    BY <1>5 DEF DeletePrompt, GoHand, Replies
  <2>2. ASSUME NEW v \in Replies, r \in Confirms,
               hand' = [hand EXCEPT ![h] = [hand[h] EXCEPT !.pc = "finalize", !.reply = v]]
        PROVE  AnswerInv'
    <3> DEFINE x == [hand[h] EXCEPT !.pc = "finalize", !.reply = v]
    <3>1. x \in HandStates /\ x.req = r /\ x.pc = "finalize" /\ x.lis = hand[h].lis
      BY <1>a DEF HandStates, HandPCs
    <3>2. hand' = [hand EXCEPT ![h] = x] /\ r \in Confirms
      BY <2>2
    <3> HIDE DEF x
    <3> QED  BY <1>0, <1>1, <1>2, <1>3, <1>a, <2>0, <3>1, <3>2, <1>b, <1>c, OneAnswers
  <2>3. ASSUME r \notin Confirms,
               hand' = [hand EXCEPT ![h] = [hand[h] EXCEPT !.pc = "record"]]
        PROVE  AnswerInv'
    <3> DEFINE x == [hand[h] EXCEPT !.pc = "record"]
    <3>1. /\ x \in HandStates /\ x.req = r /\ x.pc = "record" /\ x.lis = hand[h].lis
          /\ x.q = hand[h].q
      BY <1>a DEF HandStates, HandPCs
    <3>2. hand' = [hand EXCEPT ![h] = x] /\ hand'[h] = x
      BY <1>0, <2>3
    <3> HIDE DEF x
    <3>3. r \in Single => GoodStage(h)'
      BY <1>2, <1>a, <2>0, <2>3, <3>1, <3>2 DEF GoodStage, Stands
    <3> QED  BY <1>0, <1>1, <1>3, <1>a, <2>0, <3>1, <3>2, <3>3, <1>b, <1>c, OneAnswers
  <2> QED  BY <2>1, <2>2, <2>3
<1>6. CASE Record(h)
  <2> DEFINE as == Append(answers[r], hand[h].q)
             x == AfterRecord(h, n + 1, as)
  <2>1. /\ UNCHANGED <<loop, cur, asked, overlapped>> /\ hand[h].pc = "record"
        /\ answers' = [answers EXCEPT ![r] = as]
        /\ selected' = [selected EXCEPT ![r] = n + 1]
        /\ hand' = [hand EXCEPT ![h] = x]
    BY <1>6 DEF Record, lisVars
  <2>2. as \in Seq(Nat) /\ n + 1 \in Nat /\ hand[h].q \in Nat
    BY <1>0, <1>a, AppendProperties DEF HandStates
  <2>3. /\ x \in HandStates /\ x.req = r /\ x.lis = hand[h].lis
        /\ x.pc = IF n + 1 >= N THEN "finalize" ELSE "next"
        /\ x.pc = "finalize" => x.given = as
    <3> HIDE DEF as
    <3> QED  BY <1>a, <2>1, <2>2 DEF AfterRecord, HandStates, HandPCs, Replies
  <2> HIDE DEF x
  <2>4. r \in Single => GoodStage(h)'
    <3> SUFFICES ASSUME r \in Single PROVE GoodStage(h)'
      OBVIOUS
    <3>1. n < N /\ answers[r] = UpTo(n) /\ asked[r] = n + 1 /\ hand[h].q = n + 1
      BY <1>2, <1>a, <2>1 DEF GoodStage, Stands
    <3>2. as = UpTo(n + 1)
      BY <1>0, <3>1, UpToAppend
    <3> HIDE DEF as
    <3>3. hand'[h] = x /\ selected'[r] = n + 1 /\ answers'[r] = UpTo(n + 1) /\ asked'[r] = n + 1
      BY <1>0, <2>1, <3>1, <3>2
    <3>6. n \in Nat /\ N \in Nat
      BY <1>0, <1>2, <1>4
    <3>4. x.pc = "finalize" => n + 1 = N
      <4> HIDE DEF n, N
      <4> QED  BY <2>3, <3>1, <3>6
    <3>5. x.pc = "next" => n + 1 < N
      <4> HIDE DEF n, N
      <4> QED  BY <2>3, <3>1, <3>6
    <3> HIDE DEF n, N
    <3> QED  BY <2>3, <3>2, <3>3, <3>4, <3>5 DEF GoodStage, Stands, N
  <2>5. \A s \in Reqs \ {r} : selected'[s] = selected[s] /\ answers'[s] = answers[s]
    BY <2>1
  <2>6. x.pc # "resolve"
    BY <2>3
  <2>7. /\ UNCHANGED <<loop, cur, asked, overlapped>> /\ hand' = [hand EXCEPT ![h] = x]
        /\ x \in HandStates /\ x.req = r /\ x.lis = hand[h].lis
    BY <2>1, <2>3
  <2>8. r \notin overlapped' =>
            \A l \in Listeners, c \in Chats : cur'[l][c] = r => l = x.lis /\ x.pc # "resolve"
    BY <1>3, <2>6, <2>7
  <2> HIDE DEF as, n, N
  <2> QED  BY <1>0, <1>1, <1>a, <2>4, <2>5, <2>7, <2>8, <1>b, <1>c, OneAnswers
<1>7. CASE AskNext(h)
  <2> DEFINE x == IF n < N THEN [hand[h] EXCEPT !.pc = "sending", !.q = n + 1]
                           ELSE [hand[h] EXCEPT !.pc = "panic"]
  <2>1. /\ UNCHANGED <<loop, cur, asked, selected, answers, overlapped>> /\ hand[h].pc = "next"
        /\ hand' = [hand EXCEPT ![h] = x]
    BY <1>7 DEF AskNext, lisVars, promptVars
  <2>2. /\ x \in HandStates /\ x.req = r /\ x.lis = hand[h].lis
        /\ x.pc \in {"sending", "panic"}
        /\ n < N => x.pc = "sending" /\ x.q = n + 1
    <3>1. n + 1 \in Nat
      BY <1>0
    <3> HIDE DEF n, N
    <3>2. CASE n < N  BY <1>a, <3>1, <3>2 DEF HandStates, HandPCs
    <3>3. CASE ~(n < N)  BY <1>a, <3>1, <3>3 DEF HandStates, HandPCs
    <3> QED  BY <3>2, <3>3
  <2> HIDE DEF x
  <2>3. r \in Single => GoodStage(h)'
    <3> SUFFICES ASSUME r \in Single PROVE GoodStage(h)'
      OBVIOUS
    <3>1. n < N /\ Stands(r, n, n) /\ hand'[h] = x
      BY <1>0, <1>2, <1>a, <2>1 DEF GoodStage
    <3> QED  BY <2>1, <2>2, <3>1 DEF GoodStage, Stands
  <2> QED  BY <1>0, <1>1, <1>3, <1>a, <2>1, <2>2, <2>3, <1>b, <1>c, OneAnswers
<1>8. CASE NextSent(h)
  <2>1. /\ UNCHANGED <<loop, cur, selected, answers, overlapped>> /\ hand[h].pc = "sending"
        /\ asked' = [asked EXCEPT ![r] = hand[h].q]
        /\ hand' = [hand EXCEPT ![h] = IdleHand]
    BY <1>8 DEF NextSent, lisVars
  <2>2. IdleHand \in HandStates /\ IdleHand.req = NoReq
    BY EmptySeq DEF IdleHand, HandStates, HandPCs, Nothing
  <2>3. r \in Single => /\ selected'[r] < NumQuestions(r)
                        /\ Stands(r, selected[r], selected[r] + 1)'
    <3> SUFFICES ASSUME r \in Single
                 PROVE  selected'[r] < NumQuestions(r) /\ Stands(r, selected[r], selected[r] + 1)'
      OBVIOUS
    <3>1. n < N /\ Stands(r, n, n) /\ hand[h].q = n + 1
      BY <1>2, <1>a, <2>1 DEF GoodStage
    <3>2. asked'[r] = n + 1 /\ selected'[r] = n /\ answers'[r] = UpTo(n)
      BY <1>0, <2>1, <3>1 DEF Stands
    <3> QED  BY <3>1, <3>2 DEF Stands
  <2>4. \A s \in Reqs \ {r} : asked'[s] = asked[s]
    BY <2>1
  <2> HIDE DEF IdleHand
  <2> QED  BY <1>0, <1>1, <1>3, <1>a, <2>1, <2>2, <2>3, <2>4, <1>b, <1>c, OneAnswers
<1>9. CASE NextFailed(h)
  <2> DEFINE x == [hand[h] EXCEPT !.pc = "finalize", !.reply = "error"]
  <2>1. /\ UNCHANGED <<loop, cur, asked, selected, answers, overlapped>> /\ hand[h].pc = "sending"
        /\ hand' = [hand EXCEPT ![h] = x]
    BY <1>9 DEF NextFailed, lisVars, promptVars
  <2>2. /\ x \in HandStates /\ x.req = r /\ x.lis = hand[h].lis
        /\ x.pc = "finalize" /\ x.reply = "error"
    BY <1>a DEF HandStates, HandPCs, Replies
  <2> HIDE DEF x
  <2>3. GoodStage(h)'
    <3>1. hand'[h] = x /\ "error" # "answer"
      BY <1>0, <2>1
    <3> QED  BY <2>2, <3>1 DEF GoodStage
  <2> QED  BY <1>0, <1>1, <1>3, <1>a, <2>1, <2>2, <2>3, <1>b, <1>c, OneAnswers
<1>10. CASE Finalize(h)
  <2> DEFINE x == [hand[h] EXCEPT !.pc = "resolve"]
             l == hand[h].lis
  <2>1. /\ UNCHANGED <<loop, asked, selected, answers, overlapped>> /\ hand[h].pc = "finalize"
        /\ hand' = [hand EXCEPT ![h] = x]
    BY <1>10 DEF Finalize, GoHand, promptVars
  <2>7. /\ cur' = IF cur[l][ChatOf[r]] = r THEN [cur EXCEPT ![l][ChatOf[r]] = NoReq] ELSE cur
        /\ l \in Listeners /\ ChatOf[r] \in Chats
    BY <1>0, <1>a, <1>10 DEF Finalize, GoodHand
  <2>2. /\ x \in HandStates /\ x.req = r /\ x.lis = hand[h].lis /\ x.pc = "resolve"
        /\ x.reply = hand[h].reply /\ x.given = hand[h].given
    BY <1>a DEF HandStates, HandPCs
  <2> HIDE DEF x
  <2>3. r \in Single => GoodStage(h)'
    <3>1. hand'[h] = x
      BY <1>0, <2>1
    <3> QED  BY <1>2, <1>a, <2>1, <2>2, <3>1 DEF GoodStage
  <2>5. \A k \in Listeners, c \in Chats : cur'[k][c] \in {cur[k][c], NoReq}
    BY <1>0, <2>7
  <2>6. r \notin overlapped => \A k \in Listeners, c \in Chats : cur'[k][c] # r
    <3> SUFFICES ASSUME r \notin overlapped, NEW k \in Listeners, NEW c \in Chats, cur'[k][c] = r PROVE FALSE
      OBVIOUS
    <3>1. cur[k][c] = r
      BY <1>a, <2>5
    <3>2. k = l /\ c = ChatOf[r]
      BY <1>0, <1>3, <3>1
    <3> QED  BY <1>0, <1>a, <2>7, <3>1, <3>2
  <2> HIDE DEF l
  <2> QED  BY <1>0, <1>1, <1>3, <1>a, <2>1, <2>2, <2>3, <2>5, <2>6, <1>b, <1>c, OneAnswers
<1>11. CASE ResolveReply(h)
  <2>1. /\ UNCHANGED <<loop, cur, asked, selected, answers, overlapped>> /\ hand[h].pc = "resolve"
        /\ hand' = [hand EXCEPT ![h] = IdleHand]
    BY <1>11 DEF ResolveReply, promptVars
  <2>2. IdleHand \in HandStates /\ IdleHand.req = NoReq
    BY EmptySeq DEF IdleHand, HandStates, HandPCs, Nothing
  <2>3. r \notin overlapped => ~InChat(r)'
    BY <1>3, <2>1 DEF InChat
  <2> HIDE DEF IdleHand, InChat
  <2> QED  BY <1>0, <1>1, <1>3, <1>a, <2>1, <2>2, <2>3, <1>b, <1>c, OneAnswers
<1> QED  BY <1>5, <1>6, <1>7, <1>8, <1>9, <1>10, <1>11 DEF HandlerStep

\* A tap or a text finds the question that was asked last.
LEMMA TapAnswers ==
    ASSUME SafetyInv, AnswerInv, [Next]_vars, NEW h \in Handlers,
           NEW c \in Chats, OnCallback(h, c) \/ OnText(h, c)
    PROVE  AnswerInv'
<1>0. /\ hand \in [Handlers -> HandStates] /\ GoodHand(hand[h])
      /\ bot \in Listeners \cup {NoBot}
      /\ cur \in [Listeners -> [Chats -> Reqs \cup {NoReq}]] /\ live \subseteq Reqs
      /\ asked \in [Reqs -> Nat]
      /\ HoldInv /\ AnswerInv
  BY DEF SafetyInv, TypeInv, TypeOK, LisTypeOK, PromptTypeOK, HandTypeOK, Working
<1>1. bot \in Listeners /\ cur[bot][c] \in Reqs
  BY <1>0 DEF OnCallback, OnText
<1> PICK r \in Reqs : r = cur[bot][c]
  BY <1>1
<1> DEFINE x == [IdleHand EXCEPT !.pc = "matched", !.req = r, !.q = asked[r], !.lis = bot]
<1>2. /\ UNCHANGED <<loop, cur, asked, selected, answers>> /\ hand[h].pc = "idle"
      /\ hand' = [hand EXCEPT ![h] = x] /\ overlapped \subseteq overlapped'
      /\ r \notin overlapped' => \A g \in Handlers : hand[g].req # r
  BY DEF OnCallback, OnText, Match, lisVars, promptVars
<1>3. /\ x \in HandStates /\ x.req = r /\ x.lis = bot /\ x.pc = "matched" /\ x.q = asked[r]
  BY <1>0, <1>1, EmptySeq DEF HandStates, HandPCs, IdleHand, Nothing
<1>4. ~Fresh(r) /\ ~HeldByLoop(r) /\ InChat(r)
  BY <1>0, <1>1 DEF HoldInv, Untouched, Sending, HeldByLoop, InChat
<1>5. /\ hand[h].req = NoReq /\ NoReq # r
      /\ r \notin overlapped' => ~HeldByHand(r)
      /\ r \in Single' => r \in Single /\ r \notin overlapped'
  BY <1>0, <1>2, ChatAssumption DEF GoodHand, HeldByHand, Single
<1> HIDE DEF x
<1>6. r \in Single' => GoodStage(h)'
  <2>1. r \in Single' => /\ selected[r] < NumQuestions(r)
                         /\ Stands(r, selected[r], selected[r] + 1)
    BY <1>0, <1>4, <1>5 DEF AnswerInv, ProgressInv
  <2>2. hand'[h] = x
    BY <1>0, <1>2
  <2> QED  BY <1>2, <1>3, <2>1, <2>2 DEF GoodStage, Stands
<1>7. \A l \in Listeners, d \in Chats : cur[l][d] = r => l = bot
  BY <1>0, <1>1 DEF AnswerInv, PlaceInv
<1> HIDE DEF Fresh, HeldByLoop, InChat, HeldByHand, Single
<1> QED  BY <1>0, <1>2, <1>3, <1>4, <1>5, <1>6, <1>7, OneAnswers

\* Two handlers race on a request only after they overlapped on it.
LEMMA RacyAnswers ==
    ASSUME SafetyInv, AnswerInv, [Next]_vars, NEW g \in Handlers, NEW h \in Handlers,
           RacyRecord(g, h)
    PROVE  AnswerInv'
<1>0. /\ hand \in [Handlers -> HandStates] /\ \A k \in Handlers : GoodHand(hand[k])
      /\ NoReq \notin Reqs /\ answers \in [Reqs -> Seq(Nat)] /\ selected \in [Reqs -> Nat]
  BY ChatAssumption DEF SafetyInv, TypeInv, TypeOK, HandTypeOK, PromptTypeOK, Working
<1> PICK r \in Reqs : r = hand[h].req
  BY <1>0 DEF RacyRecord, GoodHand
<1>1. r \in overlapped
  BY DEF RacyRecord, AnswerInv, SoleInv
<1>2. /\ UNCHANGED <<loop, cur, asked, overlapped>>
      /\ \A s \in Reqs \ {r} : selected'[s] = selected[s] /\ answers'[s] = answers[s]
  BY <1>0 DEF RacyRecord, lisVars
<1>3. \A n, as : AfterRecord(g, n, as).req = r /\ AfterRecord(h, n, as).req = r
  BY <1>0 DEF RacyRecord, AfterRecord, HandStates
<1>4. \A k \in Handlers : /\ hand'[k].req = hand[k].req
                          /\ hand[k].req # r => hand'[k] = hand[k]
  <2>1. PICK n, as : hand' = [hand EXCEPT ![g] = AfterRecord(g, n, as),
                                          ![h] = AfterRecord(h, n, as)]
    BY DEF RacyRecord
  <2>2. hand[g].req = r
    BY DEF RacyRecord
  <2> QED  BY <1>0, <1>3, <2>1, <2>2
<1>5. /\ \A s \in Reqs : HeldByHand(s)' <=> HeldByHand(s)
      /\ \A s \in Reqs : (InChat(s)' <=> InChat(s)) /\ (HeldByLoop(s)' <=> HeldByLoop(s))
  BY <1>2, <1>4 DEF HeldByHand, InChat, HeldByLoop
<1>6. \A s \in Reqs : Fresh(s)' => Fresh(s)
  BY FreshOnce DEF SafetyInv
<1>7. Single' = Single /\ Single \subseteq Reqs \ {r}
  BY <1>1, <1>2 DEF Single
<1> HIDE DEF Fresh, InChat, HeldByHand, HeldByLoop, Single
<1>8. ProgressInv'
  <2> SUFFICES ASSUME NEW s \in Single
      PROVE  /\ Fresh(s)' \/ HeldByLoop(s)' => Stands(s, 0, asked[s])'
             /\ \A k \in Listeners :
                   loop'[k].req = s /\ loop'[k].pc = "open" => Stands(s, 0, 1)'
             /\ InChat(s)' /\ ~HeldByHand(s)' =>
                   /\ selected'[s] < NumQuestions(s)
                   /\ Stands(s, selected[s], selected[s] + 1)'
    BY <1>7 DEF ProgressInv
  <2> QED  BY <1>2, <1>5, <1>6, <1>7 DEF AnswerInv, ProgressInv, Stands
<1>9. StageInv'
  <2> SUFFICES ASSUME NEW k \in Handlers, hand'[k].req \in Single PROVE GoodStage(k)'
    BY <1>7 DEF StageInv
  <2>1. hand'[k] = hand[k] /\ hand[k].req \in Single
    BY <1>4, <1>7
  <2>2. GoodStage(k)
    BY <2>1 DEF AnswerInv, StageInv
  <2> PICK s \in Reqs \ {r} : s = hand[k].req
    BY <1>7, <2>1
  <2>3. selected'[s] = selected[s] /\ answers'[s] = answers[s] /\ asked'[s] = asked[s]
    BY <1>2
  <2> QED  BY <2>1, <2>2, <2>3 DEF GoodStage, Stands
<1>10. PlaceInv' /\ SoleInv'
  <2>1. \A k \in Handlers : hand'[k].req \in Reqs \ overlapped' => hand'[k] = hand[k]
    BY <1>1, <1>2, <1>4
  <2> QED  BY <1>2, <1>4, <2>1 DEF AnswerInv, PlaceInv, SoleInv
<1> QED  BY <1>8, <1>9, <1>10 DEF AnswerInv

\* However many taps and texts are handled at once: unless two of them
\* overlapped on this very prompt, the answers handed to the asker are one per
\* question, each given to that question, and no handler asks past the last one.
THEOREM AnswersPaired == Spec => []AnswersMatchQuestions
<1>1. Init => AnswerInv
  <2> SUFFICES ASSUME Init PROVE AnswerInv
    OBVIOUS
  <2>1. <<>> = UpTo(0)
    BY DEF UpTo
  <2>2. ProgressInv
    BY <2>1, ChatAssumption
       DEF Init, ProgressInv, Stands, Single, InChat, HeldByLoop, HeldByHand
  <2>3. StageInv
    BY ChatAssumption DEF Init, StageInv, IdleHand, Single
  <2>4. PlaceInv
    BY ChatAssumption DEF Init, PlaceInv, IdleHand
  <2>5. SoleInv
    BY ChatAssumption DEF Init, SoleInv, IdleHand
  <2> QED  BY <2>2, <2>3, <2>4, <2>5 DEF AnswerInv
<1>2. SafetyInv /\ AnswerInv /\ [Next]_vars => AnswerInv'
  <2> SUFFICES ASSUME SafetyInv, AnswerInv, [Next]_vars PROVE AnswerInv'
    OBVIOUS
  <2>1. CASE AskerStep /\ UNCHANGED <<lisVars, promptVars, hand>>
    BY <2>1, AnswerFrame DEF lisVars, promptVars
  <2>2. CASE CloseBot \/ UNCHANGED vars
    BY <2>2, AnswerFrame DEF CloseBot, vars, lisVars, promptVars
  <2>3. ASSUME NEW l \in Listeners, NewBot(l) PROVE AnswerInv'
    <3>1. UNCHANGED <<hand, selected, answers, asked, cur, overlapped>>
      BY <2>3 DEF NewBot, promptVars
    <3>2. \A k \in Listeners : loop'[k] = loop[k] \/ loop'[k].req \notin Reqs
      BY <2>3, ChatAssumption DEF NewBot, GoLoop, SafetyInv, TypeInv, TypeOK, LisTypeOK
    <3> QED  BY <3>1, <3>2, AnswerFrame
  <2>4. ASSUME NEW l \in Listeners, LoopStep(l) PROVE AnswerInv'
    BY <2>4, LoopAnswers
  <2>5. ASSUME NEW h \in Handlers, HandlerStep(h) PROVE AnswerInv'
    BY <2>5, HandAnswers
  <2>6. ASSUME NEW h \in Handlers, NEW c \in Chats, OnCallback(h, c) \/ OnText(h, c)
        PROVE  AnswerInv'
    BY <2>6, TapAnswers
  <2>7. ASSUME NEW g \in Handlers, NEW h \in Handlers, RacyRecord(g, h) PROVE AnswerInv'
    BY <2>7, RacyAnswers
  <2> QED  BY <2>1, <2>2, <2>3, <2>4, <2>5, <2>6, <2>7 DEF Next, Quiet
<1>3. SafetyInv /\ AnswerInv => AnswersMatchQuestions
  <2> SUFFICES ASSUME SafetyInv, AnswerInv, NEW h \in Handlers, hand[h].req \in Single
               PROVE  /\ hand[h].pc # "panic"
                      /\ hand[h].pc \in {"finalize", "resolve"} /\ hand[h].reply = "answer" =>
                            hand[h].given = UpTo(NumQuestions(hand[h].req))
    BY DEF AnswersMatchQuestions, UpTo, Single
  <2> QED  BY DEF AnswerInv, StageInv, GoodStage
<1> QED  BY <1>1, <1>2, <1>3, Safety, PTL DEF Spec

-----------------------------------------------------------------------------
(* The pages of the terminal window.                                        *)

\* What the daemon's connection has loaded is the newest token once the connection was made
\* anew, or an older one had been written back before.
TokenInv ==
    /\ token = [s \in Servers |-> token[s]]
    /\ source = [s \in Servers |-> source[s]]
    /\ latest = [s \in Servers |-> latest[s]]
    /\ NewestToken
    /\ \A s \in Servers :
          source[s] # 0 /\ s \in renewed => source[s] = latest[s] \/ s \in overtaken

TokenVars == <<token, source, latest, renewed, overtaken>>

\* What an action does to the tokens.
TokenStep ==
    \/ UNCHANGED TokenVars
    \/ \E s : ClearOAuth(s) \/ SaveOAuthClient(s) \/ ClientSaved(s)
    \/ \E s : LoadToken(s) \/ Refresh(s) \/ Reconnect(s)
    \/ \E l \in DOMAIN login : LoginSucceeds(l)

LEMMA WizardTokens ==
    ASSUME (ModelHandler /\ UNCHANGED mcp) \/ McpHandler
    PROVE  TokenStep
<1>1. CASE UNCHANGED mcp
  BY <1>1 DEF mcp, oauthVars, TokenStep, TokenVars
<1>2. CASE MenuPick \/ AddName \/ Add
  BY <1>2 DEF MenuPick, AddName, Add, oauthVars, TokenStep, TokenVars
<1>3. CASE RunMcpRemove
  BY <1>3 DEF RunMcpRemove, oauthVars, TokenStep, TokenVars
<1>4. CASE ServerAction
  BY <1>4 DEF ServerAction, StartMcpLogin, StartLogin, oauthVars, TokenStep, TokenVars
<1>5. CASE Client
  BY <1>5 DEF Client, oauthVars, TokenStep, TokenVars
<1>6. CASE Paste
  BY <1>6 DEF Paste, SubmitCallback, Deliver, oauthVars, TokenStep, TokenVars
<1> QED  BY <1>1, <1>2, <1>3, <1>4, <1>5, <1>6 DEF McpHandler

LEMMA DialogTokens ==
    ASSUME [DialogsNext]_dialogVars
    PROVE  TokenStep
<1>1. CASE UNCHANGED dialogVars
  BY <1>1 DEF dialogVars, oauthVars, TokenStep, TokenVars
<1>2. CASE Command
  BY <1>2 DEF Command, CommandModelAdd, CommandMcp, mcp, oauthVars, TokenStep, TokenVars
<1>3. CASE Enter \/ Back \/ Prompts \/ ModelMessages
  BY <1>3 DEF Enter, Back, Prompts, ModelMessages, mcp, oauthVars, TokenStep, TokenVars
<1>4. CASE Handler
  BY <1>4, WizardTokens DEF Handler
<1>5. CASE McpMessages
  <2>1. CASE OpenPaste
    BY <2>1 DEF OpenPaste, oauthVars, TokenStep, TokenVars
  <2>2. CASE Saved
    BY <2>2 DEF Saved, StartMcpLogin, StartLogin, oauthVars, TokenStep, TokenVars
  <2>3. CASE McpOAuthDone
    BY <2>3 DEF McpOAuthDone, LoginFails, TokenStep, TokenVars
  <2> QED  BY <1>5, <2>1, <2>2, <2>3 DEF McpMessages
<1>6. CASE Daemon /\ Web
  <2>1. Web  BY <1>6
  <2>2. CASE \E s : SaveOAuthClient(s) \/ ClearOAuth(s)
    BY <2>2 DEF TokenStep
  <2>3. CASE \E s, p : StartLogin(s, p)
    BY <2>3 DEF StartLogin, TokenStep, TokenVars
  <2>4. CASE \E l \in DOMAIN login : LoginSucceeds(l) \/ LoginFails(l)
    BY <2>4 DEF LoginFails, TokenStep, TokenVars
  <2>5. CASE \E s, p, code : SubmitCallback(s, p, code)
    BY <2>5 DEF SubmitCallback, Deliver, oauthVars, TokenStep, TokenVars
  <2> QED  BY <2>1, <2>2, <2>3, <2>4, <2>5 DEF Web
<1>7. CASE Daemon /\ Connection
  BY <1>7 DEF Connection, Redirect, Deliver, Listen, TokenStep, TokenVars
<1> QED
  BY <1>1, <1>2, <1>3, <1>4, <1>5, <1>6, <1>7 DEF DialogsNext, Daemon

LEMMA TokenNext ==
    ASSUME TokenInv, [DialogsNext]_dialogVars
    PROVE  TokenInv'
<1>1. CASE UNCHANGED TokenVars
  BY <1>1 DEF TokenVars, TokenInv, NewestToken
<1>2. CASE \E s : ClearOAuth(s) \/ SaveOAuthClient(s) \/ ClientSaved(s)
  BY <1>2 DEF ClearOAuth, SaveOAuthClient, ClientSaved, LoginsUntouched, TokenInv, NewestToken
<1>3. CASE \E s : LoadToken(s)
  BY <1>3 DEF LoadToken, TokenInv, NewestToken
<1>4. CASE \E s : Refresh(s)
  BY <1>4 DEF Refresh, TokenInv, NewestToken
<1>5. CASE \E s : Reconnect(s)
  BY <1>5 DEF Reconnect, TokenInv, NewestToken
<1>6. CASE \E l \in DOMAIN login : LoginSucceeds(l)
  BY <1>6 DEF LoginSucceeds, TokenInv, NewestToken
<1>7. TokenStep  BY DialogTokens
<1> QED  BY <1>1, <1>2, <1>3, <1>4, <1>5, <1>6, <1>7 DEF TokenStep

\* NewestToken: the token on file is that of the last login, once the connection was made
\* anew after it, unless an older one was written back before that.
THEOREM TokenStaysNewest == DialogsSpec => []NewestToken
<1>1. DialogsInit => TokenInv
  BY DEF DialogsInit, OAuthInit, TokenInv, NewestToken
<1>2. TokenInv /\ [DialogsNext]_dialogVars => TokenInv'
  BY TokenNext
<1>3. TokenInv => NewestToken
  BY DEF TokenInv
<1> QED
  BY <1>1, <1>2, <1>3, PTL DEF DialogsSpec

\* A stack of pages, of whatever their fields are.
IsStack(st) == \E S : st \in Seq(S)

\* st is what is left of t once its last pages are gone.
AtMost(st, t) == Len(st) <= Len(t) /\ \A i \in 1..Len(st) : st[i] = t[i]

LEMMA StackFacts ==
    ASSUME NEW st, IsStack(st)
    PROVE  /\ Len(st) \in Nat /\ DOMAIN st = 1..Len(st)
           /\ (st = << >> <=> Len(st) = 0)
           /\ Last(st) = st[Len(st)]
BY DEF IsStack, Last

LEMMA OnePage ==
    ASSUME NEW p
    PROVE  IsStack(<<p>>) /\ Len(<<p>>) = 1 /\ <<p>>[1] = p /\ Last(<<p>>) = p
<1>1. <<p>> \in Seq({p})  OBVIOUS
<1> QED  BY <1>1 DEF IsStack, Last

LEMMA NoPage == IsStack(<< >>)
<1>1. << >> \in Seq({})  OBVIOUS
<1> QED  BY <1>1 DEF IsStack

LEMMA FrontStack ==
    ASSUME NEW st, IsStack(st), st # << >>
    PROVE  IsStack(Front(st)) /\ Len(Front(st)) = Len(st) - 1 /\ AtMost(Front(st), st)
<1>1. PICK S : st \in Seq(S)  BY DEF IsStack
<1>2. Len(st) \in Nat /\ Len(st) >= 1  BY <1>1
<1> DEFINE n == Len(st) - 1
<1>3. Front(st) = SubSeq(st, 1, n)  BY DEF Front
<1>4. n \in Nat /\ \A i \in 1..n : st[i] \in S  BY <1>1, <1>2
<1>5. Front(st) \in Seq(S) /\ Len(Front(st)) = n /\ \A i \in 1..n : Front(st)[i] = st[i]
  <2> HIDE DEF n
  <2>1. /\ SubSeq(st, 1, n) \in Seq(S)
        /\ Len(SubSeq(st, 1, n)) = IF 1 <= n THEN n - 1 + 1 ELSE 0
        /\ \A i \in 1..(n - 1 + 1) : SubSeq(st, 1, n)[i] = st[1 + i - 1]
    BY <1>4, SubSeqProperties
  <2> QED  BY <1>3, <1>4, <2>1
<1> QED  BY <1>2, <1>5 DEF IsStack, AtMost

\* The last of the positions there are.
LEMMA MaxPosition ==
    ASSUME NEW n \in Nat, NEW A \in SUBSET (1..n), A # {}
    PROVE  Max(A) \in A /\ \A i \in A : i <= Max(A)
<1> DEFINE less == OpToRel(<, Nat)  B == {n - i : i \in A}
<1>1. B \subseteq Nat /\ B # {}
  <2>1. \A i \in A : n - i \in Nat  OBVIOUS
  <2>2. PICK i \in A : TRUE  OBVIOUS
  <2>3. n - i \in B  OBVIOUS
  <2> QED  BY <2>1, <2>3
<1>2. IsWellFoundedOn(less, Nat)  BY NatLessThanWellFounded
<1>3. PICK b \in B : \A y \in B : <<y, b>> \notin less
  <2> HIDE DEF less, B
  <2> QED  BY <1>1, <1>2, WFMin
<1>4. \A y \in B : b <= y
  <2> HIDE DEF B
  <2>1. \A y \in B : ~(y < b)  BY <1>1, <1>3 DEF OpToRel
  <2> QED  BY <1>1, <2>1
<1>5. PICK m \in A : b = n - m  OBVIOUS
<1>6. ASSUME NEW i \in A PROVE i <= m
  <2>1. n - i \in B  OBVIOUS
  <2>2. n - m <= n - i  BY <1>4, <1>5, <2>1
  <2>3. i \in 1..n /\ m \in 1..n  OBVIOUS
  <2> QED  BY <2>2, <2>3
<1> QED  BY <1>6 DEF Max

\* A page that is pushed comes last; what is behind it was there before.
LEMMA Pushed ==
    ASSUME NEW st, IsStack(st), NEW p
    PROVE  /\ IsStack(Push(st, p))
           /\ Len(Push(st, p)) \in 1..(Len(st) + 1)
           /\ Push(st, p)[Len(Push(st, p))] = p
           /\ \A i \in 1..(Len(Push(st, p)) - 1) : Push(st, p)[i] = st[i]
           /\ Push(st, p) # << >> /\ Last(Push(st, p)) = p
           /\ (\A i \in DOMAIN st : Title(st[i]) # Title(p)) => Len(Push(st, p)) = Len(st) + 1
           /\ \A i \in DOMAIN st : Title(st[i]) = Title(p) =>
                 Len(Push(st, p)) \in DOMAIN st /\ Title(st[Len(Push(st, p))]) = Title(p)
<1>1. PICK S : st \in Seq(S)  BY DEF IsStack
<1>2. st \in Seq(S \cup {p})  BY <1>1
<1> DEFINE same == {i \in DOMAIN st : Title(st[i]) = Title(p)}
<1>3. CASE same = {}
  <2>1. Push(st, p) = Append(st, p)  BY <1>3 DEF Push
  <2> QED  BY <1>1, <1>2, <1>3, <2>1 DEF IsStack, Last
<1>4. CASE same # {}
  <2> DEFINE m == Max(same)  f == SubSeq(st, 1, m - 1)
  <2>1. m \in same
    <3>1. same \in SUBSET (1..Len(st)) /\ Len(st) \in Nat  BY <1>1
    <3> QED  BY <1>4, <3>1, MaxPosition
  <2>2. m \in 1..Len(st)  BY <1>1, <2>1
  <2>3. Push(st, p) = Append(f, p)  BY <1>4 DEF Push
  <2>4. f \in Seq(S \cup {p}) /\ Len(f) = m - 1 /\ \A i \in 1..(m - 1) : f[i] = st[i]
    <3> HIDE DEF m
    <3> QED  BY <1>2, <2>2
  <2> HIDE DEF f, m
  <2>5. Append(f, p) \in Seq(S \cup {p}) /\ Len(Append(f, p)) = m /\ Append(f, p)[m] = p
        /\ \A i \in 1..(m - 1) : Append(f, p)[i] = st[i]
    BY <2>2, <2>4
  <2>6. Title(st[m]) = Title(p) /\ m \in DOMAIN st  BY <2>1
  <2> QED  BY <1>1, <1>4, <2>2, <2>3, <2>5, <2>6 DEF IsStack, Last
<1> QED  BY <1>3, <1>4

\* The pages esc leads back to, and those behind a choice that is on its way.
LoginSteps == {"oauth", "mcplogin"}
Shown == IF popup = << >> \/ Top.step \in LoginSteps THEN << >> ELSE popup
Behind == IF child = None THEN << >> ELSE child.from

\* The choice of a page is one the page offers.
ChoiceMade(p, arg) ==
    /\ p.no = 0 /\ p.step \notin LoginSteps \cup {"prompt"}
    /\ p.step = "mcp" /\ arg[1] \in {"open", "remove"} => arg[2] \in Servers
    /\ p.step = "mcpname" => arg \in Servers \cup {""}
    /\ p.step = "transport" => arg \in {"stdio", "http"}
    /\ p.step = "auth" => arg \in {"none", "oauth", "bearer", "apikeyname", "basic"}
    /\ p.step \in {"bearer", "apikey", "basic", "headers"} => arg \in {"", "x"}
    /\ p.step = "provider" => arg \in Providers
    /\ p.step = "compatname" => arg \in Names \cup {""}
    /\ p.step = "models" => arg \in SUBSET p.ids

\* While a choice is on its way only pages that no handler of a draft follows can open.
FreeSteps == {"prompt", "models", "modelname", "mcplogin", "paste"}

StackInv ==
    /\ IsStack(popup)
    /\ child # None =>
          /\ IsStack(child.from) /\ child.from # << >>
          /\ ChoiceMade(Last(child.from), child.arg)
          /\ \A i \in DOMAIN Shown : Shown[i].step \in FreeSteps

\* Pages are closed, uncovered or opened on their own.
Turned ==
    /\ child' \in {None, child}
    /\ \/ AtMost(Shown', Shown)
       \/ /\ Len(Shown') = 1 /\ DOMAIN Shown' = {1}
          /\ Shown'[1].step \in FreeSteps \cup {"provider", "mcp"}
          /\ Shown'[1].step \notin FreeSteps => child' = None
          /\ Shown'[1].step = "mcp" => Shown'[1].of = None
          /\ Shown'[1].step = "provider" => CommandModelAdd
          /\ Shown'[1].step \in {"models", "modelname"} => ModelMessage

\* The page on the screen is left with a choice.
Chooses == \E arg :
    /\ Shown # << >> /\ Shown = popup
    /\ child' = [from |-> Shown, arg |-> arg]
    /\ ChoiceMade(Last(Shown), arg)
    /\ Shown' = << >> \/ Shown' = <<Prompt>>

LEMMA ShownIs ==
    ASSUME IsStack(popup)
    PROVE  /\ IsStack(Shown) /\ Len(Shown) \in Nat /\ DOMAIN Shown = 1..Len(Shown)
           /\ Shown # << >> => Shown = popup /\ Top = Shown[Len(Shown)] /\ Len(Shown) > 0
           /\ popup # << >> /\ Top.step \notin LoginSteps => Shown = popup
BY StackFacts, NoPage DEF Shown, Top

LEMMA MenuChoice ==
    ASSUME NEW p, NEW arg \in ModelChoices(p) \cup McpChoices(p), DOMAIN servers \subseteq Servers,
           p.no = 0
    PROVE  ChoiceMade(p, arg)
<1>1. p.step \notin LoginSteps \cup {"prompt"}
  BY DEF ModelChoices, McpChoices, LoginSteps
<1>2. p.step = "mcp" /\ arg[1] \in {"open", "remove"} => arg[2] \in Servers
  BY DEF ModelChoices, McpChoices
<1>3. p.step = "mcpname" => arg \in Servers \cup {""}
  BY DEF ModelChoices, McpChoices
<1>4. p.step = "transport" => arg \in {"stdio", "http"}
  BY DEF ModelChoices, McpChoices
<1>5. p.step = "auth" => arg \in {"none", "oauth", "bearer", "apikeyname", "basic"}
  BY DEF ModelChoices, McpChoices
<1>6. p.step \in {"bearer", "apikey", "basic", "headers"} => arg \in {"", "x"}
  BY DEF ModelChoices, McpChoices
<1>7. p.step = "provider" => arg \in Providers
  BY DEF ModelChoices, McpChoices
<1>8. p.step = "compatname" => arg \in Names \cup {""}
  BY DEF ModelChoices, McpChoices
<1>9. p.step = "models" => arg \in SUBSET p.ids
  BY DEF ModelChoices, McpChoices
<1> QED  BY <1>1, <1>2, <1>3, <1>4, <1>5, <1>6, <1>7, <1>8, <1>9 DEF ChoiceMade

LEMMA ClosedPopup ==
    ASSUME ClosePopup
    PROVE  Shown' = << >> \/ Shown' = <<Prompt>>
<1>1. popup' = << >> \/ popup' = <<Prompt>>  BY DEF ClosePopup
<1>2. <<Prompt>> # << >> /\ Last(<<Prompt>>) = Prompt  BY OnePage
<1>3. Prompt.step \notin LoginSteps  BY DEF Prompt, Page, LoginSteps
<1> QED  BY <1>1, <1>2, <1>3 DEF Shown, Top

\* What opens on its own.
LEMMA OpenedAlone ==
    ASSUME NEW p, popup' = <<p>>
    PROVE  /\ Shown' = << >> \/ Shown' = <<p>>
           /\ IsStack(popup')
<1>1. <<p>> # << >> /\ Last(<<p>>) = p /\ IsStack(<<p>>)  BY OnePage
<1> QED  BY <1>1 DEF Shown, Top

LEMMA PushedAlone ==
    ASSUME NEW p
    PROVE  Push(<< >>, p) = <<p>>
<1>1. {i \in DOMAIN << >> : Title(<< >>[i]) = Title(p)} = {}  OBVIOUS
<1> QED  BY <1>1 DEF Push

LEMMA Alone ==
    ASSUME NEW p, popup' = <<p>>, IsStack(popup), child' \in {None, child},
           p.step \in FreeSteps \cup {"provider", "mcp"},
           p.step \notin FreeSteps => child' = None,
           p.step = "mcp" => p.of = None, p.step = "provider" => CommandModelAdd,
           p.step \in {"models", "modelname"} => ModelMessage
    PROVE  Turned /\ IsStack(popup')
<1>1. (Shown' = << >> \/ Shown' = <<p>>) /\ IsStack(popup')  BY OpenedAlone
<1>2. Len(<<p>>) = 1 /\ <<p>>[1] = p /\ DOMAIN <<p>> = {1}  BY OnePage
<1>3. AtMost(<< >>, Shown)
  BY ShownIs DEF AtMost
<1> QED  BY <1>1, <1>2, <1>3 DEF Turned

LEMMA Closes ==
    ASSUME IsStack(popup), child' \in {None, child}, popup' \in {<< >>, <<Prompt>>, popup}
    PROVE  Turned /\ IsStack(popup')
<1>1. CASE popup' = << >>
  <2>1. Shown' = << >>  BY <1>1 DEF Shown
  <2> QED  BY <1>1, <2>1, ShownIs, NoPage DEF Turned, AtMost
<1>2. CASE popup' = <<Prompt>>
  <2>1. Prompt.step = "prompt"  BY DEF Prompt, Page
  <2> QED  BY <1>2, <2>1, Alone DEF FreeSteps
<1>3. CASE popup' = popup
  <2>1. Shown' = Shown  BY <1>3 DEF Shown, Top
  <2> QED  BY <1>3, <2>1, ShownIs DEF Turned, AtMost
<1> QED  BY <1>1, <1>2, <1>3

LEMMA EscapeTurns ==
    ASSUME StackInv, Escape
    PROVE  Turned /\ IsStack(popup')
<1>1. CASE Len(popup) > 1
  <2>1. popup' = Front(popup) /\ child' = child /\ Shown = popup /\ popup # << >> /\ IsStack(popup)
    BY <1>1, ShownIs DEF Escape, StackInv, LoginSteps
  <2>2. IsStack(popup') /\ AtMost(popup', Shown)
    BY <2>1, FrontStack
  <2>3. AtMost(<< >>, Shown)
    BY <2>1, ShownIs DEF AtMost
  <2>4. Shown' = << >> \/ Shown' = popup'  BY DEF Shown
  <2> QED  BY <2>1, <2>2, <2>3, <2>4 DEF Turned
<1>2. CASE ~(Len(popup) > 1)
  <2>1. popup' \in {<< >>, <<Prompt>>} /\ child' = child
    BY <1>2 DEF Escape, ClosePopup
  <2> QED  BY <2>1, Closes DEF StackInv
<1> QED  BY <1>1, <1>2

LEMMA EnterMoves ==
    ASSUME StackInv, DOMAIN servers \subseteq Servers, Enter
    PROVE  (Turned \/ Chooses) /\ IsStack(popup')
<1>1. CASE \E arg \in ModelChoices(Top) \cup McpChoices(Top) : Top.no = 0 /\ Choose(arg)
  <2>1. PICK arg \in ModelChoices(Top) \cup McpChoices(Top) : Top.no = 0 /\ Choose(arg)
    BY <1>1
  <2>2. ChoiceMade(Top, arg)  BY <2>1, MenuChoice
  <2>3. popup # << >> /\ Top.step \notin LoginSteps  BY <2>2 DEF Enter, ChoiceMade
  <2>4. Shown = popup  BY <2>3 DEF Shown
  <2>5. child' = [from |-> Shown, arg |-> arg] /\ ClosePopup
    BY <2>1, <2>4 DEF Choose
  <2>6. (Shown' = << >> \/ Shown' = <<Prompt>>)  BY <2>5, ClosedPopup
  <2>7. IsStack(popup')  BY <2>5, NoPage, OnePage DEF ClosePopup
  <2> QED  BY <2>2, <2>3, <2>4, <2>5, <2>6, <2>7 DEF Chooses, Top
<1>2. CASE ClosePopup /\ child' = child
  BY <1>2, Closes DEF ClosePopup, StackInv
<1> QED  BY <1>1, <1>2 DEF Enter

LEMMA MessageMoves ==
    ASSUME StackInv, ModelMessages \/ McpMessages
    PROVE  Turned /\ IsStack(popup')
<1>0. IsStack(popup)  BY DEF StackInv
<1>1. ASSUME NEW d, PickModels(<< >>, d), child' = child, ModelMessage PROVE Turned /\ IsStack(popup')
  <2>1. \E p : popup' = Push(<< >>, p) /\ p.step \in {"models", "modelname"}
    BY <1>1 DEF PickModels, Page
  <2>2. PICK p : popup' = <<p>> /\ p.step \in {"models", "modelname"}
    BY <2>1, PushedAlone
  <2> QED  BY <1>0, <1>1, <2>2, Alone DEF FreeSteps
<1>2. CASE ModelsResult
  <2>1. child' = child  BY <1>2 DEF ModelsResult
  <2>2. popup' = popup \/ \E p : popup' = <<p>> /\ p.step = "models"
    BY <1>2 DEF ModelsResult, Page
  <2>3. ModelMessage  BY <1>2 DEF ModelMessage
  <2> QED  BY <1>0, <2>1, <2>2, <2>3, Alone, Closes DEF FreeSteps
<1>3. CASE OAuthSuccess
  <2>1. ModelMessage  BY <1>3 DEF ModelMessage
  <2> QED  BY <1>1, <1>3, <2>1 DEF OAuthSuccess
<1>4. CASE OAuthFailed \/ McpOAuthDone
  BY <1>0, <1>4, Closes DEF OAuthFailed, GiveUp, McpOAuthDone
<1>5. CASE OpenPaste
  <2>1. child' = child  BY <1>5 DEF OpenPaste
  <2>2. \E p : popup' = <<p>> /\ p.step = "paste"
    BY <1>5 DEF OpenPaste, Page
  <2> QED  BY <1>0, <2>1, <2>2, Alone DEF FreeSteps
<1>6. CASE Saved
  <2>1. child' = child  BY <1>6 DEF Saved
  <2>2. popup' = popup \/ \E p : popup' = Push(<< >>, p) /\ p.step = "mcplogin"
    BY <1>6 DEF Saved, StartMcpLogin, Page
  <2>3. popup' = popup \/ \E p : popup' = <<p>> /\ p.step = "mcplogin"
    BY <2>2, PushedAlone
  <2> QED  BY <1>0, <2>1, <2>3, Alone, Closes DEF FreeSteps
<1> QED  BY <1>2, <1>3, <1>4, <1>5, <1>6 DEF ModelMessages, ModelMessage, McpMessages

LEMMA Moves ==
    ASSUME StackInv, DOMAIN servers \subseteq Servers, [DialogsNext]_dialogVars
    PROVE  Handler \/ ((Turned \/ Chooses) /\ IsStack(popup'))
<1>0. IsStack(popup)  BY DEF StackInv
<1>1. CASE UNCHANGED dialogVars \/ Daemon
  <2>1. popup' = popup /\ child' = child
    BY <1>1 DEF dialogVars, Daemon, Web, Connection, popupVars
  <2> QED  BY <1>0, <2>1, Closes
<1>2. CASE Command
  <2>1. CASE CommandModelAdd
    <3>1. \E p : popup' = <<p>> /\ p.step = "provider"  BY <2>1 DEF CommandModelAdd, Page
    <3>2. child' = None  BY <2>1 DEF CommandModelAdd
    <3> QED  BY <1>0, <2>1, <3>1, <3>2, Alone
  <2>2. CASE CommandMcp
    <3>1. \E p : popup' = Push(<< >>, p) /\ p.step = "mcp" /\ p.of = None
      BY <2>2 DEF CommandMcp, List, Page
    <3>2. child' = None  BY <2>2 DEF CommandMcp
    <3> QED  BY <1>0, <3>1, <3>2, PushedAlone, Alone
  <2> QED  BY <1>2, <2>1, <2>2 DEF Command
<1>3. CASE Enter  BY <1>3, EnterMoves
<1>4. CASE Back  BY <1>4, EscapeTurns DEF Back
<1>5. CASE Prompts
  <2>1. child' \in {None, child}  BY <1>5 DEF Prompts, Settle, Dropped, Pending
  <2>2. popup' \in {<< >>, <<Prompt>>, popup}
    BY <1>5 DEF Prompts, Settle, Dropped, Pending, ClosePopup
  <2> QED  BY <1>0, <2>1, <2>2, Closes
<1>6. CASE ModelMessages \/ McpMessages  BY <1>6, MessageMoves
<1> QED  BY <1>1, <1>2, <1>3, <1>4, <1>5, <1>6 DEF DialogsNext

ModelSteps == {"provider", "relogin", "replace", "replaceaccount", "key", "account", "gateway", "gatewayid",
               "url", "compatname", "compatkey", "vector", "models", "modelname", "oauth"}

\* A handler's page comes before those that led to it.
Handled == child # None /\ child' = None /\ popup = << >>

LEMMA ModelPushes ==
    ASSUME ModelHandler
    PROVE  Handled /\ (popup' = << >> \/ \E p : popup' = Push(child.from, p) /\ p.step \in ModelSteps)
<1>1. Handled
  BY DEF ModelHandler, ProviderPick, ReLogin, KeyReplace, KeySubmit, Account, Gateway, Compat, VectorNotice,
         MultiPick, StateLost, Chosen, Handled
<1>2. ASSUME NEW step \in ModelSteps, NEW d, Show(step, d)
      PROVE  \E p : popup' = Push(child.from, p) /\ p.step \in ModelSteps
  BY <1>2 DEF Show, Open, Page
<1>3. ASSUME NEW d, PickModels(child.from, d)
      PROVE  \E p : popup' = Push(child.from, p) /\ p.step \in ModelSteps
  BY <1>3 DEF PickModels, Page, ModelSteps
<1>4. ASSUME NEW d, AskKey(d) \/ AskAccount(d) \/ StartOAuth(d)
      PROVE  \E p : popup' = Push(child.from, p) /\ p.step \in ModelSteps
  BY <1>2, <1>4 DEF AskKey, AskAccount, StartOAuth, ModelSteps
<1>5. ASSUME GiveUp PROVE popup' = << >>  BY <1>5 DEF GiveUp
<1>6. ASSUME NEW d, AfterKey(d)
      PROVE  popup' = << >> \/ \E p : popup' = Push(child.from, p) /\ p.step \in ModelSteps
  BY <1>2, <1>3, <1>5, <1>6 DEF AfterKey, ModelSteps
<1>7. CASE ProviderPick
  BY <1>1, <1>2, <1>3, <1>4, <1>5, <1>7 DEF ProviderPick, ModelSteps
<1>8. CASE ReLogin \/ KeyReplace \/ KeySubmit \/ VectorNotice
  BY <1>1, <1>2, <1>3, <1>4, <1>5, <1>6, <1>8 DEF ReLogin, KeyReplace, KeySubmit, VectorNotice, ModelSteps
<1>9. CASE Account \/ Gateway \/ Compat
  BY <1>1, <1>2, <1>3, <1>4, <1>5, <1>9 DEF Account, Gateway, Compat, ModelSteps
<1>10. CASE MultiPick \/ StateLost
  BY <1>1, <1>5, <1>10 DEF MultiPick, StateLost
<1> QED  BY <1>7, <1>8, <1>9, <1>10 DEF ModelHandler

LEMMA McpPushes ==
    ASSUME McpHandler
    PROVE  Handled /\ (popup' = << >> \/ \E p : popup' = Push(child.from, p))
<1>1. CASE MenuPick \/ RunMcpRemove \/ ServerAction \/ AddName
  BY <1>1 DEF McpHandler, MenuPick, RunMcpRemove, List, ServerAction, StartMcpLogin, AddName, Ask, Open, StopAdd,
              Chosen, Handled
<1>2. CASE Add
  BY <1>2 DEF McpHandler, Add, AddStdio, AddRemote, AddCredential, AddHeaders, FinalizeMcpAdd, Ask, Open, StopAdd,
              Chosen, Handled
<1>3. CASE Client \/ Paste
  BY <1>3 DEF McpHandler, Client, Paste, Open, Chosen, Handled
<1> QED  BY <1>1, <1>2, <1>3 DEF McpHandler

LEMMA StackNext ==
    ASSUME StackInv, DOMAIN servers \subseteq Servers, [DialogsNext]_dialogVars
    PROVE  StackInv'
<1>1. CASE Handler
  <2>1. Handled /\ (popup' = << >> \/ \E p : popup' = Push(child.from, p))
    BY <1>1, ModelPushes, McpPushes DEF Handler
  <2>2. IsStack(popup')
    BY <2>1, NoPage, Pushed DEF StackInv, Handled
  <2> QED  BY <2>1, <2>2 DEF StackInv, Handled
<1>2. CASE IsStack(popup') /\ Turned
  <2>1. CASE child' = None  BY <1>2, <2>1 DEF StackInv
  <2>2. CASE child' = child /\ child # None
    <3>1. \A i \in DOMAIN Shown' : Shown'[i].step \in FreeSteps
      <4>1. CASE AtMost(Shown', Shown)
        <5>1. DOMAIN Shown = 1..Len(Shown) /\ Len(Shown) \in Nat  BY ShownIs DEF StackInv
        <5>2. DOMAIN Shown' = 1..Len(Shown') /\ Len(Shown') \in Nat
          BY <1>2, StackFacts, NoPage DEF Shown
        <5> QED  BY <2>2, <4>1, <5>1, <5>2 DEF AtMost, StackInv
      <4> QED  BY <1>2, <2>2, <4>1 DEF Turned
    <3> QED  BY <1>2, <2>2, <3>1 DEF StackInv
  <2> QED  BY <1>2, <2>1, <2>2 DEF Turned
<1>3. CASE IsStack(popup') /\ Chooses
  <2>1. PICK arg : /\ Shown # << >> /\ Shown = popup
                   /\ child' = [from |-> Shown, arg |-> arg]
                   /\ ChoiceMade(Last(Shown), arg)
                   /\ Shown' = << >> \/ Shown' = <<Prompt>>
    BY <1>3 DEF Chooses
  <2>2. child'.from = Shown /\ child'.arg = arg  BY <2>1
  <2>3. \A i \in DOMAIN Shown' : Shown'[i].step \in FreeSteps
    <3>1. DOMAIN <<Prompt>> = {1} /\ <<Prompt>>[1] = Prompt  OBVIOUS
    <3> QED  BY <2>1, <3>1 DEF Prompt, Page, FreeSteps
  <2> QED  BY <1>3, <2>1, <2>2, <2>3 DEF StackInv
<1> QED  BY <1>1, <1>2, <1>3, Moves

\* Where a page that adds a server stands among them.
Place(step) ==
    IF step = "mcpname" THEN 1
    ELSE IF step = "transport" THEN 2
    ELSE IF step \in {"command", "mcpurl"} THEN 3
    ELSE IF step \in {"args", "auth"} THEN 4
    ELSE IF step \in {"env", "apikeyname"} THEN 5
    ELSE IF step \in {"bearer", "apikey", "basic"} THEN 6
    ELSE IF step = "more" THEN 7
    ELSE IF step = "headers" THEN 8
    ELSE 0

\* The page p is one the choice on page q leads to.
Follows(q, p) ==
    /\ p.step \in {"mcpname", "remove", "server"} => q.step = "mcp"
    /\ p.step = "transport" => q.step = "mcpname"
    /\ p.step = "command" => q.step = "transport" /\ p.via = "stdio"
    /\ p.step = "args" => q.step = "command"
    /\ p.step = "env" => q.step = "args"
    /\ p.step = "mcpurl" => q.step = "transport" /\ p.via = "http"
    /\ p.step = "auth" => q.step = "mcpurl"
    /\ p.step \in {"bearer", "apikeyname", "basic"} => q.step = "auth" /\ p.via = p.step
    /\ p.step = "apikey" => q.step = "apikeyname"
    /\ p.step = "more" => \/ q.step = "auth" /\ p.via \in {"none", "oauth"}
                          \/ q.step \in {"bearer", "apikey", "basic"} /\ p.via \in {"", "x"}
    /\ p.step = "headers" => q.step = "more"

McpSteps == AddSteps \cup {"mcp", "remove", "server", "clientid", "secret", "redirect"}

Ordered(st) ==
    /\ \A i \in DOMAIN st : st[i].step = "mcp" => i = 1 /\ st[i].of = None
    /\ \A i \in DOMAIN st : st[i].step \in AddSteps \cup {"remove", "server"} => i > 1 /\ Follows(st[i - 1], st[i])
    /\ \A i, j \in DOMAIN st : i < j /\ st[j].step \in AddSteps => Place(st[i].step) < Place(st[j].step)

\* The drafts, as a page needs them.
HasDraft(p, add, cl) ==
    /\ p.step \in AddSteps => add \in AddDrafts
    /\ p.step \in AddSteps \ {"mcpname"} => add.name \in Servers
    /\ p.step \in ClientSteps => cl \in Servers
    /\ p.step = "server" => p.of \in Servers
Drafted(st, add, cl) == \A i \in DOMAIN st : HasDraft(st[i], add, cl)

\* What the choices on page q and before say is in the draft, when page p is there, but for
\* what an earlier choice on these pages has left in it.
Credentials == {"bearer", "apikey", "basic"}
Says(q, p, add, au) ==
    /\ p.step \in {"command", "mcpurl"} => add.transport = p.via
    /\ p.step \in {"bearer", "apikeyname", "basic", "more"} /\ q.step = "auth" =>
          au # "none" /\ (au = "once" => (add.auth <=> p.via = "oauth"))
    /\ p.step = "more" /\ au = "once" =>
          add.headers = IF q.step \in Credentials THEN Given(p.via, q.step) ELSE {}
Agrees(st, add, au) ==
    \A i \in DOMAIN st : st[i].step \in AddSteps => Says(st[i - 1], st[i], add, au)

\* A wizard in which the authentication is still to be chosen has none in its draft.
DraftInv ==
    /\ auths \in {"none", "once", "again"}
    /\ auths = "none" /\ mcpAdd # None => ~mcpAdd.auth /\ mcpAdd.headers = {}

WizardInv ==
    /\ StackInv
    /\ Ordered(Shown) /\ Ordered(Behind)
    /\ Drafted(Shown, mcpAdd, mcpClient) /\ Drafted(Behind, mcpAdd, mcpClient)
    /\ Agrees(Shown, mcpAdd, auths) /\ Agrees(Behind, mcpAdd, auths)
    /\ DOMAIN servers \subseteq Servers
    /\ DraftInv
    /\ SavedIsChosen

LEMMA NoStack ==
    /\ Ordered(<< >>) /\ \A d, c : Drafted(<< >>, d, c) /\ Agrees(<< >>, d, c)
BY DEF Ordered, Drafted, Agrees

LEMMA StacksOf ==
    ASSUME StackInv
    PROVE  /\ IsStack(Behind) /\ Len(Behind) \in Nat /\ DOMAIN Behind = 1..Len(Behind)
           /\ IsStack(Shown) /\ Len(Shown) \in Nat /\ DOMAIN Shown = 1..Len(Shown)
           /\ child # None => /\ Behind = child.from /\ Behind # << >> /\ Len(Behind) > 0
                              /\ Last(Behind) = Behind[Len(Behind)]
                              /\ ChoiceMade(Last(Behind), child.arg)
BY StackFacts, NoPage, ShownIs DEF StackInv, Behind

LEMMA OrderedKeeps ==
    ASSUME NEW st, IsStack(st), NEW t, IsStack(t), AtMost(st, t), Ordered(t)
    PROVE  Ordered(st)
<1>1. /\ DOMAIN st = 1..Len(st) /\ DOMAIN t = 1..Len(t) /\ Len(st) \in Nat /\ Len(t) \in Nat
      /\ Len(st) <= Len(t) /\ \A i \in DOMAIN st : st[i] = t[i] /\ i \in DOMAIN t
  BY StackFacts DEF AtMost
<1>2. \A i \in DOMAIN st : i > 1 => i - 1 \in DOMAIN st /\ st[i - 1] = t[i - 1]
  BY <1>1
<1> QED  BY <1>1, <1>2 DEF Ordered

\* One page alone says little.
LEMMA OrderedAlone ==
    ASSUME NEW st, Len(st) = 1, DOMAIN st = {1}, st[1].step \in FreeSteps \cup {"provider", "mcp"},
           st[1].step = "mcp" => st[1].of = None
    PROVE  Ordered(st)
BY DEF Ordered, FreeSteps, AddSteps

LEMMA PushOrdered ==
    ASSUME NEW st, IsStack(st), st # << >>, Ordered(st), NEW p,
           p.step = "mcp" => p.of = None /\ Len(Push(st, p)) = 1,
           p.step \in AddSteps \cup {"remove", "server"} =>
              Len(Push(st, p)) = Len(st) + 1 /\ Follows(Last(st), p),
           p.step \in AddSteps => \A i \in DOMAIN st : Place(st[i].step) < Place(p.step)
    PROVE  Ordered(Push(st, p))
<1> DEFINE n == Len(Push(st, p))  u == Push(st, p)
<1>1. /\ IsStack(u) /\ n \in 1..(Len(st) + 1) /\ u[n] = p
      /\ \A i \in 1..(n - 1) : u[i] = st[i]
  BY Pushed
<1>2. /\ Len(st) \in Nat /\ DOMAIN st = 1..Len(st) /\ Last(st) = st[Len(st)] /\ Len(st) > 0
      /\ DOMAIN u = 1..n
  BY <1>1, StackFacts
<1>a. /\ p.step = "mcp" => p.of = None /\ n = 1
      /\ p.step \in AddSteps \cup {"remove", "server"} => n = Len(st) + 1 /\ Follows(Last(st), p)
  OBVIOUS
<1> HIDE DEF n, u
<1>3. \A i \in DOMAIN u : u[i].step = "mcp" => i = 1 /\ u[i].of = None
  BY <1>1, <1>2, <1>a DEF Ordered
<1>4. ASSUME NEW i \in DOMAIN u, u[i].step \in AddSteps \cup {"remove", "server"}
      PROVE  i > 1 /\ Follows(u[i - 1], u[i])
  <2>1. CASE i = n
    <3>1. n = Len(st) + 1 /\ Follows(Last(st), p)  BY <1>1, <1>a, <1>4, <2>1
    <3>2. u[i - 1] = Last(st)  BY <1>1, <1>2, <2>1, <3>1
    <3> QED  BY <1>1, <1>2, <2>1, <3>1, <3>2
  <2>2. CASE i # n
    <3>1. i \in 1..(n - 1) /\ i \in DOMAIN st /\ u[i] = st[i]  BY <1>1, <1>2, <2>2
    <3>2. i > 1 /\ Follows(st[i - 1], st[i])  BY <1>4, <3>1 DEF Ordered
    <3>3. u[i - 1] = st[i - 1]  BY <1>1, <1>2, <3>1, <3>2
    <3> QED  BY <3>1, <3>2, <3>3
  <2> QED  BY <2>1, <2>2
<1>5. ASSUME NEW i \in DOMAIN u, NEW j \in DOMAIN u, i < j, u[j].step \in AddSteps
      PROVE  Place(u[i].step) < Place(u[j].step)
  <2>1. i \in 1..(n - 1) /\ i \in DOMAIN st /\ u[i] = st[i]  BY <1>1, <1>2, <1>5
  <2>2. CASE j = n  BY <1>1, <1>5, <2>1, <2>2
  <2>3. CASE j # n
    <3>1. j \in DOMAIN st /\ u[j] = st[j]  BY <1>1, <1>2, <2>3
    <3> QED  BY <1>5, <2>1, <3>1 DEF Ordered
  <2> QED  BY <2>2, <2>3
<1>6. Ordered(u)  BY <1>3, <1>4, <1>5 DEF Ordered
<1> QED  BY <1>6 DEF u

\* A page that adds a server has none of its kind behind it.
LEMMA AddOrdered ==
    ASSUME NEW st, IsStack(st), st # << >>, Ordered(st), NEW p, p.step \in AddSteps,
           Last(st).step \in AddSteps \cup {"mcp"}, Follows(Last(st), p),
           Place(Last(st).step) < Place(p.step)
    PROVE  /\ Ordered(Push(st, p)) /\ Len(Push(st, p)) = Len(st) + 1
           /\ \A i \in DOMAIN st : Place(st[i].step) < Place(p.step)
<1>1. Len(st) \in Nat /\ DOMAIN st = 1..Len(st) /\ Last(st) = st[Len(st)] /\ Len(st) > 0
  BY StackFacts
<1>2. ASSUME NEW i \in DOMAIN st PROVE Place(st[i].step) < Place(p.step)
  <2>1. CASE i = Len(st)  BY <1>1, <2>1
  <2>2. CASE i # Len(st)
    <3>1. i < Len(st) /\ Len(st) \in DOMAIN st  BY <1>1, <2>2
    <3>2. st[Len(st)].step # "mcp"  BY <1>1, <3>1 DEF Ordered
    <3>3. Place(st[i].step) < Place(st[Len(st)].step)  BY <1>1, <3>1, <3>2 DEF Ordered
    <3>4. \A s : Place(s) \in Int  BY DEF Place
    <3> QED  BY <1>1, <3>3, <3>4
  <2> QED  BY <2>1, <2>2
<1>3. \A i \in DOMAIN st : Title(st[i]) # Title(p)
  <2>1. \A i \in DOMAIN st : st[i].step # p.step
    <3>1. \A s : Place(s) \in Int  BY DEF Place
    <3> QED  BY <1>2, <3>1
  <2> QED  BY <2>1 DEF Title, AddSteps
<1>4. Len(Push(st, p)) = Len(st) + 1  BY <1>3, Pushed
<1>5. p.step # "mcp"  BY DEF AddSteps
<1> QED  BY <1>2, <1>4, <1>5, PushOrdered

wizardVars == <<mcpAdd, mcpClient, auths, servers>>

\* What holds of the pages and the drafts holds of the first pages, while the drafts stay.
LEMMA DraftsKeep ==
    ASSUME NEW st, IsStack(st), NEW t, IsStack(t), AtMost(st, t), Ordered(t), 
           NEW add, NEW cl, NEW au, Drafted(t, add, cl), Agrees(t, add, au)
    PROVE  Ordered(st) /\ Drafted(st, add, cl) /\ Agrees(st, add, au)
<1>1. /\ DOMAIN st = 1..Len(st) /\ DOMAIN t = 1..Len(t) /\ Len(st) \in Nat /\ Len(t) \in Nat
      /\ Len(st) <= Len(t) /\ \A i \in DOMAIN st : st[i] = t[i] /\ i \in DOMAIN t
  BY StackFacts DEF AtMost
<1>2. Ordered(st)  BY OrderedKeeps
<1>3. Drafted(st, add, cl)  BY <1>1 DEF Drafted
<1>4. ASSUME NEW i \in DOMAIN st, st[i].step \in AddSteps
      PROVE  st[i - 1] = t[i - 1]
  <2>1. i > 1  BY <1>1, <1>2, <1>4 DEF Ordered
  <2> QED  BY <1>1, <2>1 DEF AtMost
<1>5. Agrees(st, add, au)  BY <1>1, <1>4 DEF Agrees
<1> QED  BY <1>2, <1>3, <1>5

LEMMA DraftsAlone ==
    ASSUME NEW st, Len(st) = 1, DOMAIN st = {1}, st[1].step \in FreeSteps \cup {"provider", "mcp"},
           st[1].step = "mcp" => st[1].of = None, NEW add, NEW cl, NEW au
    PROVE  Ordered(st) /\ Drafted(st, add, cl) /\ Agrees(st, add, au)
BY OrderedAlone DEF Drafted, HasDraft, Agrees, FreeSteps, AddSteps, ClientSteps

\* Leaving the drafts alone, and the servers.
LEMMA WizardTurns ==
    ASSUME WizardInv, StackInv', UNCHANGED wizardVars, Turned \/ Chooses
    PROVE  WizardInv'
<1>1. /\ IsStack(Shown) /\ IsStack(Behind) /\ IsStack(Shown') /\ IsStack(Behind')
  <2>1. IsStack(Shown') /\ IsStack(Behind')
    BY NoPage DEF StackInv, Behind, Shown
  <2> QED  BY <2>1, StacksOf DEF WizardInv
<1> DEFINE P(st) == Ordered(st) /\ Drafted(st, mcpAdd, mcpClient) /\ Agrees(st, mcpAdd, auths)
<1>2. P(Shown) /\ P(Behind) /\ P(<< >>)  BY NoStack DEF WizardInv
<1>3. CASE Turned
  <2>1. Behind' = Behind \/ Behind' = << >>  BY <1>3 DEF Turned, Behind
  <2>2. AtMost(Shown', Shown) => P(Shown')
    BY <1>1, <1>2, DraftsKeep
  <2>3. ~AtMost(Shown', Shown) => P(Shown')
    BY <1>3, DraftsAlone DEF Turned
  <2>4. P(Shown') /\ P(Behind')  BY <1>2, <2>1, <2>2, <2>3
  <2> QED  BY <2>4 DEF WizardInv, DraftInv, wizardVars, SavedIsChosen
<1>4. CASE Chooses
  <2>1. Behind' = Shown \/ Behind' = << >>  BY <1>4 DEF Chooses, Behind
  <2>2. P(<<Prompt>>)
    <3>1. Len(<<Prompt>>) = 1 /\ DOMAIN <<Prompt>> = {1} /\ <<Prompt>>[1].step = "prompt"
      BY DEF Prompt, Page
    <3> QED  BY <3>1, DraftsAlone DEF FreeSteps
  <2>3. P(Shown') /\ P(Behind')  BY <1>2, <1>4, <2>1, <2>2 DEF Chooses
  <2> QED  BY <2>3 DEF WizardInv, DraftInv, wizardVars, SavedIsChosen
<1> QED  BY <1>3, <1>4

LEMMA PushDrafts ==
    ASSUME NEW st, IsStack(st), st # << >>, Ordered(st), NEW p, Ordered(Push(st, p)),
           NEW add, NEW cl, NEW au, Drafted(st, add, cl), Agrees(st, add, au),
           HasDraft(p, add, cl),
           p.step \in AddSteps => Len(Push(st, p)) = Len(st) + 1 /\ Says(Last(st), p, add, au)
    PROVE  Drafted(Push(st, p), add, cl) /\ Agrees(Push(st, p), add, au)
<1> DEFINE n == Len(Push(st, p))  u == Push(st, p)
<1>1. /\ IsStack(u) /\ n \in 1..(Len(st) + 1) /\ u[n] = p
      /\ \A i \in 1..(n - 1) : u[i] = st[i]
  BY Pushed
<1>2. /\ Len(st) \in Nat /\ DOMAIN st = 1..Len(st) /\ Last(st) = st[Len(st)] /\ Len(st) > 0
      /\ DOMAIN u = 1..n
  BY <1>1, StackFacts
<1>3. p.step \in AddSteps => n = Len(st) + 1 /\ Says(Last(st), p, add, au)  OBVIOUS
<1>o. Ordered(u)  OBVIOUS
<1> HIDE DEF n, u
<1>4. \A i \in DOMAIN u : i # n => i \in DOMAIN st /\ u[i] = st[i]  BY <1>1, <1>2
<1>5. Drafted(u, add, cl)  BY <1>1, <1>4 DEF Drafted
<1>6. ASSUME NEW i \in DOMAIN u, u[i].step \in AddSteps
      PROVE  Says(u[i - 1], u[i], add, au)
  <2>1. CASE i = n
    <3>1. n = Len(st) + 1 /\ Says(Last(st), p, add, au)  BY <1>1, <1>3, <1>6, <2>1
    <3>2. u[i - 1] = Last(st)  BY <1>1, <1>2, <2>1, <3>1
    <3> QED  BY <1>1, <2>1, <3>1, <3>2
  <2>2. CASE i # n
    <3>1. i \in DOMAIN st /\ u[i] = st[i]  BY <1>4, <2>2
    <3>2. i > 1  BY <1>o, <1>6 DEF Ordered
    <3>3. u[i - 1] = st[i - 1]  BY <1>1, <1>2, <2>2, <3>1, <3>2
    <3>4. Says(st[i - 1], st[i], add, au)  BY <1>6, <3>1 DEF Agrees
    <3> QED  BY <3>1, <3>3, <3>4
  <2> QED  BY <2>1, <2>2
<1>7. Agrees(u, add, au)  BY <1>6 DEF Agrees
<1> QED  BY <1>5, <1>7 DEF u

\* What a choice changes in the draft, and the history of it, the pages before its own do
\* not speak of.
LEMMA DraftsBefore ==
    ASSUME NEW st, IsStack(st), Ordered(st), NEW add, NEW cl, NEW au, NEW d, NEW c, NEW a,
           Drafted(st, add, cl), Agrees(st, add, au), st # << >>,
           Last(st).step \in AddSteps, d \in AddDrafts,
           d.name = add.name \/ Last(st).step = "mcpname",
           d.transport = add.transport \/ Place(Last(st).step) < 3,
           (d.auth = add.auth /\ a = au) \/ Place(Last(st).step) < 5,
           d.headers = add.headers \/ Place(Last(st).step) < 7
    PROVE  Drafted(st, d, cl) /\ Agrees(st, d, a)
<1>1. /\ Len(st) \in Nat /\ DOMAIN st = 1..Len(st) /\ Last(st) = st[Len(st)] /\ Len(st) \in DOMAIN st
  BY StackFacts
<1>2. ASSUME NEW i \in DOMAIN st, st[i].step \in AddSteps
      PROVE  Place(st[i].step) <= Place(Last(st).step)
  <2>1. \A s : Place(s) \in Int  BY DEF Place
  <2>2. i = Len(st) \/ i < Len(st)  BY <1>1
  <2>3. i < Len(st) => Place(st[i].step) < Place(st[Len(st)].step)  BY <1>1 DEF Ordered
  <2> QED  BY <1>1, <2>1, <2>2, <2>3
<1>3. Drafted(st, d, cl)
  <2>1. ASSUME NEW i \in DOMAIN st, st[i].step \in AddSteps \ {"mcpname"}
        PROVE  d.name \in Servers
    <3>1. CASE Last(st).step = "mcpname"
      <4>1. Place(st[i].step) <= 1  BY <1>2, <2>1, <3>1 DEF Place
      <4> QED  BY <2>1, <4>1 DEF Place, AddSteps
    <3>2. CASE Last(st).step # "mcpname"
      BY <2>1, <3>2 DEF Drafted, HasDraft
    <3> QED  BY <3>1, <3>2
  <2> QED  BY <2>1 DEF Drafted, HasDraft
<1>4. ASSUME NEW i \in DOMAIN st, st[i].step \in AddSteps
      PROVE  Says(st[i - 1], st[i], d, a)
  <2>1. Says(st[i - 1], st[i], add, au)  BY <1>4 DEF Agrees
  <2>2. st[i].step \in {"command", "mcpurl"} => Place(st[i].step) = 3
    BY DEF Place
  <2>3. st[i].step \in {"bearer", "apikeyname", "basic", "more"} => Place(st[i].step) >= 5
    BY DEF Place
  <2>4. st[i].step = "more" => Place(st[i].step) = 7
    BY DEF Place
  <2>5. \A s : Place(s) \in Int  BY DEF Place
  <2>6. Place(st[i].step) <= Place(Last(st).step)  BY <1>2, <1>4
  <2>7. st[i].step \in {"command", "mcpurl"} => d.transport = st[i].via
    BY <2>1, <2>2, <2>5, <2>6 DEF Says
  <2>8. st[i].step \in {"bearer", "apikeyname", "basic", "more"} => d.auth = add.auth /\ a = au
    <3>1. st[i].step \in {"bearer", "apikeyname", "basic", "more"} => ~(Place(Last(st).step) < 5)
      BY <2>3, <2>5, <2>6
    <3> QED  BY <3>1, Zenon
  <2>9. st[i].step \in {"bearer", "apikeyname", "basic", "more"} /\ st[i - 1].step = "auth" =>
           a # "none" /\ (a = "once" => (d.auth <=> st[i].via = "oauth"))
    BY <2>1, <2>8, Zenon DEF Says
  <2>10. st[i].step = "more" => d.headers = add.headers /\ a = au
    <3>1. st[i].step = "more" => ~(Place(Last(st).step) < 7)
      BY <2>4, <2>5, <2>6
    <3>2. st[i].step = "more" => st[i].step \in {"bearer", "apikeyname", "basic", "more"}
      OBVIOUS
    <3> QED  BY <2>8, <3>1, <3>2, Zenon
  <2>11. st[i].step = "more" /\ a = "once" =>
           d.headers = IF st[i - 1].step \in Credentials THEN Given(st[i].via, st[i - 1].step) ELSE {}
    BY <2>1, <2>10, Zenon DEF Says
  <2> QED  BY <2>7, <2>9, <2>11, Zenon DEF Says
<1> QED  BY <1>3, <1>4 DEF Agrees

\* A handler's page, or none.
LEMMA WizardShows ==
    ASSUME StackInv', Handled,
           popup' = << >> \/ (/\ Ordered(popup') /\ Drafted(popup', mcpAdd', mcpClient')
                              /\ Agrees(popup', mcpAdd', auths')),
           DOMAIN servers' \subseteq Servers, DraftInv', SavedIsChosen'
    PROVE  WizardInv'
<1>1. Behind' = << >> /\ (Shown' = << >> \/ (Shown' = popup' /\ popup' # << >>))
  BY DEF Handled, Behind, Shown
<1> QED  BY <1>1, NoStack DEF WizardInv

\* What the handler of a page finds.
LEMMA WizardFinds ==
    ASSUME WizardInv, Handled
    PROVE  /\ IsStack(Behind) /\ Behind # << >> /\ Behind = child.from
           /\ Ordered(Behind) /\ Drafted(Behind, mcpAdd, mcpClient) /\ Agrees(Behind, mcpAdd, auths)
           /\ HasDraft(Last(Behind), mcpAdd, mcpClient)
           /\ ChoiceMade(Last(Behind), child.arg)
           /\ Len(Behind) \in Nat /\ DOMAIN Behind = 1..Len(Behind) /\ Len(Behind) > 0
           /\ Last(Behind) = Behind[Len(Behind)]
<1>1. StackInv /\ child # None  BY DEF WizardInv, Handled
<1>2. /\ IsStack(Behind) /\ Behind # << >> /\ Behind = child.from
      /\ ChoiceMade(Last(Behind), child.arg)
      /\ Len(Behind) \in Nat /\ DOMAIN Behind = 1..Len(Behind) /\ Len(Behind) > 0
      /\ Last(Behind) = Behind[Len(Behind)]
  BY <1>1, StacksOf
<1> QED  BY <1>2 DEF WizardInv, Drafted

\* A page that adds a server, after another.
LEMMA AddMove ==
    ASSUME WizardInv, StackInv', Handled, NEW p, p.step \in AddSteps, popup' = Push(Behind, p),
           UNCHANGED <<mcpClient, servers>>, mcpAdd' \in AddDrafts, DraftInv',
           Last(Behind).step \in AddSteps, Follows(Last(Behind), p),
           Place(Last(Behind).step) < Place(p.step),
           mcpAdd'.name = mcpAdd.name \/ Last(Behind).step = "mcpname",
           mcpAdd'.transport = mcpAdd.transport \/ Place(Last(Behind).step) < 3,
           (mcpAdd'.auth = mcpAdd.auth /\ auths' = auths) \/ Place(Last(Behind).step) < 5,
           mcpAdd'.headers = mcpAdd.headers \/ Place(Last(Behind).step) < 7,
           mcpAdd'.name \in Servers, Says(Last(Behind), p, mcpAdd', auths')
    PROVE  WizardInv'
<1> DEFINE d == mcpAdd'  a == auths'
<1>1. /\ IsStack(Behind) /\ Behind # << >> /\ Ordered(Behind)
      /\ Drafted(Behind, mcpAdd, mcpClient) /\ Agrees(Behind, mcpAdd, auths)
  BY WizardFinds
<1>2. Ordered(Push(Behind, p)) /\ Len(Push(Behind, p)) = Len(Behind) + 1
  BY <1>1, AddOrdered
<1>3. /\ d.name = mcpAdd.name \/ Last(Behind).step = "mcpname"
      /\ d.transport = mcpAdd.transport \/ Place(Last(Behind).step) < 3
      /\ (d.auth = mcpAdd.auth /\ a = auths) \/ Place(Last(Behind).step) < 5
      /\ d.headers = mcpAdd.headers \/ Place(Last(Behind).step) < 7
      /\ d \in AddDrafts
  OBVIOUS
<1>4. HasDraft(p, d, mcpClient)  BY DEF HasDraft, AddSteps, ClientSteps
<1>5. p.step \in AddSteps => Len(Push(Behind, p)) = Len(Behind) + 1 /\ Says(Last(Behind), p, d, a)
  BY <1>2
<1> HIDE DEF d, a
<1>6. Drafted(Behind, d, mcpClient) /\ Agrees(Behind, d, a)
  BY <1>1, <1>3, DraftsBefore
<1>7. Drafted(Push(Behind, p), d, mcpClient) /\ Agrees(Push(Behind, p), d, a)
  BY <1>1, <1>2, <1>4, <1>5, <1>6, PushDrafts
<1>8. DOMAIN servers' \subseteq Servers /\ SavedIsChosen'
  BY DEF WizardInv, SavedIsChosen
<1> QED  BY <1>2, <1>7, <1>8, WizardShows DEF d, a

\* One whose page needs no change of the draft.
LEMMA SameDraftMove ==
    ASSUME WizardInv, StackInv', Handled, NEW p, p.step \in AddSteps, popup' = Push(Behind, p),
           UNCHANGED <<mcpClient, servers, mcpAdd, auths>>,
           Last(Behind).step \in AddSteps \ {"mcpname"}, Follows(Last(Behind), p),
           Place(Last(Behind).step) < Place(p.step),
           Says(Last(Behind), p, mcpAdd, auths)
    PROVE  WizardInv'
<1>1. mcpAdd \in AddDrafts /\ mcpAdd.name \in Servers
  BY WizardFinds DEF HasDraft
<1>2. DraftInv'  BY DEF WizardInv, DraftInv
<1> QED  BY <1>1, <1>2, AddMove

LEMMA StopMove ==
    ASSUME WizardInv, StackInv', Handled, popup' = << >>, servers' = servers, DraftInv'
    PROVE  WizardInv'
BY WizardShows DEF WizardInv, SavedIsChosen

\* A page that is not one of those that add a server.
LEMMA OtherMove ==
    ASSUME WizardInv, StackInv', Handled, NEW p, p.step \notin AddSteps, popup' = Push(Behind, p),
           UNCHANGED <<mcpAdd, auths>>,
           mcpClient' = mcpClient \/ mcpClient' \in Servers,
           DOMAIN servers' \subseteq DOMAIN servers, SavedIsChosen',
           p.step = "mcp" => p.of = None /\ Len(Push(Behind, p)) = 1,
           p.step \in {"remove", "server"} =>
              Len(Push(Behind, p)) = Len(Behind) + 1 /\ Follows(Last(Behind), p),
           HasDraft(p, mcpAdd, mcpClient')
    PROVE  WizardInv'
<1>1. /\ IsStack(Behind) /\ Behind # << >> /\ Ordered(Behind)
      /\ Drafted(Behind, mcpAdd, mcpClient) /\ Agrees(Behind, mcpAdd, auths)
  BY WizardFinds
<1>2. Ordered(Push(Behind, p))  BY <1>1, PushOrdered
<1>3. Drafted(Behind, mcpAdd, mcpClient')  BY <1>1 DEF Drafted, HasDraft
<1>4. p.step \in AddSteps => Len(Push(Behind, p)) = Len(Behind) + 1 /\ Says(Last(Behind), p, mcpAdd, auths)
  OBVIOUS
<1> DEFINE c == mcpClient'
<1>5. HasDraft(p, mcpAdd, c) /\ Drafted(Behind, mcpAdd, c)  BY <1>3
<1> HIDE DEF c
<1>6. Drafted(Push(Behind, p), mcpAdd, c) /\ Agrees(Push(Behind, p), mcpAdd, auths)
  BY <1>1, <1>2, <1>4, <1>5, PushDrafts
<1>7. DOMAIN servers' \subseteq Servers /\ DraftInv'
  BY DEF WizardInv, DraftInv
<1> QED  BY <1>2, <1>6, <1>7, WizardShows DEF c

\* A handler of a page finds that page last.
LEMMA ChosenIs ==
    ASSUME NEW step, Chosen(step), StackInv
    PROVE  Last(Behind).step = step /\ ChoiceMade(Last(Behind), child.arg)
BY StacksOf DEF Chosen

LEMMA NameMove ==
    ASSUME WizardInv, StackInv', Handled, AddName
    PROVE  WizardInv'
<1>1. Last(Behind).step = "mcpname" /\ child.arg \in Servers \cup {""}
  BY ChosenIs DEF AddName, WizardInv, ChoiceMade
<1>2. CASE StopAdd
  BY <1>2, StopMove DEF AddName, StopAdd, DraftInv, WizardInv
<1>3. CASE child.arg # "" /\ Ask("transport", [mcpAdd EXCEPT !.name = child.arg])
  <2> DEFINE p == Page("transport", None, child.arg)  d == [mcpAdd EXCEPT !.name = child.arg]
  <2>1. popup' = Push(Behind, p) /\ mcpAdd' = d
    BY <1>3, WizardFinds DEF Ask, Open
  <2>2. p.step = "transport" /\ p.step \in AddSteps /\ Last(Behind).step \in AddSteps
        /\ Follows(Last(Behind), p) /\ Place(Last(Behind).step) < Place(p.step)
        /\ Place(Last(Behind).step) < 3
    <3>1. p.step = "transport"  BY DEF Page
    <3> HIDE DEF p
    <3>2. p.step \in AddSteps /\ Last(Behind).step \in AddSteps  BY <1>1, <3>1 DEF AddSteps
    <3>3. Follows(Last(Behind), p)  BY <1>1, <3>1 DEF Follows
    <3>4. Place(Last(Behind).step) = 1 /\ Place(p.step) = 2  BY <1>1, <3>1 DEF Place
    <3> QED  BY <3>1, <3>2, <3>3, <3>4
  <2>3. mcpAdd \in AddDrafts  BY <1>1, WizardFinds DEF HasDraft, AddSteps
  <2>4. d \in AddDrafts /\ d.name \in Servers
    BY <1>1, <1>3, <2>3 DEF AddDrafts
  <2>5. d.transport = mcpAdd.transport /\ d.auth = mcpAdd.auth /\ d.headers = mcpAdd.headers
    BY <2>3, Zenon DEF AddDrafts
  <2>6. Says(Last(Behind), p, d, auths)  BY <2>2 DEF Says
  <2>7. UNCHANGED <<mcpClient, servers, auths>>  BY DEF AddName
  <2>8. DraftInv'
    BY <2>1, <2>3, <2>5, <2>7, McpAssumption DEF WizardInv, DraftInv
  <2> HIDE DEF d, p
  <2> QED  BY <1>1, <2>1, <2>2, <2>4, <2>5, <2>6, <2>7, <2>8, AddMove
<1> QED  BY <1>1, <1>2, <1>3 DEF AddName

LEMMA TransportMove ==
    ASSUME WizardInv, StackInv', Handled, Chosen("transport"),
           Ask(IF child.arg = "stdio" THEN "command" ELSE "mcpurl", [mcpAdd EXCEPT !.transport = child.arg]),
           UNCHANGED <<mcpClient, servers, auths>>
    PROVE  WizardInv'
<1>1. Last(Behind).step = "transport" /\ child.arg \in {"stdio", "http"}
  BY ChosenIs DEF WizardInv, ChoiceMade
<1> DEFINE step == IF child.arg = "stdio" THEN "command" ELSE "mcpurl"
           p == Page(step, None, child.arg)  d == [mcpAdd EXCEPT !.transport = child.arg]
<1>2. popup' = Push(Behind, p) /\ mcpAdd' = d
  BY WizardFinds DEF Ask, Open
<1>3. /\ p.step = step /\ p.via = child.arg /\ p.step \in AddSteps /\ Last(Behind).step \in AddSteps
      /\ Follows(Last(Behind), p) /\ Place(Last(Behind).step) < Place(p.step)
      /\ Place(Last(Behind).step) < 3
  BY <1>1 DEF Page, AddSteps, Follows, Place
<1>4. mcpAdd \in AddDrafts /\ mcpAdd.name \in Servers
  BY <1>1, WizardFinds DEF HasDraft, AddSteps
<1>5. d \in AddDrafts /\ d.transport = child.arg
  BY <1>1, <1>4 DEF AddDrafts
<1>6. d.name = mcpAdd.name /\ d.auth = mcpAdd.auth /\ d.headers = mcpAdd.headers
  BY <1>4, Zenon DEF AddDrafts
<1>7. Says(Last(Behind), p, d, auths)  BY <1>3, <1>5 DEF Says
<1>8. DraftInv'
  BY <1>2, <1>4, <1>6, McpAssumption DEF WizardInv, DraftInv
<1> HIDE DEF d, p
<1> QED  BY <1>1, <1>2, <1>3, <1>4, <1>5, <1>6, <1>7, <1>8, AddMove

\* The pages whose choice changes nothing in the draft yet.
LEMMA PlainMove ==
    ASSUME WizardInv, StackInv', Handled, NEW from, NEW to, Chosen(from), Ask(to, mcpAdd),
           <<from, to>> \in {<<"command", "args">>, <<"args", "env">>, <<"mcpurl", "auth">>,
                             <<"apikeyname", "apikey">>, <<"more", "headers">>},
           UNCHANGED <<mcpClient, servers, auths>>
    PROVE  WizardInv'
<1>1. Last(Behind).step = from  BY ChosenIs DEF WizardInv
<1> DEFINE p == Page(to, None, child.arg)
<1>2. popup' = Push(Behind, p) /\ mcpAdd' = mcpAdd
  BY WizardFinds DEF Ask, Open
<1>3. /\ p.step = to /\ p.step \in AddSteps /\ Last(Behind).step \in AddSteps \ {"mcpname"}
      /\ Follows(Last(Behind), p) /\ Place(Last(Behind).step) < Place(p.step)
  <2>1. p.step = to  BY DEF Page
  <2> HIDE DEF p
  <2>2. p.step \in AddSteps /\ Last(Behind).step \in AddSteps \ {"mcpname"}  BY <1>1, <2>1 DEF AddSteps
  <2>3. Follows(Last(Behind), p)  BY <1>1, <2>1 DEF Follows
  <2>4. Place(Last(Behind).step) < Place(p.step)  BY <1>1, <2>1 DEF Place
  <2> QED  BY <2>1, <2>2, <2>3, <2>4
<1>4. Says(Last(Behind), p, mcpAdd, auths)  BY <1>1, <1>3 DEF Says
<1> HIDE DEF p
<1> QED  BY <1>2, <1>3, <1>4, SameDraftMove

LEMMA AuthMove ==
    ASSUME WizardInv, StackInv', Handled, Chosen("auth"),
           Ask(IF child.arg \in {"none", "oauth"} THEN "more" ELSE child.arg,
               [mcpAdd EXCEPT !.auth = @ \/ child.arg = "oauth"]),
           auths' = IF auths = "none" THEN "once"
                    ELSE IF mcpAdd.auth \/ mcpAdd.headers # {} THEN "again" ELSE auths,
           UNCHANGED <<mcpClient, servers>>
    PROVE  WizardInv'
<1>1. Last(Behind).step = "auth" /\ child.arg \in {"none", "oauth", "bearer", "apikeyname", "basic"}
  BY ChosenIs DEF WizardInv, ChoiceMade
<1> DEFINE step == IF child.arg \in {"none", "oauth"} THEN "more" ELSE child.arg
           p == Page(step, None, child.arg)  d == [mcpAdd EXCEPT !.auth = @ \/ child.arg = "oauth"]
<1>2. popup' = Push(Behind, p) /\ mcpAdd' = d
  BY WizardFinds DEF Ask, Open
<1>3. /\ p.step = step /\ p.via = child.arg /\ p.step \in AddSteps /\ Last(Behind).step \in AddSteps
      /\ Follows(Last(Behind), p) /\ Place(Last(Behind).step) < Place(p.step)
      /\ Place(Last(Behind).step) < 5
  BY <1>1 DEF Page, AddSteps, Follows, Place
<1>4. mcpAdd \in AddDrafts /\ mcpAdd.name \in Servers /\ mcpAdd # None
  BY <1>1, WizardFinds, McpAssumption DEF HasDraft, AddSteps
<1>5. d \in AddDrafts
  <2>1. (mcpAdd.auth \/ child.arg = "oauth") \in BOOLEAN  BY Zenon
  <2>2. ASSUME NEW b \in BOOLEAN PROVE [mcpAdd EXCEPT !.auth = b] \in AddDrafts
    BY <1>4 DEF AddDrafts
  <2> QED  BY <2>1, <2>2, Zenon
<1>6. d.auth = (mcpAdd.auth \/ child.arg = "oauth") /\ d.name = mcpAdd.name
      /\ d.transport = mcpAdd.transport /\ d.headers = mcpAdd.headers
  BY <1>4, Zenon DEF AddDrafts
<1>7. auths' # "none" /\ auths' \in {"none", "once", "again"}  BY DEF WizardInv, DraftInv
<1>8. auths' = "once" => ~mcpAdd.auth /\ mcpAdd.headers = {}
  <2>1. auths = "none" => ~mcpAdd.auth /\ mcpAdd.headers = {}
    BY <1>4, Zenon DEF WizardInv, DraftInv
  <2>2. "again" # "once" /\ "none" # "once"  OBVIOUS
  <2> QED  BY <2>1, <2>2, Zenon
<1>9. Says(Last(Behind), p, d, auths')
  <2>1. p.step \notin {"command", "mcpurl"}  BY <1>1, <1>3
  <2>2. Last(Behind).step \notin Credentials  BY <1>1 DEF Credentials
  <2>3. auths' = "once" => (d.auth <=> p.via = "oauth") /\ d.headers = {}
    BY <1>3, <1>6, <1>8, Zenon
  <2> QED  BY <1>7, <2>1, <2>2, <2>3, Zenon DEF Says
<1>10. DraftInv'  BY <1>7, Zenon DEF DraftInv
<1> HIDE DEF d, p
<1> QED  BY <1>1, <1>2, <1>3, <1>4, <1>5, <1>6, <1>9, <1>10, AddMove

LEMMA CredentialMove ==
    ASSUME WizardInv, StackInv', Handled, NEW h \in Credentials, Chosen(h),
           Ask("more", [mcpAdd EXCEPT !.headers = Given(child.arg, h)]),
           UNCHANGED <<mcpClient, servers, auths>>
    PROVE  WizardInv'
<1>1. Last(Behind).step = h /\ child.arg \in {"", "x"}
  BY ChosenIs DEF WizardInv, ChoiceMade, Credentials
<1> DEFINE p == Page("more", None, child.arg)  d == [mcpAdd EXCEPT !.headers = Given(child.arg, h)]
<1>2. popup' = Push(Behind, p) /\ mcpAdd' = d
  BY WizardFinds DEF Ask, Open
<1>3. /\ p.step = "more" /\ p.via = child.arg /\ p.step \in AddSteps /\ Last(Behind).step \in AddSteps
      /\ Follows(Last(Behind), p) /\ Place(Last(Behind).step) < Place(p.step)
      /\ Place(Last(Behind).step) < 7
  <2>1. p.step = "more" /\ p.via = child.arg  BY DEF Page
  <2> HIDE DEF p
  <2>2. p.step \in AddSteps /\ Last(Behind).step \in AddSteps  BY <1>1, <2>1 DEF AddSteps, Credentials
  <2>3. Follows(Last(Behind), p)  BY <1>1, <2>1 DEF Follows, Credentials
  <2>4. Place(Last(Behind).step) = 6 /\ Place(p.step) = 7  BY <1>1, <2>1 DEF Place, Credentials
  <2> QED  BY <2>1, <2>2, <2>3, <2>4
<1>4. mcpAdd \in AddDrafts /\ mcpAdd.name \in Servers /\ mcpAdd # None
  BY <1>1, WizardFinds, McpAssumption DEF HasDraft, AddSteps, Credentials
<1>5. d \in AddDrafts /\ d.headers = Given(child.arg, h)
  BY <1>4 DEF AddDrafts, Given, Credentials
<1>6. d.name = mcpAdd.name /\ d.transport = mcpAdd.transport /\ d.auth = mcpAdd.auth
  BY <1>4, Zenon DEF AddDrafts
<1>7. auths # "none"
  <2>1. \A i \in DOMAIN Behind : Behind[i].step \in AddSteps => i > 1 /\ Follows(Behind[i - 1], Behind[i])
    BY WizardFinds DEF Ordered
  <2>2. \A i \in DOMAIN Behind : Behind[i].step \in AddSteps => Says(Behind[i - 1], Behind[i], mcpAdd, auths)
    BY WizardFinds DEF Agrees
  <2>3. /\ Len(Behind) \in DOMAIN Behind /\ Behind[Len(Behind)].step = h
        /\ DOMAIN Behind = 1..Len(Behind) /\ Len(Behind) \in Nat
    <3>1. IsStack(Behind) /\ Last(Behind) = Behind[Len(Behind)] /\ Len(Behind) > 0
          /\ DOMAIN Behind = 1..Len(Behind) /\ Len(Behind) \in Nat
      BY WizardFinds
    <3>2. Len(Behind) \in DOMAIN Behind  BY <3>1
    <3>3. Behind[Len(Behind)].step = h  BY <1>1, <3>1
    <3> QED  BY <3>1, <3>2, <3>3
  <2>4. CASE h \in {"bearer", "basic"}
    <3>1. Behind[Len(Behind) - 1].step = "auth"
      BY <2>1, <2>3, <2>4 DEF Follows, AddSteps
    <3> QED  BY <2>2, <2>3, <2>4, <3>1 DEF Says, AddSteps
  <2>5. CASE h = "apikey"
    <3>1. Behind[Len(Behind) - 1].step = "apikeyname" /\ Len(Behind) > 1
      BY <2>1, <2>3, <2>5 DEF Follows, AddSteps
    <3>2. Len(Behind) - 1 \in DOMAIN Behind  BY <2>3, <3>1
    <3> DEFINE k == Len(Behind) - 1
    <3>3. k \in DOMAIN Behind /\ Behind[k].step = "apikeyname"  BY <3>1, <3>2
    <3> HIDE DEF k
    <3>4. Behind[k - 1].step = "auth"
      BY <2>1, <3>3 DEF Follows, AddSteps
    <3> QED  BY <2>2, <3>3, <3>4 DEF Says, AddSteps
  <2> QED  BY <2>4, <2>5 DEF Credentials
<1>8. Says(Last(Behind), p, d, auths)
  BY <1>1, <1>3, <1>5 DEF Says, Credentials
<1>9. DraftInv'  BY <1>7 DEF WizardInv, DraftInv
<1> HIDE DEF d, p
<1> QED  BY <1>1, <1>2, <1>3, <1>4, <1>5, <1>6, <1>8, <1>9, AddMove

\* The page before one that adds a server.
LEMMA Before ==
    ASSUME NEW st, IsStack(st), Ordered(st), NEW k \in DOMAIN st, st[k].step \in AddSteps
    PROVE  /\ k > 1 /\ k - 1 \in DOMAIN st /\ k \in Nat /\ Follows(st[k - 1], st[k])
           /\ \A j \in DOMAIN st : j < k => Place(st[j].step) < Place(st[k].step)
           /\ \A j \in DOMAIN st : st[j].step = st[k].step => j = k
<1>1. DOMAIN st = 1..Len(st) /\ Len(st) \in Nat  BY StackFacts
<1>2. k > 1 /\ Follows(st[k - 1], st[k])  BY DEF Ordered
<1>3. \A j \in DOMAIN st : j < k => Place(st[j].step) < Place(st[k].step)  BY DEF Ordered
<1>4. ASSUME NEW j \in DOMAIN st, st[j].step = st[k].step PROVE j = k
  <2>1. \A s : Place(s) \in Int  BY DEF Place
  <2>2. ~(j < k)  BY <1>3, <1>4, <2>1
  <2>3. k < j => Place(st[k].step) < Place(st[j].step)  BY <1>4 DEF Ordered
  <2>4. ~(k < j)  BY <1>4, <2>1, <2>3
  <2> QED  BY <1>1, <2>2, <2>4
<1> QED  BY <1>1, <1>2, <1>3, <1>4

LEMMA ChoseAt ==
    ASSUME StackInv, child # None, NEW i \in DOMAIN Behind,
           \A j \in DOMAIN Behind : Behind[j].step = Behind[i].step => j = i
    PROVE  Chose(Behind[i].step) = IF i = Len(Behind) THEN child.arg ELSE Behind[i + 1].via
<1> DEFINE at == {j \in DOMAIN Behind : Behind[j].step = Behind[i].step}
<1>1. Behind = child.from /\ i \in Nat  BY StacksOf
<1>2. at = {i}  OBVIOUS
<1>3. Max({i}) = i  BY <1>1 DEF Max
<1> QED  BY <1>1, <1>2, <1>3 DEF Chose

LEMMA ChoseNone ==
    ASSUME StackInv, child # None, NEW step, \A j \in DOMAIN Behind : Behind[j].step # step
    PROVE  Chose(step) = None
<1>1. Behind = child.from  BY StacksOf
<1>2. {j \in DOMAIN Behind : Behind[j].step = step} = {}  OBVIOUS
<1> QED  BY <1>1, <1>2 DEF Chose

\* What the pages that lead to a command say.
LEMMA StdioPath ==
    ASSUME WizardInv, Handled, Last(Behind).step = "env"
    PROVE  /\ mcpAdd \in AddDrafts /\ mcpAdd.name \in Servers /\ mcpAdd.transport = "stdio"
           /\ Chose("transport") = "stdio" /\ Chose("auth") = None
           /\ \A h \in Credentials \cup {"headers"} : Chose(h) = None
<1> DEFINE B == Behind  n == Len(B)
<1>1. /\ IsStack(B) /\ Ordered(B) /\ n \in DOMAIN B /\ B[n].step = "env" /\ DOMAIN B = 1..n /\ n \in Nat
      /\ Drafted(B, mcpAdd, mcpClient) /\ Agrees(B, mcpAdd, auths)
  <2>1. /\ IsStack(B) /\ Ordered(B) /\ Last(B) = B[n] /\ DOMAIN B = 1..n /\ n \in Nat /\ n > 0
        /\ Drafted(B, mcpAdd, mcpClient) /\ Agrees(B, mcpAdd, auths)
    BY WizardFinds
  <2>2. n \in DOMAIN B  BY <2>1
  <2> QED  BY <2>1, <2>2
<1>2. StackInv /\ child # None  BY DEF WizardInv, Handled
<1> HIDE DEF B, n
<1>3. PICK k \in DOMAIN B : k = n - 1 /\ B[k].step = "args" /\ k \in Nat
  BY <1>1, Before DEF AddSteps, Follows
<1>4. PICK c \in DOMAIN B : c = k - 1 /\ B[c].step = "command" /\ c \in Nat
  BY <1>1, <1>3, Before DEF AddSteps, Follows
<1>5. /\ B[c].via = "stdio"
      /\ \E t \in DOMAIN B : t = c - 1 /\ B[t].step = "transport" /\ t \in Nat
  BY <1>1, <1>4, Before DEF AddSteps, Follows
<1>6. PICK t \in DOMAIN B : t = c - 1 /\ B[t].step = "transport" /\ t \in Nat
  BY <1>5
<1>7. Chose("transport") = "stdio"
  <2>1. \A j \in DOMAIN B : B[j].step = B[t].step => j = t
    BY <1>1, <1>6, Before DEF AddSteps
  <2>2. Chose(B[t].step) = IF t = n THEN child.arg ELSE B[t + 1].via
    BY <1>2, <2>1, ChoseAt DEF B, n
  <2> QED  BY <1>3, <1>4, <1>5, <1>6, <2>2
<1>8. mcpAdd \in AddDrafts /\ mcpAdd.name \in Servers /\ mcpAdd.transport = "stdio"
  <2>1. HasDraft(B[c], mcpAdd, mcpClient)  BY <1>1 DEF Drafted
  <2>2. Says(B[c - 1], B[c], mcpAdd, auths)  BY <1>1, <1>4 DEF Agrees, AddSteps
  <2> QED  BY <1>4, <1>5, <2>1, <2>2 DEF HasDraft, Says, AddSteps
<1>9. ASSUME NEW h \in Credentials \cup {"auth", "headers"} PROVE \A j \in DOMAIN B : B[j].step # h
  <2>1. Place("env") = 5 /\ Place("args") = 4  BY DEF Place
  <2>2. \A j \in DOMAIN B : j < n => Place(B[j].step) < 5  BY <1>1, <2>1, Before DEF AddSteps
  <2>3. \A j \in DOMAIN B : j < k => Place(B[j].step) < 4  BY <1>1, <1>3, <2>1, Before DEF AddSteps
  <2>4. Place("auth") = 4 /\ Place("headers") = 8 /\ \A x \in Credentials : Place(x) = 6
    BY DEF Place, Credentials
  <2> SUFFICES ASSUME NEW j \in DOMAIN B, B[j].step = h PROVE FALSE  OBVIOUS
  <2>5. j = n \/ j = k \/ j < k  BY <1>1, <1>3
  <2>6. CASE j = n  BY <1>1, <1>9, <2>6 DEF Credentials
  <2>7. CASE j = k  BY <1>3, <1>9, <2>7 DEF Credentials
  <2>8. CASE j < k
    <3>1. j < n  BY <1>1, <1>3, <2>8
    <3> QED  BY <1>9, <2>2, <2>3, <2>4, <2>8, <3>1
  <2> QED  BY <2>5, <2>6, <2>7, <2>8
<1>10. \A h \in Credentials \cup {"auth", "headers"} : Chose(h) = None
  BY <1>2, <1>9, ChoseNone DEF B
<1> QED  BY <1>7, <1>8, <1>10

\* The page of a credential is the one before that of more headers.
LEMMA OneCredential ==
    ASSUME NEW st, IsStack(st), Ordered(st), NEW m \in DOMAIN st, st[m].step = "more",
           NEW j \in DOMAIN st, st[j].step \in Credentials
    PROVE  j = m - 1
<1>1. DOMAIN st = 1..Len(st) /\ Len(st) \in Nat  BY StackFacts
<1>2. /\ m - 1 \in DOMAIN st /\ st[m - 1].step \in Credentials \cup {"auth"}
  BY Before DEF AddSteps, Follows, Credentials
<1>3. Place("more") = 7 /\ Place("auth") = 4 /\ \A x \in Credentials : Place(x) = 6
  BY DEF Place, Credentials
<1>4. st[j].step \in AddSteps /\ st[m].step \in AddSteps /\ st[m - 1].step \in AddSteps
  BY <1>2 DEF AddSteps, Credentials
<1>5. ~(m < j)
  <2>1. m < j => Place(st[m].step) < Place(st[j].step)  BY <1>4 DEF Ordered
  <2> QED  BY <1>3, <2>1
<1>6. j # m  BY DEF Credentials
<1>7. ~(j < m - 1)
  <2> DEFINE k == m - 1
  <2>1. k \in DOMAIN st /\ st[k].step \in AddSteps  BY <1>2, <1>4
  <2>2. st[k].step \in Credentials \cup {"auth"}  BY <1>2
  <2> HIDE DEF k
  <2>3. j < k => Place(st[j].step) < Place(st[k].step)  BY <2>1 DEF Ordered
  <2>4. ~(j < k)  BY <1>3, <2>2, <2>3
  <2> QED  BY <2>4 DEF k
<1> QED  BY <1>1, <1>5, <1>6, <1>7

\* What the pages that lead to the authentication say.
LEMMA RemotePath ==
    ASSUME WizardInv, Handled, NEW a \in DOMAIN Behind, Behind[a].step = "auth", a < Len(Behind)
    PROVE  /\ mcpAdd \in AddDrafts /\ mcpAdd.name \in Servers /\ mcpAdd.transport = "http"
           /\ Chose("transport") = "http" /\ Chose("auth") = Behind[a + 1].via
<1> DEFINE B == Behind  n == Len(B)
<1>1. /\ IsStack(B) /\ Ordered(B) /\ DOMAIN B = 1..n /\ n \in Nat
      /\ Drafted(B, mcpAdd, mcpClient) /\ Agrees(B, mcpAdd, auths)
  BY WizardFinds
<1>2. StackInv /\ child # None  BY DEF WizardInv, Handled
<1>a. a \in DOMAIN B /\ B[a].step = "auth" /\ a < n  OBVIOUS
<1> HIDE DEF B, n
<1>3. PICK c \in DOMAIN B : c = a - 1 /\ B[c].step = "mcpurl" /\ c \in Nat
  BY <1>1, <1>a, Before DEF AddSteps, Follows
<1>4. B[c].via = "http" /\ \E t \in DOMAIN B : t = c - 1 /\ B[t].step = "transport" /\ t \in Nat
  BY <1>1, <1>3, Before DEF AddSteps, Follows
<1>5. PICK t \in DOMAIN B : t = c - 1 /\ B[t].step = "transport" /\ t \in Nat
  BY <1>4
<1>6. Chose("transport") = "http"
  <2>1. \A j \in DOMAIN B : B[j].step = B[t].step => j = t
    BY <1>1, <1>5, Before DEF AddSteps
  <2>2. Chose(B[t].step) = IF t = n THEN child.arg ELSE B[t + 1].via
    BY <1>2, <2>1, ChoseAt DEF B, n
  <2> QED  BY <1>1, <1>a, <1>3, <1>4, <1>5, <2>2
<1>7. Chose("auth") = B[a + 1].via
  <2>1. \A j \in DOMAIN B : B[j].step = B[a].step => j = a
    BY <1>1, <1>a, Before DEF AddSteps
  <2>2. Chose(B[a].step) = IF a = n THEN child.arg ELSE B[a + 1].via
    BY <1>2, <1>a, <2>1, ChoseAt DEF B, n
  <2> QED  BY <1>1, <1>a, <2>2
<1>8. mcpAdd \in AddDrafts /\ mcpAdd.name \in Servers /\ mcpAdd.transport = "http"
  <2>1. HasDraft(B[c], mcpAdd, mcpClient)  BY <1>1 DEF Drafted
  <2>2. Says(B[c - 1], B[c], mcpAdd, auths)  BY <1>1, <1>3 DEF Agrees, AddSteps
  <2> QED  BY <1>3, <1>4, <2>1, <2>2 DEF HasDraft, Says, AddSteps
<1> QED  BY <1>6, <1>7, <1>8 DEF B

ChosenCredentials == UNION {IF Chose(h) = None THEN {} ELSE Given(Chose(h), h) : h \in Credentials}

\* And what the page of more headers has behind it.
LEMMA HttpPath ==
    ASSUME WizardInv, Handled, NEW m \in DOMAIN Behind, Behind[m].step = "more"
    PROVE  /\ mcpAdd \in AddDrafts /\ mcpAdd.name \in Servers /\ mcpAdd.transport = "http"
           /\ Chose("transport") = "http" /\ auths # "none"
           /\ auths = "once" => /\ mcpAdd.auth <=> Chose("auth") = "oauth"
                                /\ mcpAdd.headers = ChosenCredentials
<1> DEFINE B == Behind  n == Len(B)
           Path == /\ mcpAdd \in AddDrafts /\ mcpAdd.name \in Servers /\ mcpAdd.transport = "http"
                   /\ Chose("transport") = "http"
<1>1. /\ IsStack(B) /\ Ordered(B) /\ DOMAIN B = 1..n /\ n \in Nat
      /\ Drafted(B, mcpAdd, mcpClient) /\ Agrees(B, mcpAdd, auths)
  BY WizardFinds
<1>2. StackInv /\ child # None  BY DEF WizardInv, Handled
<1>3. \A a \in DOMAIN B : B[a].step = "auth" /\ a < n => Path /\ Chose("auth") = B[a + 1].via
  BY RemotePath
<1>4. \A step : (\A j \in DOMAIN B : B[j].step # step) => Chose(step) = None
  BY <1>2, ChoseNone
<1>5. \A j \in DOMAIN B : B[j].step \in Credentials => j = m - 1
  BY <1>1, OneCredential
<1>6. m \in DOMAIN B /\ m \in Nat /\ B[m].step = "more" /\ B[m].step \in AddSteps
  BY <1>1 DEF AddSteps
<1>7. ASSUME NEW j \in DOMAIN B, B[j].step \in AddSteps
      PROVE  j > 1 /\ j - 1 \in DOMAIN B /\ Follows(B[j - 1], B[j]) /\ Says(B[j - 1], B[j], mcpAdd, auths)
  BY <1>1, <1>7, Before DEF Agrees
<1>8. ASSUME NEW k \in DOMAIN B, k = m - 1, B[k].step \in Credentials
      PROVE  Chose(B[k].step) = B[m].via
  <2>1. \A j \in DOMAIN B : B[j].step = B[k].step => j = k  BY <1>5, <1>8
  <2>2. Chose(B[k].step) = IF k = n THEN child.arg ELSE B[k + 1].via
    BY <1>2, <2>1, ChoseAt
  <2> QED  BY <1>1, <1>6, <1>8, <2>2
<1> HIDE DEF B, n
<1>9. m - 1 \in DOMAIN B /\ Follows(B[m - 1], B[m]) /\ Says(B[m - 1], B[m], mcpAdd, auths)
  BY <1>6, <1>7
<1>10. PICK k \in DOMAIN B : k = m - 1 /\ k \in Nat  BY <1>1, <1>9
<1>11. CASE B[k].step = "auth"
  <2>1. k < n /\ B[k + 1] = B[m]  BY <1>1, <1>6, <1>10
  <2>2. Path /\ Chose("auth") = B[m].via  BY <1>3, <1>11, <2>1
  <2>3. \A h \in Credentials : Chose(h) = None
    BY <1>4, <1>5, <1>10, <1>11 DEF Credentials
  <2>4. ChosenCredentials = {}  BY <2>3 DEF ChosenCredentials
  <2>5. Says(B[k], B[m], mcpAdd, auths)  BY <1>9, <1>10
  <2>6. /\ auths # "none"
        /\ auths = "once" => (mcpAdd.auth <=> B[m].via = "oauth")
    BY <1>6, <1>11, <2>5, Zenon DEF Says
  <2>7. auths = "once" => mcpAdd.headers = {}
    BY <1>6, <1>11, <2>5 DEF Says, Credentials
  <2> QED  BY <2>2, <2>4, <2>6, <2>7, Zenon DEF B
<1>12. CASE B[k].step \in Credentials
  <2> DEFINE h == B[k].step
  <2>1. Chose(h) = B[m].via /\ B[m].via \in {"", "x"}
    <3>1. Chose(h) = B[m].via  BY <1>8, <1>10, <1>12
    <3>2. B[m].via \in {"", "x"}  BY <1>6, <1>9, <1>10, <1>12 DEF Follows, Credentials
    <3> QED  BY <3>1, <3>2
  <2>2. \A x \in Credentials \ {h} : Chose(x) = None  BY <1>4, <1>5, <1>10, <1>12
  <2>3. ChosenCredentials = Given(B[m].via, h)
    <3>1. Chose(h) # None /\ h \in Credentials  BY <1>12, <2>1, McpAssumption
    <3>2. Given(Chose(h), h) = Given(B[m].via, h)  BY <2>1
    <3>3. UNION {IF Chose(x) = None THEN {} ELSE Given(Chose(x), x) : x \in Credentials} = Given(Chose(h), h)
      <4> HIDE DEF h
      <4> QED  BY <2>2, <3>1
    <3> QED  BY <3>2, <3>3 DEF ChosenCredentials
  <2>4. auths = "once" => mcpAdd.headers = Given(B[m].via, h)
    BY <1>6, <1>9, <1>10, <1>12 DEF Says
  <2>5. \E a \in DOMAIN B : /\ a < n /\ B[a].step = "auth"
                            /\ B[a + 1].step \in {"bearer", "apikeyname", "basic"}
                            /\ B[a + 1].via = B[a + 1].step
                            /\ Says(B[a], B[a + 1], mcpAdd, auths)
    <3>1. CASE B[k].step \in {"bearer", "basic"}
      <4>1. k > 1 /\ k - 1 \in DOMAIN B /\ Follows(B[k - 1], B[k]) /\ Says(B[k - 1], B[k], mcpAdd, auths)
        BY <1>7, <3>1 DEF AddSteps
      <4>2. B[k - 1].step = "auth" /\ B[k].via = B[k].step  BY <3>1, <4>1 DEF Follows
      <4>3. k - 1 < n /\ (k - 1) + 1 = k  BY <1>1, <1>10
      <4> QED  BY <3>1, <4>1, <4>2, <4>3
    <3>2. CASE B[k].step = "apikey"
      <4>1. k > 1 /\ k - 1 \in DOMAIN B /\ Follows(B[k - 1], B[k])
        BY <1>7, <3>2 DEF AddSteps
      <4>2. PICK c \in DOMAIN B : c = k - 1 /\ c \in Nat /\ B[c].step = "apikeyname"
        BY <1>10, <3>2, <4>1 DEF Follows
      <4>3. c > 1 /\ c - 1 \in DOMAIN B /\ Follows(B[c - 1], B[c]) /\ Says(B[c - 1], B[c], mcpAdd, auths)
        BY <1>7, <4>2 DEF AddSteps
      <4>4. B[c - 1].step = "auth" /\ B[c].via = B[c].step  BY <4>2, <4>3 DEF Follows
      <4>5. c - 1 < n /\ (c - 1) + 1 = c  BY <1>1, <4>2
      <4> QED  BY <4>2, <4>3, <4>4, <4>5
    <3> QED  BY <1>12, <3>1, <3>2 DEF Credentials
  <2>6. PICK a \in DOMAIN B : /\ a < n /\ B[a].step = "auth"
                              /\ B[a + 1].step \in {"bearer", "apikeyname", "basic"}
                              /\ B[a + 1].via = B[a + 1].step
                              /\ Says(B[a], B[a + 1], mcpAdd, auths)
    BY <2>5
  <2>7. Path /\ Chose("auth") = B[a + 1].via /\ Chose("auth") # "oauth"  BY <1>3, <2>6
  <2>8. /\ auths # "none"
        /\ auths = "once" => (mcpAdd.auth <=> Chose("auth") = "oauth")
    <3>1. B[a + 1].step \in {"bearer", "apikeyname", "basic", "more"}  BY <2>6
    <3> QED  BY <2>6, <2>7, <3>1, Zenon DEF Says
  <2> QED  BY <2>3, <2>4, <2>7, <2>8, Zenon
<1> QED  
  <2>1. B[k].step = "auth" \/ B[k].step \in Credentials
    BY <1>6, <1>9, <1>10 DEF Follows, Credentials
  <2> QED  BY <1>11, <1>12, <2>1, Zenon
Matches(r) ==
    /\ r.transport = r.chosen.transport
    /\ r.redone \/ (r.auth = r.chosen.auth /\ r.headers = r.chosen.headers)

LEMMA FinalizeMove ==
    ASSUME WizardInv, StackInv', Handled, NEW d, d.name \in Servers, FinalizeMcpAdd(d),
           auths' = auths, mcpClient' = mcpClient, 
           d.transport = Chose("transport"),
           auths # "again" => /\ (d.transport = "http" /\ d.auth) <=> Chose("auth") = "oauth"
                              /\ (IF d.transport = "http" THEN d.headers ELSE {}) = ChosenServer.headers
    PROVE  WizardInv'
<1> DEFINE r == [transport |-> d.transport, auth |-> d.transport = "http" /\ d.auth,
                 headers |-> IF d.transport = "http" THEN d.headers ELSE {},
                 chosen |-> ChosenServer, redone |-> auths = "again"]
<1>1. servers' = WithServer(d.name, r) /\ popup' = << >> /\ mcpAdd' = None
  BY DEF FinalizeMcpAdd, StopAdd
<1>2. Matches(r)
  <2>1. r.transport = r.chosen.transport  BY DEF ChosenServer
  <2>2. r.redone = (auths = "again")  BY Zenon
  <2>3. auths # "again" => r.auth = r.chosen.auth
    <3>1. r.auth = (d.transport = "http" /\ d.auth)  BY Zenon
    <3>2. r.chosen.auth = (Chose("auth") = "oauth")  BY Zenon DEF ChosenServer
    <3> QED  BY <3>1, <3>2, Zenon
  <2>4. auths # "again" => r.headers = r.chosen.headers  OBVIOUS
  <2> QED  BY <2>1, <2>2, <2>3, <2>4, Zenon DEF Matches
<1> HIDE DEF r
<1>3. \A s \in DOMAIN servers : Matches(servers[s])
  BY Zenon DEF WizardInv, SavedIsChosen, Matches
<1>4. \A s \in DOMAIN servers' : Matches(servers'[s])
  <2>1. /\ DOMAIN servers' = DOMAIN servers \cup {d.name} /\ servers'[d.name] = r
        /\ \A x \in DOMAIN servers \ {d.name} : servers'[x] = servers[x]
    <3> DEFINE s == d.name
    <3>0. servers' = WithServer(s, r)  BY <1>1
    <3> HIDE DEF s
    <3>1. /\ DOMAIN WithServer(s, r) = DOMAIN servers \cup {s} /\ WithServer(s, r)[s] = r
          /\ \A x \in DOMAIN servers \ {s} : WithServer(s, r)[x] = servers[x]
      BY DEF WithServer
    <3>2. DOMAIN servers' = DOMAIN servers \cup {s} /\ servers'[s] = r
          /\ \A x \in DOMAIN servers \ {s} : servers'[x] = servers[x]
      <4> DEFINE w == WithServer(s, r)
      <4>1. servers' = w /\ DOMAIN w = DOMAIN servers \cup {s} /\ w[s] = r
            /\ \A x \in DOMAIN servers \ {s} : w[x] = servers[x]
        BY <3>0, <3>1
      <4> HIDE DEF w
      <4> QED  BY <4>1
    <3> QED  BY <3>2 DEF s
  <2> QED  BY <1>2, <1>3, <2>1
<1>5. SavedIsChosen'  BY <1>4, Zenon DEF SavedIsChosen, Matches
<1>6. DOMAIN servers' \subseteq Servers
  <2>1. DOMAIN servers' = DOMAIN servers \cup {d.name}  BY <1>1 DEF WithServer
  <2> QED  BY <2>1 DEF WizardInv
<1>7. DraftInv'  BY <1>1 DEF WizardInv, DraftInv
<1> QED  BY <1>1, <1>5, <1>6, <1>7, WizardShows

LEMMA EnvMove ==
    ASSUME WizardInv, StackInv', Handled, Chosen("env"), FinalizeMcpAdd(mcpAdd), UNCHANGED <<auths, mcpClient>>
    PROVE  WizardInv'
<1>1. Last(Behind).step = "env"  BY ChosenIs DEF WizardInv
<1>2. /\ mcpAdd.name \in Servers /\ mcpAdd.transport = "stdio" /\ Chose("transport") = "stdio"
      /\ Chose("auth") = None /\ \A h \in Credentials \cup {"headers"} : Chose(h) = None
  BY <1>1, StdioPath
<1>3. ChosenServer.headers = {}
  BY <1>2 DEF ChosenServer, Credentials
<1>4. None # "oauth"  BY McpAssumption
<1> QED  BY <1>2, <1>3, <1>4, FinalizeMove

LEMMA MoreMove ==
    ASSUME WizardInv, StackInv', Handled, Chosen("more"), FinalizeMcpAdd(mcpAdd), UNCHANGED <<auths, mcpClient>>
    PROVE  WizardInv'
<1>1. Last(Behind).step = "more"  BY ChosenIs DEF WizardInv
<1>2. /\ IsStack(Behind) /\ Ordered(Behind) /\ Len(Behind) \in DOMAIN Behind /\ Behind[Len(Behind)].step = "more"
      /\ DOMAIN Behind = 1..Len(Behind) /\ Len(Behind) \in Nat
  <2>1. IsStack(Behind) /\ Last(Behind) = Behind[Len(Behind)] /\ Len(Behind) > 0
        /\ DOMAIN Behind = 1..Len(Behind) /\ Len(Behind) \in Nat /\ Ordered(Behind)
    BY WizardFinds
  <2> QED  BY <1>1, <2>1
<1>3. /\ mcpAdd.name \in Servers /\ mcpAdd.transport = "http"
      /\ Chose("transport") = "http" /\ auths # "none"
      /\ auths = "once" => /\ mcpAdd.auth <=> Chose("auth") = "oauth"
                           /\ mcpAdd.headers = ChosenCredentials
  BY <1>2, HttpPath
<1>4. Chose("headers") = None
  <2>1. \A j \in DOMAIN Behind : Behind[j].step # "headers"
    <3>1. \A j \in DOMAIN Behind : j < Len(Behind) => Place(Behind[j].step) < Place("more")
      BY <1>2, Before DEF AddSteps
    <3>2. Place("more") = 7 /\ Place("headers") = 8  BY DEF Place
    <3> QED  BY <1>2, <3>1, <3>2
  <2>2. StackInv /\ child # None  BY DEF WizardInv, Handled
  <2> QED  BY <2>1, <2>2, ChoseNone
<1>5. ChosenServer.headers = ChosenCredentials
  BY <1>4 DEF ChosenServer, ChosenCredentials, Credentials
<1>6. auths # "again" => auths = "once"  BY <1>3 DEF WizardInv, DraftInv
<1> QED  BY <1>3, <1>5, <1>6, FinalizeMove

LEMMA HeadersMove ==
    ASSUME WizardInv, StackInv', Handled, Chosen("headers"), UNCHANGED <<auths, mcpClient>>,
           FinalizeMcpAdd([mcpAdd EXCEPT !.headers = @ \cup Given(child.arg, "extra")])
    PROVE  WizardInv'
<1> DEFINE d == [mcpAdd EXCEPT !.headers = @ \cup Given(child.arg, "extra")]  n == Len(Behind)
<1>1. Last(Behind).step = "headers" /\ child.arg \in {"", "x"}
  BY ChosenIs DEF WizardInv, ChoiceMade
<1>2. /\ IsStack(Behind) /\ Ordered(Behind) /\ n \in DOMAIN Behind /\ Behind[n].step = "headers"
      /\ DOMAIN Behind = 1..n /\ n \in Nat
  <2>1. IsStack(Behind) /\ Last(Behind) = Behind[n] /\ n > 0
        /\ DOMAIN Behind = 1..n /\ n \in Nat /\ Ordered(Behind)
    BY WizardFinds
  <2>2. n \in DOMAIN Behind  BY <2>1
  <2>3. Behind[n].step = "headers"  BY <1>1, <2>1
  <2> QED  BY <2>1, <2>2, <2>3
<1> HIDE DEF n
<1>3. PICK m \in DOMAIN Behind : m = n - 1 /\ Behind[m].step = "more"
  BY <1>2, Before DEF AddSteps, Follows
<1>4. /\ mcpAdd \in AddDrafts /\ mcpAdd.name \in Servers /\ mcpAdd.transport = "http"
      /\ Chose("transport") = "http" /\ auths # "none"
      /\ auths = "once" => /\ mcpAdd.auth <=> Chose("auth") = "oauth"
                           /\ mcpAdd.headers = ChosenCredentials
  BY <1>3, HttpPath
<1>5. Chose("headers") = child.arg
  <2>1. \A j \in DOMAIN Behind : Behind[j].step = Behind[n].step => j = n
    BY <1>2, Before DEF AddSteps
  <2>2. StackInv /\ child # None  BY DEF WizardInv, Handled
  <2>3. Chose(Behind[n].step) = IF n = Len(Behind) THEN child.arg ELSE Behind[n + 1].via
    BY <1>2, <2>1, <2>2, ChoseAt
  <2> QED  BY <1>2, <2>3 DEF n
<1>6. ChosenServer.headers = ChosenCredentials \cup Given(child.arg, "extra")
  <2>1. Chose("headers") # None  BY <1>1, <1>5, McpAssumption
  <2>2. ChosenServer.headers = ChosenCredentials
           \cup (IF Chose("headers") = None THEN {} ELSE Given(Chose("headers"), "extra"))
    <3> DEFINE chosen == UNION {IF Chose(h) = None THEN {} ELSE Given(Chose(h), h) : h \in {"bearer", "apikey", "basic"}}
               more == IF Chose("headers") = None THEN {} ELSE Given(Chose("headers"), "extra")
    <3>1. ChosenServer.headers = chosen \cup more  BY SMT DEF ChosenServer
    <3>2. ChosenCredentials = chosen  BY Zenon DEF ChosenCredentials, Credentials
    <3>3. ASSUME NEW a, a = chosen, NEW b, b = chosen \cup more PROVE b = a \cup more
      <4> HIDE DEF chosen, more
      <4> QED  BY <3>3
    <3> QED  BY <3>1, <3>2, <3>3, Zenon
  <2> QED  BY <1>5, <2>1, <2>2
<1>7. /\ d.name = mcpAdd.name /\ d.transport = mcpAdd.transport
      /\ d.headers = mcpAdd.headers \cup Given(child.arg, "extra")
  BY <1>4 DEF AddDrafts
<1>8. d.auth = mcpAdd.auth  BY <1>4, Zenon DEF AddDrafts
<1>9. auths # "again" => auths = "once"  BY <1>4 DEF WizardInv, DraftInv
<1> HIDE DEF d
<1>10. /\ d.name \in Servers /\ d.transport = "http" /\ d.transport = Chose("transport")
       /\ auths # "again" => (d.auth <=> Chose("auth") = "oauth")
  BY <1>4, <1>7, <1>8, <1>9, Zenon
<1>11. auths # "again" => d.headers = ChosenServer.headers
  BY <1>4, <1>6, <1>7, <1>9
<1>12. FinalizeMcpAdd(d)  BY DEF d
<1> QED  BY <1>10, <1>11, <1>12, FinalizeMove
LEMMA AddMoves ==
    ASSUME WizardInv, StackInv', Handled, Add
    PROVE  WizardInv'
<1>1. mcpClient' = mcpClient  BY DEF Add
<1>2. CASE Chosen("transport") /\ UNCHANGED <<servers, auths>> /\
           Ask(IF child.arg = "stdio" THEN "command" ELSE "mcpurl", [mcpAdd EXCEPT !.transport = child.arg])
  BY <1>1, <1>2, TransportMove
<1>3. CASE UNCHANGED auths /\ popup' = << >> /\ mcpAdd' = None /\ servers' = servers
  <2>1. DraftInv'  BY <1>3 DEF WizardInv, DraftInv
  <2> QED  BY <1>3, <2>1, StopMove
<1>4. ASSUME NEW from, NEW to, Chosen(from), Ask(to, mcpAdd), UNCHANGED <<servers, auths>>,
             <<from, to>> \in {<<"command", "args">>, <<"args", "env">>, <<"mcpurl", "auth">>,
                               <<"apikeyname", "apikey">>, <<"more", "headers">>}
      PROVE  WizardInv'
  BY <1>1, <1>4, PlainMove
<1>5. CASE AddStdio /\ UNCHANGED auths
  <2>1. CASE Chosen("command") /\ UNCHANGED servers /\ (IF child.arg = "" THEN StopAdd ELSE Ask("args", mcpAdd))
    BY <1>3, <1>4, <1>5, <2>1 DEF StopAdd
  <2>2. CASE Chosen("args") /\ Ask("env", mcpAdd) /\ UNCHANGED servers
    BY <1>4, <1>5, <2>2
  <2>3. CASE Chosen("env") /\ FinalizeMcpAdd(mcpAdd)
    BY <1>1, <1>5, <2>3, EnvMove
  <2> QED  BY <1>2, <1>5, <2>1, <2>2, <2>3 DEF AddStdio
<1>6. CASE AddHeaders /\ UNCHANGED auths
  <2>1. CASE Chosen("more") /\ Ask("headers", mcpAdd) /\ UNCHANGED servers
    BY <1>4, <1>6, <2>1
  <2>2. CASE Chosen("more") /\ FinalizeMcpAdd(mcpAdd)
    BY <1>1, <1>6, <2>2, MoreMove
  <2>3. CASE Chosen("headers") /\ FinalizeMcpAdd([mcpAdd EXCEPT !.headers = @ \cup Given(child.arg, "extra")])
    BY <1>1, <1>6, <2>3, HeadersMove
  <2> QED  BY <1>6, <2>1, <2>2, <2>3 DEF AddHeaders
<1>7. CASE AddRemote /\ UNCHANGED servers
  <2>1. CASE Chosen("mcpurl") /\ (IF child.arg = "" THEN StopAdd ELSE Ask("auth", mcpAdd)) /\ UNCHANGED auths
    BY <1>3, <1>4, <1>7, <2>1 DEF StopAdd
  <2>2. CASE ~(Chosen("mcpurl") /\ (IF child.arg = "" THEN StopAdd ELSE Ask("auth", mcpAdd)) /\ UNCHANGED auths)
    BY <1>1, <1>7, <2>2, AuthMove DEF AddRemote
  <2> QED  BY <2>1, <2>2
<1>8. CASE AddCredential /\ UNCHANGED <<servers, auths>>
  <2>1. CASE Chosen("apikeyname") /\ Ask("apikey", mcpAdd)
    BY <1>4, <1>8, <2>1
  <2>2. ASSUME NEW h \in {"bearer", "apikey", "basic"}, Chosen(h),
               Ask("more", [mcpAdd EXCEPT !.headers = Given(child.arg, h)])
        PROVE  WizardInv'
    BY <1>1, <1>8, <2>2, CredentialMove DEF Credentials
  <2> QED  BY <1>8, <2>1, <2>2 DEF AddCredential
<1> QED  BY <1>5, <1>6, <1>7, <1>8 DEF Add

\* The list of servers has no page before it, and comes before those of one server.
LEMMA ListFirst ==
    ASSUME NEW st, IsStack(st), st # << >>, Ordered(st)
    PROVE  /\ Last(st).step = "mcp" => Len(st) = 1 /\ DOMAIN st = {1} /\ st[1] = Last(st)
           /\ Last(st).step \in {"remove", "server"} =>
                 \E i \in DOMAIN st : st[i].step = "mcp" /\ st[i].of = None
<1>1. Len(st) \in Nat /\ DOMAIN st = 1..Len(st) /\ Last(st) = st[Len(st)] /\ Len(st) > 0
  BY StackFacts
<1>2. Last(st).step = "mcp" => Len(st) = 1
  BY <1>1 DEF Ordered
<1>3. ASSUME Last(st).step \in {"remove", "server"}
      PROVE  \E i \in DOMAIN st : st[i].step = "mcp" /\ st[i].of = None
  <2> DEFINE n == Len(st)
  <2>1. n \in DOMAIN st /\ n \in Nat /\ st[n] = Last(st)  BY <1>1
  <2>2. n > 1 /\ Follows(st[n - 1], st[n])  BY <1>3, <2>1 DEF Ordered
  <2>3. n - 1 \in DOMAIN st  BY <1>1, <2>2
  <2> HIDE DEF n
  <2>4. PICK k \in DOMAIN st : Follows(st[k], st[n])  BY <2>2, <2>3
  <2>5. st[k].step = "mcp"  BY <1>3, <2>1, <2>4 DEF Follows
  <2> QED  BY <2>5 DEF Ordered
<1> QED  BY <1>1, <1>2, <1>3

\* Logins cover the pages before them.
LEMMA LoginMove ==
    ASSUME WizardInv, StackInv', Handled, NEW p, p.step \in LoginSteps, popup' = Push(Behind, p),
           UNCHANGED <<mcpAdd, auths, servers>>
    PROVE  WizardInv'
<1>1. popup' # << >> /\ Last(popup') = p
  BY WizardFinds, Pushed
<1>2. Shown' = << >> /\ Behind' = << >>
  BY <1>1 DEF Shown, Top, Behind, Handled
<1>3. DraftInv' /\ SavedIsChosen' /\ DOMAIN servers' \subseteq Servers
  BY DEF WizardInv, DraftInv, SavedIsChosen
<1> QED  BY <1>2, <1>3, NoStack DEF WizardInv

LEMMA MenuMove ==
    ASSUME WizardInv, StackInv', Handled, MenuPick
    PROVE  WizardInv'
<1>1. /\ IsStack(Behind) /\ Behind # << >> /\ Ordered(Behind) /\ Behind = child.from
      /\ Last(Behind).step = "mcp"
  BY WizardFinds DEF MenuPick, Chosen
<1>2. Len(Behind) = 1 /\ DOMAIN Behind = {1} /\ Behind[1] = Last(Behind)
  BY <1>1, ListFirst
<1>3. UNCHANGED <<servers, mcpClient>>  BY DEF MenuPick
<1>4. ASSUME NEW p, p.step # "mcp" /\ p.step \notin {"gateway", "gatewayid"}
      PROVE  Len(Push(Behind, p)) = Len(Behind) + 1
  <2>1. \A i \in DOMAIN Behind : Title(Behind[i]) # Title(p)
    BY <1>1, <1>2, <1>4 DEF Title
  <2> QED  BY <1>1, <2>1, Pushed
<1>5. CASE Open("mcpname", None) /\ mcpAdd' = NewDraft /\ auths' = "none"
  <2> DEFINE p == Page("mcpname", None, child.arg)
  <2>1. popup' = Push(Behind, p)  BY <1>1, <1>5 DEF Open
  <2>2. p.step = "mcpname"  BY DEF Page
  <2> HIDE DEF p
  <2>3. Len(Push(Behind, p)) = Len(Behind) + 1  BY <1>4, <2>2
  <2>4. Follows(Last(Behind), p)  BY <1>1, <2>2 DEF Follows
  <2>5. Place(Last(Behind).step) < Place(p.step)  BY <1>1, <2>2 DEF Place
  <2>6. Ordered(Push(Behind, p))
    BY <1>1, <1>2, <2>2, <2>3, <2>4, <2>5, PushOrdered
  <2>7. Drafted(Behind, NewDraft, mcpClient) /\ Agrees(Behind, NewDraft, "none")
    <3>1. Behind[1].of = None  BY <1>1, <1>2 DEF Ordered
    <3> QED  BY <1>1, <1>2, <3>1, DraftsAlone
  <2>8. HasDraft(p, NewDraft, mcpClient)
    BY <2>2 DEF HasDraft, NewDraft, AddDrafts, ClientSteps
  <2>9. Says(Last(Behind), p, NewDraft, "none")
    BY <2>2 DEF Says
  <2>10. Drafted(Push(Behind, p), NewDraft, mcpClient) /\ Agrees(Push(Behind, p), NewDraft, "none")
    BY <1>1, <2>3, <2>6, <2>7, <2>8, <2>9, PushDrafts
  <2>11. DraftInv'  BY <1>5, Zenon DEF DraftInv, NewDraft
  <2>12. SavedIsChosen' /\ DOMAIN servers' \subseteq Servers
    BY <1>3 DEF WizardInv, SavedIsChosen
  <2> QED  BY <1>3, <1>5, <2>1, <2>6, <2>10, <2>11, <2>12, WizardShows
<1>6. ASSUME NEW step \in {"server", "remove"}, Open(step, child.arg[2]), UNCHANGED <<mcpAdd, auths>>,
             step = "server" => child.arg[2] \in Servers
      PROVE  WizardInv'
  <2> DEFINE p == Page(step, child.arg[2], child.arg)
  <2>1. popup' = Push(Behind, p)  BY <1>1, <1>6 DEF Open
  <2>2. p.step = step /\ p.of = child.arg[2]  BY DEF Page
  <2> HIDE DEF p
  <2>3. Len(Push(Behind, p)) = Len(Behind) + 1  BY <1>4, <1>6, <2>2
  <2>4. Follows(Last(Behind), p)  BY <1>1, <1>6, <2>2 DEF Follows
  <2>5. HasDraft(p, mcpAdd, mcpClient')  BY <1>6, <2>2 DEF HasDraft, AddSteps, ClientSteps
  <2>6. p.step \notin AddSteps /\ p.step # "mcp"  BY <1>6, <2>2 DEF AddSteps
  <2>7. SavedIsChosen' /\ DOMAIN servers' \subseteq DOMAIN servers  BY <1>3 DEF WizardInv, SavedIsChosen
  <2> QED  BY <1>3, <1>6, <2>1, <2>3, <2>4, <2>5, <2>6, <2>7, OtherMove
<1>7. child.arg[1] = "open" => child.arg[2] \in Servers
  BY <1>1, WizardFinds DEF ChoiceMade
<1> QED  BY <1>5, <1>6, <1>7 DEF MenuPick

LEMMA RemoveMove ==
    ASSUME WizardInv, StackInv', Handled, RunMcpRemove
    PROVE  WizardInv'
<1> DEFINE p == Page("mcp", None, None)
<1>1. /\ IsStack(Behind) /\ Behind # << >> /\ Ordered(Behind) /\ Behind = child.from
      /\ Last(Behind).step = "remove"
  BY WizardFinds DEF RunMcpRemove, Chosen
<1>2. popup' = Push(Behind, p)  BY <1>1 DEF RunMcpRemove, List
<1>3. PICK i \in DOMAIN Behind : Behind[i].step = "mcp" /\ Behind[i].of = None
  BY <1>1, ListFirst
<1>4. p.step = "mcp" /\ p.of = None  BY DEF Page
<1> HIDE DEF p
<1>5. Len(Push(Behind, p)) = 1
  <2>1. Title(Behind[i]) = Title(p)  BY <1>3, <1>4 DEF Title
  <2>2. Len(Push(Behind, p)) \in DOMAIN Behind /\ Title(Behind[Len(Push(Behind, p))]) = Title(p)
    BY <1>1, <2>1, Pushed
  <2> DEFINE n == Len(Push(Behind, p))
  <2>3. n \in DOMAIN Behind /\ Title(Behind[n]) = Title(p)  BY <2>2
  <2> HIDE DEF n
  <2>4. Behind[n].step = "mcp"  BY <1>4, <2>3 DEF Title
  <2>5. n = 1  BY <1>1, <2>3, <2>4 DEF Ordered
  <2> QED  BY <2>5 DEF n
<1>6. UNCHANGED <<mcpAdd, mcpClient, auths>>  BY DEF RunMcpRemove, mcpVars
<1>7. DOMAIN servers' \subseteq DOMAIN servers /\ \A s \in DOMAIN servers' : servers'[s] = servers[s]
  BY DEF RunMcpRemove
<1>8. SavedIsChosen'
  <2>1. \A s \in DOMAIN servers : Matches(servers[s])
    BY Zenon DEF WizardInv, SavedIsChosen, Matches
  <2>2. \A s \in DOMAIN servers' : Matches(servers'[s])  BY <1>7, <2>1
  <2> QED  BY <2>2, Zenon DEF SavedIsChosen, Matches
<1>9. p.step \notin AddSteps \cup {"remove", "server"} /\ HasDraft(p, mcpAdd, mcpClient')
  BY <1>4 DEF HasDraft, AddSteps, ClientSteps
<1> QED  BY <1>2, <1>4, <1>5, <1>6, <1>7, <1>8, <1>9, OtherMove

\* A page that neither adds a server nor is one of the lists.
LEMMA ElseMove ==
    ASSUME WizardInv, StackInv', Handled, NEW step, NEW of, NEW via, popup' = Push(Behind, Page(step, of, via)),
           step \notin AddSteps \cup {"mcp", "remove", "server"},
           step \in ClientSteps => mcpClient' \in Servers,
           UNCHANGED <<mcpAdd, auths, servers>>, mcpClient' = mcpClient \/ mcpClient' \in Servers
    PROVE  WizardInv'
<1> DEFINE p == Page(step, of, via)
<1>1. p.step = step /\ popup' = Push(Behind, p)  BY DEF Page
<1> HIDE DEF p
<1>2. HasDraft(p, mcpAdd, mcpClient')  BY <1>1 DEF HasDraft
<1>3. SavedIsChosen' /\ DOMAIN servers' \subseteq DOMAIN servers  BY DEF WizardInv, SavedIsChosen
<1> QED  BY <1>1, <1>2, <1>3, OtherMove
LEMMA ServerMove ==
    ASSUME WizardInv, StackInv', Handled, ServerAction
    PROVE  WizardInv'
<1> DEFINE s == Last(child.from).of
<1>1. /\ Behind = child.from /\ Last(Behind).step = "server" /\ s \in Servers
  BY WizardFinds DEF ServerAction, Chosen, HasDraft
<1>2. UNCHANGED <<mcpAdd, auths, servers>>  BY DEF ServerAction
<1>3. CASE popup' = Push(Behind, Page("mcplogin", s, None)) /\ mcpClient' = mcpClient
  <2>1. "mcplogin" \notin AddSteps \cup {"mcp", "remove", "server"} /\ "mcplogin" \notin ClientSteps
    BY DEF AddSteps, ClientSteps
  <2> QED  BY <1>2, <1>3, <2>1, ElseMove
<1>4. CASE popup' = Push(Behind, Page("clientid", s, child.arg)) /\ mcpClient' = s
  <2>1. "clientid" \notin AddSteps \cup {"mcp", "remove", "server"}
    BY DEF AddSteps
  <2> QED  BY <1>1, <1>2, <1>4, <2>1, ElseMove
<1>5. CASE UNCHANGED <<popup, mcpClient>>
  <2>1. DraftInv'  BY <1>2 DEF WizardInv, DraftInv
  <2> QED  BY <1>2, <1>5, <2>1, StopMove DEF Handled
<1> QED  BY <1>1, <1>3, <1>4, <1>5 DEF ServerAction, StartMcpLogin, Open

LEMMA ClientMove ==
    ASSUME WizardInv, StackInv', Handled, Client
    PROVE  WizardInv'
<1>1. Behind = child.from /\ HasDraft(Last(Behind), mcpAdd, mcpClient)
  BY WizardFinds
<1>2. UNCHANGED <<mcpAdd, auths, servers>> /\ DraftInv'
  BY DEF Client, WizardInv, DraftInv
<1>3. CASE popup' = << >>
  BY <1>2, <1>3, StopMove
<1>4. ASSUME NEW step \in {"secret", "redirect"}, popup' = Push(Behind, Page(step, mcpClient, child.arg)),
             mcpClient' = mcpClient, Last(Behind).step \in ClientSteps
      PROVE  WizardInv'
  <2>1. step \notin AddSteps \cup {"mcp", "remove", "server"}
    BY DEF AddSteps
  <2>2. mcpClient' \in Servers  BY <1>1, <1>4 DEF HasDraft
  <2> QED  BY <1>2, <1>4, <2>1, <2>2, ElseMove
<1>5. CASE popup' = Push(child.from, Page("mcplogin", mcpClient, None))
  <2> DEFINE p == Page("mcplogin", mcpClient, None)
  <2>1. p.step \in LoginSteps  BY DEF Page, LoginSteps
  <2>2. popup' = Push(Behind, p)  BY <1>1, <1>5
  <2> HIDE DEF p
  <2> QED  BY <1>2, <2>1, <2>2, LoginMove
<1> QED  BY <1>1, <1>3, <1>4, <1>5 DEF Client, Open, Chosen, ClientSteps

LEMMA McpMoves ==
    ASSUME WizardInv, StackInv', Handled, McpHandler
    PROVE  WizardInv'
<1>1. CASE Paste
  <2> DEFINE p == Page("mcplogin", Last(child.from).of, None)
  <2>1. p.step \in LoginSteps  BY DEF Page, LoginSteps
  <2>2. popup' = Push(Behind, p)  BY <1>1, WizardFinds DEF Paste
  <2> HIDE DEF p
  <2>3. UNCHANGED <<mcpAdd, auths, servers>>  BY <1>1 DEF Paste, mcpVars
  <2> QED  BY <2>1, <2>2, <2>3, LoginMove
<1> QED  BY <1>1, MenuMove, RemoveMove, ServerMove, NameMove, AddMoves, ClientMove DEF McpHandler

LEMMA WizardNext ==
    ASSUME WizardInv, [DialogsNext]_dialogVars
    PROVE  WizardInv'
<1>1. StackInv'  BY StackNext DEF WizardInv
<1>2. CASE Handler
  <2>1. CASE McpHandler  BY <1>1, <2>1, McpMoves, McpPushes
  <2>2. CASE ModelHandler /\ UNCHANGED mcp
    <3>1. Handled /\ (popup' = << >> \/ \E p : popup' = Push(Behind, p) /\ p.step \in ModelSteps)
      BY <2>2, ModelPushes, WizardFinds
    <3>2. UNCHANGED <<mcpAdd, mcpClient, auths, servers>>  BY <2>2 DEF mcp, mcpVars
    <3>3. DraftInv' /\ SavedIsChosen' /\ DOMAIN servers' \subseteq DOMAIN servers
      BY <3>2 DEF WizardInv, DraftInv, SavedIsChosen
    <3>4. CASE popup' = << >>
      BY <1>1, <3>1, <3>2, <3>3, <3>4, StopMove
    <3>5. ASSUME NEW p, popup' = Push(Behind, p), p.step \in ModelSteps PROVE WizardInv'
      <4>1. p.step \notin AddSteps \cup {"mcp", "remove", "server"} /\ p.step \notin ClientSteps
        BY <3>5 DEF ModelSteps, AddSteps, ClientSteps
      <4>2. HasDraft(p, mcpAdd, mcpClient')  BY <4>1 DEF HasDraft
      <4> QED  BY <1>1, <3>1, <3>2, <3>3, <3>5, <4>1, <4>2, OtherMove
    <3> QED  BY <3>1, <3>4, <3>5
  <2> QED  BY <1>2, <2>1, <2>2 DEF Handler
<1>3. CASE (Turned \/ Chooses) /\ ~Handler
  <2>1. UNCHANGED wizardVars
    <3>1. CASE UNCHANGED dialogVars
      BY <3>1 DEF dialogVars, mcpVars, wizardVars
    <3>2. CASE Command
      BY <3>2 DEF Command, CommandMcp, mcp, mcpVars, wizardVars
    <3>3. CASE Enter \/ Back \/ Prompts \/ ModelMessages
      BY <3>3 DEF Enter, Back, Prompts, ModelMessages, mcp, mcpVars, wizardVars
    <3>4. CASE McpMessages
      BY <3>4 DEF McpMessages, OpenPaste, Saved, McpOAuthDone, mcpVars, wizardVars
    <3>5. CASE Daemon
      BY <3>5 DEF Daemon, Web, Connection, mcpVars, wizardVars
    <3> QED  BY <1>3, <3>1, <3>2, <3>3, <3>4, <3>5 DEF DialogsNext
  <2> QED  BY <1>1, <1>3, <2>1, WizardTurns
<1> QED  BY <1>2, <1>3, Moves DEF WizardInv

LEMMA WizardInit ==
    ASSUME DialogsInit
    PROVE  WizardInv
<1>1. popup = << >> /\ child = None  BY DEF DialogsInit, PopupInit
<1>2. StackInv  BY <1>1, NoPage DEF StackInv
<1>3. Shown = << >> /\ Behind = << >>  BY <1>1 DEF Shown, Behind
<1>4. DraftInv  BY DEF DialogsInit, McpInit, DraftInv
<1>5. PICK s \in [Servers -> {"stdio", "http", "none"}] :
          servers = [n \in {m \in Servers : s[m] # "none"} |-> Plain(s[n])]
  BY DEF DialogsInit, McpInit
<1>6. DOMAIN servers \subseteq Servers  BY <1>5
<1>7. \A t : Matches(Plain(t))
  <2> SUFFICES ASSUME NEW t PROVE Matches(Plain(t))  OBVIOUS
  <2>1. Plain(t).transport = t /\ Plain(t).chosen.transport = t  BY DEF Plain
  <2>2. Plain(t).headers = {} /\ Plain(t).chosen.headers = {}  BY DEF Plain
  <2>3. Plain(t).auth = (t = "http") /\ Plain(t).chosen.auth = (t = "http")  BY Zenon DEF Plain
  <2> QED  BY <2>1, <2>2, <2>3, Zenon DEF Matches
<1>8. \A n \in DOMAIN servers : Matches(servers[n])  BY <1>5, <1>7
<1>9. SavedIsChosen  BY <1>8, Zenon DEF SavedIsChosen, Matches
<1> QED  BY <1>2, <1>3, <1>4, <1>6, <1>9, NoStack DEF WizardInv
\* The page p of a list: what it shows, or the list it waits for, is that of the draft d.
Fetched(p, d, ls, mx, n) ==
    /\ p.no \in 0..n
    /\ p.no > 0 => \A l \in ls : l.no = p.no => l.of = Prefix(d)
    /\ p.no = 0 => p.ids \subseteq Catalog[Prefix(d)] \/ Prefix(d) \in mx

\* The pages of /model add have a draft, all but the first with a provider; a list is last.
ModelPages(st, d, ls, mx, n) == \A i \in DOMAIN st :
    /\ st[i].step \in ModelSteps => d \in ModelDrafts
    /\ st[i].step \in ModelSteps \ {"provider"} => d.provider \in Providers
    /\ st[i].step # "modelname"
    /\ st[i].step = "models" => i = Len(st) /\ Fetched(st[i], d, ls, mx, n)

\* While the login of a provider goes on its popup is on the screen, and there is no other.
LoginInv == logins # {} =>
    /\ \A p, q \in logins : p = q
    /\ popup # << >> /\ Top.step = "oauth" /\ Top.no = 0 /\ child = None
    /\ modelAdd \in ModelDrafts /\ modelAdd.provider \in Providers

FetchInv ==
    /\ listed \in Nat
    /\ \A l \in lists : l.no \in 1..listed /\ l.of \in ModelPrefixes

ModelInv ==
    /\ LoginInv /\ FetchInv /\ modelAdd \in ModelDrafts \cup {None}
    /\ ModelPages(Shown, modelAdd, lists, mixed, listed)
    /\ ModelPages(Behind, modelAdd, lists, mixed, listed)
    /\ child # None => \A i \in DOMAIN Shown : Shown[i].step # "models"
    /\ ModelsBelong

LEMMA NoModelPages == \A d, ls, mx, n : ModelPages(<< >>, d, ls, mx, n)
BY DEF ModelPages

\* A page other than a list, or none, stays what it is whatever is fetched.
LEMMA PagesKeep ==
    ASSUME NEW st, IsStack(st), NEW t, IsStack(t), AtMost(st, t), NEW d, NEW ls, NEW mx, NEW n,
           ModelPages(t, d, ls, mx, n)
    PROVE  ModelPages(st, d, ls, mx, n)
<1>1. /\ DOMAIN st = 1..Len(st) /\ DOMAIN t = 1..Len(t) /\ Len(st) \in Nat /\ Len(t) \in Nat
      /\ Len(st) <= Len(t) /\ \A i \in DOMAIN st : st[i] = t[i] /\ i \in DOMAIN t
  BY StackFacts DEF AtMost
<1>2. \A i \in DOMAIN st : i = Len(t) => i = Len(st)
  <2> DEFINE a == Len(st)  b == Len(t)
  <2>1. DOMAIN st = 1..a /\ a \in Nat /\ b \in Nat /\ a <= b  BY <1>1
  <2> HIDE DEF a, b
  <2>2. \A i \in DOMAIN st : i = b => i = a  BY <2>1
  <2> QED  BY <2>2 DEF a, b
<1> QED  BY <1>1, <1>2 DEF ModelPages

\* A page is pushed, with its draft, on pages of which none is a list.
LEMMA PushPages ==
    ASSUME NEW st, IsStack(st), NEW p, \A i \in DOMAIN st : st[i].step \notin {"models", "modelname"},
           NEW d \in ModelDrafts, NEW ls, NEW mx, NEW n, d.provider \in Providers,
           p.step # "modelname", p.step = "models" => Fetched(p, d, ls, mx, n)
    PROVE  ModelPages(Push(st, p), d, ls, mx, n)
<1> DEFINE u == Push(st, p)  k == Len(u)
<1>1. /\ IsStack(u) /\ k \in 1..(Len(st) + 1) /\ u[k] = p
      /\ \A i \in 1..(k - 1) : u[i] = st[i]
  BY Pushed
<1>2. Len(st) \in Nat /\ DOMAIN st = 1..Len(st) /\ DOMAIN u = 1..k
  BY <1>1, StackFacts
<1> HIDE DEF u
<1>3. \A i \in DOMAIN u : i = k \/ (i \in DOMAIN st /\ u[i] = st[i])
  BY <1>1, <1>2
<1>4. ModelPages(u, d, ls, mx, n)  BY <1>1, <1>3 DEF ModelPages
<1> QED  BY <1>4 DEF u

\* One that is not of /model add.
LEMMA PushElse ==
    ASSUME NEW st, IsStack(st), NEW p, \A i \in DOMAIN st : st[i].step # "models",
           NEW d, NEW ls, NEW mx, NEW n, ModelPages(st, d, ls, mx, n), p.step \notin ModelSteps
    PROVE  ModelPages(Push(st, p), d, ls, mx, n)
<1> DEFINE u == Push(st, p)  k == Len(u)
<1>1. /\ IsStack(u) /\ k \in 1..(Len(st) + 1) /\ u[k] = p
      /\ \A i \in 1..(k - 1) : u[i] = st[i]
  BY Pushed
<1>2. Len(st) \in Nat /\ DOMAIN st = 1..Len(st) /\ DOMAIN u = 1..k
  BY <1>1, StackFacts
<1> HIDE DEF u
<1>3. \A i \in DOMAIN u : i = k \/ (i \in DOMAIN st /\ u[i] = st[i])
  BY <1>1, <1>2
<1>4. ModelPages(u, d, ls, mx, n)  BY <1>1, <1>3 DEF ModelPages, ModelSteps
<1> QED  BY <1>4 DEF u

\* What the handler of a page of /model add finds.
LEMMA ModelFinds ==
    ASSUME StackInv, ModelInv, Handled
    PROVE  /\ IsStack(Behind) /\ Behind # << >> /\ Behind = child.from /\ logins = {} /\ popup = << >>
           /\ ChoiceMade(Last(Behind), child.arg)
           /\ Last(Behind).step \in ModelSteps \ {"provider"} =>
                 modelAdd \in ModelDrafts /\ modelAdd.provider \in Providers
           /\ Last(Behind).step # "models" =>
                 \A i \in DOMAIN Behind : Behind[i].step \notin {"models", "modelname"}
           /\ Last(Behind).step # "modelname"
           /\ Last(Behind).step = "models" => Fetched(Last(Behind), modelAdd, lists, mixed, listed)
<1>1. /\ IsStack(Behind) /\ Behind # << >> /\ Behind = child.from /\ popup = << >>
      /\ ChoiceMade(Last(Behind), child.arg)
      /\ Len(Behind) \in DOMAIN Behind /\ Last(Behind) = Behind[Len(Behind)]
  <2>1. /\ IsStack(Behind) /\ Behind # << >> /\ Behind = child.from /\ popup = << >>
        /\ ChoiceMade(Last(Behind), child.arg) /\ Len(Behind) \in Nat /\ Len(Behind) > 0
        /\ DOMAIN Behind = 1..Len(Behind) /\ Last(Behind) = Behind[Len(Behind)]
    BY StacksOf DEF Handled
  <2> QED  BY <2>1
<1>2. logins = {}  BY <1>1 DEF ModelInv, LoginInv
<1>3. ModelPages(Behind, modelAdd, lists, mixed, listed)  BY DEF ModelInv
<1> DEFINE n == Len(Behind)
<1>4. n \in DOMAIN Behind /\ Last(Behind) = Behind[n]  BY <1>1
<1> HIDE DEF n
<1>5. /\ Last(Behind).step \in ModelSteps \ {"provider"} =>
            modelAdd \in ModelDrafts /\ modelAdd.provider \in Providers
      /\ Last(Behind).step # "modelname"
      /\ Last(Behind).step = "models" => Fetched(Last(Behind), modelAdd, lists, mixed, listed)
  BY <1>3, <1>4 DEF ModelPages
<1>6. Last(Behind).step # "models" =>
         \A i \in DOMAIN Behind : Behind[i].step \notin {"models", "modelname"}
  BY <1>3, <1>4 DEF ModelPages, n
<1> QED  BY <1>1, <1>2, <1>5, <1>6
LEMMA DraftPrefix ==
    ASSUME NEW d \in ModelDrafts, d.provider \in Providers
    PROVE  /\ Prefix(d) \in ModelPrefixes /\ Prefix(d) # None
           /\ \A n \in Nat : LET e == [d EXCEPT !.loading = n] IN
                 e \in ModelDrafts /\ e.provider = d.provider /\ Prefix(e) = Prefix(d)
<1>1. Prefix(d) \in ModelPrefixes  BY DEF Prefix, ModelDrafts, ModelPrefixes
<1>2. Prefix(d) # None  BY <1>1, ModelAssumption
<1>3. ASSUME NEW n \in Nat, NEW e, e = [d EXCEPT !.loading = n]
      PROVE  e \in ModelDrafts /\ e.provider = d.provider /\ Prefix(e) = Prefix(d)
  BY <1>3 DEF ModelDrafts, Prefix
<1> QED  BY <1>1, <1>2, <1>3

\* A handler's page, or none.
LEMMA ModelShows ==
    ASSUME Handled, popup' = << >> \/ ModelPages(popup', modelAdd', lists', mixed', listed'),
           LoginInv', FetchInv', modelAdd' \in ModelDrafts \cup {None}, ModelsBelong'
    PROVE  ModelInv'
<1>1. Behind' = << >> /\ child' = None /\ (Shown' = << >> \/ Shown' = popup')
  BY DEF Handled, Behind, Shown
<1> QED  BY <1>1, NoModelPages DEF ModelInv

LEMMA GiveUpMove ==
    ASSUME ModelInv, Handled, popup' = << >>, modelAdd' \in ModelDrafts \cup {None}, NoList, logins' = {},
           ModelsBelong'
    PROVE  ModelInv'
<1>1. LoginInv' /\ FetchInv'  BY DEF NoList, ModelInv, LoginInv, FetchInv
<1> QED  BY <1>1, ModelShows

LEMMA ShowMove ==
    ASSUME StackInv, ModelInv, Handled, NEW step \in ModelSteps \ {"models", "modelname"}, NEW d, Show(step, d),
           d \in ModelDrafts, d.provider \in Providers, Last(Behind).step # "models",
           logins' = IF step = "oauth" THEN logins \cup {d.provider} ELSE logins, UNCHANGED <<models, crossed>>
    PROVE  ModelInv'
<1> DEFINE p == Page(step, d.provider, child.arg)
<1>1. /\ popup' = Push(Behind, p) /\ modelAdd' = d
      /\ UNCHANGED <<lists, listed, mixed>>
  BY ModelFinds DEF Show, Open, NoList
<1>2. p.step = step /\ p.no = 0  BY DEF Page
<1> HIDE DEF p
<1>3. ModelPages(Push(Behind, p), d, lists, mixed, listed)
  BY <1>2, ModelFinds, PushPages
<1>4. popup' # << >> /\ Last(popup') = p  BY <1>1, ModelFinds, Pushed
<1>5. child' = None  BY DEF Handled
<1>6. LoginInv'
  <2>1. logins = {}  BY ModelFinds
  <2> QED  BY <1>1, <1>2, <1>4, <1>5, <2>1 DEF LoginInv, Top
<1>7. FetchInv' /\ ModelsBelong'  BY <1>1 DEF ModelInv, FetchInv, ModelsBelong
<1> QED  BY <1>1, <1>3, <1>6, <1>7, ModelShows

\* A list is asked for.
LEMMA Asks ==
    ASSUME FetchInv, ModelsBelong, NEW d, NEW st, PickModels(st, d), d \in ModelDrafts, d.provider \in Providers, 
           UNCHANGED <<models, crossed>>
    PROVE  /\ FetchInv' /\ ModelsBelong'
           /\ modelAdd' \in ModelDrafts /\ modelAdd'.provider = d.provider
           /\ \E p : /\ popup' = Push(st, p) /\ p.step = "models"
                     /\ Fetched(p, modelAdd', lists', mixed', listed')
<1> DEFINE n == listed + 1  p == [Page("models", Prefix(d), None) EXCEPT !.no = n]
           e == [d EXCEPT !.loading = n]
<1>1. d.provider # None  BY ModelAssumption DEF ModelPrefixes
<1>2. /\ listed' = n /\ lists' = lists \cup {[no |-> n, of |-> Prefix(d)]}
      /\ modelAdd' = e /\ mixed' = mixed /\ popup' = Push(st, p)
  BY <1>1 DEF PickModels
<1>3. n \in Nat /\ n > listed /\ listed \in Nat /\ \A l \in lists : l.no \in 1..listed /\ l.of \in ModelPrefixes
  BY DEF FetchInv
<1>4. e \in ModelDrafts /\ e.provider = d.provider /\ Prefix(e) = Prefix(d) /\ Prefix(d) \in ModelPrefixes
  <2>1. \A m \in Nat : LET x == [d EXCEPT !.loading = m] IN
                 x \in ModelDrafts /\ x.provider = d.provider /\ Prefix(x) = Prefix(d)
    BY DraftPrefix
  <2> HIDE DEF n
  <2> QED  BY <1>3, <2>1, DraftPrefix
<1>5. p.step = "models" /\ p.no = n  BY DEF Page
<1>6. FetchInv'
  <2>1. listed' \in Nat  BY <1>2, <1>3
  <2>2. ASSUME NEW l \in lists' PROVE l.no \in 1..listed' /\ l.of \in ModelPrefixes
    <3>1. CASE l \in lists  BY <1>2, <1>3, <3>1
    <3>2. CASE l = [no |-> n, of |-> Prefix(d)]
      <4> HIDE DEF n
      <4>1. l.no = n /\ l.of = Prefix(d)  BY <3>2
      <4> QED  BY <1>2, <1>3, <1>4, <4>1
    <3> QED  BY <1>2, <3>1, <3>2
  <2> QED  BY <2>1, <2>2 DEF FetchInv
<1>7. ModelsBelong'  BY <1>2 DEF ModelsBelong
<1>8. Fetched(p, modelAdd', lists', mixed', listed')
  <2> DEFINE ls == lists'
  <2>1. p.no \in 0..listed' /\ p.no > 0 /\ p.no # 0  BY <1>2, <1>3, <1>5
  <2>2. ASSUME NEW l \in ls, l.no = p.no PROVE l.of = Prefix(e)
    <3>1. l \notin lists  BY <1>3, <1>5, <2>2
    <3>2. l = [no |-> n, of |-> Prefix(d)]  BY <1>2, <3>1
    <3>3. l.of = Prefix(d)  BY <3>2
    <3> QED  BY <1>4, <3>3
  <2> QED  BY <1>2, <2>1, <2>2 DEF Fetched
<1> HIDE DEF p, e, n
<1> QED  BY <1>2, <1>4, <1>5, <1>6, <1>7, <1>8

LEMMA PickMove ==
    ASSUME StackInv, ModelInv, Handled, NEW d, PickModels(child.from, d),
           d \in ModelDrafts, d.provider \in Providers, Last(Behind).step # "models",
           logins' = logins, UNCHANGED <<models, crossed>>
    PROVE  ModelInv'
<1>1. /\ FetchInv' /\ ModelsBelong' /\ modelAdd' \in ModelDrafts /\ modelAdd'.provider \in Providers
      /\ \E p : /\ popup' = Push(Behind, p) /\ p.step = "models"
                /\ Fetched(p, modelAdd', lists', mixed', listed')
  <2>1. FetchInv /\ ModelsBelong  BY DEF ModelInv
  <2>2. PickModels(Behind, d)  BY ModelFinds
  <2> QED  BY <2>1, <2>2, Asks
<1> DEFINE e == modelAdd'  ls == lists'  mx == mixed'  n == listed'
<1>2. PICK p : popup' = Push(Behind, p) /\ p.step = "models" /\ Fetched(p, e, ls, mx, n)
  BY <1>1
<1>3. e \in ModelDrafts /\ e.provider \in Providers  BY <1>1
<1> HIDE DEF e, ls, mx, n
<1>4. ModelPages(Push(Behind, p), e, ls, mx, n)
  BY <1>2, <1>3, ModelFinds, PushPages
<1>5. LoginInv'  BY ModelFinds DEF LoginInv
<1> QED  BY <1>1, <1>2, <1>4, <1>5, ModelShows DEF e, ls, mx, n
LEMMA ModelMoves ==
    ASSUME StackInv, ModelInv, ModelHandler, UNCHANGED crossed
    PROVE  ModelInv'
<1>1. Handled  BY ModelPushes
<1>2. /\ Behind = child.from /\ logins = {} /\ popup = << >> /\ ChoiceMade(Last(Behind), child.arg)
      /\ Last(Behind).step \in ModelSteps \ {"provider"} =>
            modelAdd \in ModelDrafts /\ modelAdd.provider \in Providers
      /\ Last(Behind).step # "modelname"
      /\ Last(Behind).step = "models" => Fetched(Last(Behind), modelAdd, lists, mixed, listed)
  BY <1>1, ModelFinds
<1>3. \A step : Chosen(step) => Last(Behind).step = step  BY <1>2 DEF Chosen
<1>g. ASSUME GiveUp, UNCHANGED <<logins, models>> PROVE ModelInv'
  <2>1. ModelsBelong'  BY <1>g DEF ModelInv, ModelsBelong, GiveUp, NoList
  <2> QED  BY <1>1, <1>2, <1>g, <2>1, GiveUpMove DEF GiveUp
<1>s. ASSUME NEW step \in ModelSteps \ {"models", "modelname"}, NEW d \in ModelDrafts, Show(step, d),
             d.provider \in Providers, Last(Behind).step # "models", UNCHANGED models,
             logins' = IF step = "oauth" THEN logins \cup {d.provider} ELSE logins
      PROVE  ModelInv'
  BY <1>1, <1>s, ShowMove
<1>p. ASSUME NEW d \in ModelDrafts, PickModels(child.from, d), d.provider \in Providers,
             Last(Behind).step # "models", UNCHANGED <<logins, models>>
      PROVE  ModelInv'
  BY <1>1, <1>p, PickMove
<1>k. ASSUME NEW d \in ModelDrafts, AskKey(d) \/ AskAccount(d), d.provider \in Providers,
             Last(Behind).step # "models", UNCHANGED <<logins, models>>
      PROVE  ModelInv'
  BY <1>k, <1>s DEF AskKey, AskAccount, ModelSteps
<1>o. ASSUME NEW d \in ModelDrafts, StartOAuth(d), d.provider \in Providers,
             Last(Behind).step # "models", UNCHANGED models
      PROVE  ModelInv'
  BY <1>o, <1>s DEF StartOAuth, ModelSteps
<1>f. ASSUME NEW d \in ModelDrafts, AfterKey(d), d.provider \in Providers,
             Last(Behind).step # "models", UNCHANGED <<logins, models>>
      PROVE  ModelInv'
  BY <1>f, <1>s, <1>p, <1>g DEF AfterKey, ModelSteps
<1>d. ASSUME NEW p \in Providers, NEW name \in ModelPrefixes \cup {None}
      PROVE  Draft(p, name) \in ModelDrafts /\ Draft(p, name).provider \in Providers
  BY <1>d DEF Draft, ModelDrafts
<1>4. CASE ProviderPick
  <2>1. Last(Behind).step = "provider" /\ child.arg \in Providers /\ UNCHANGED models
    BY <1>2, <1>3, <1>4 DEF ProviderPick, ChoiceMade
  <2> DEFINE p == child.arg  d == Draft(p, None)
  <2>2. d \in ModelDrafts /\ d.provider \in Providers /\ Draft(p, p) \in ModelDrafts
        /\ Draft(p, p).provider \in Providers
    BY <2>1, <1>d DEF ModelPrefixes
  <2>3. \/ Show("relogin", d) /\ UNCHANGED logins
        \/ StartOAuth(d)
        \/ AskAccount(d) /\ UNCHANGED logins
        \/ Show("url", d) /\ UNCHANGED logins
        \/ PickModels(child.from, Draft(p, p)) /\ UNCHANGED logins
        \/ PickModels(child.from, d) /\ UNCHANGED logins
        \/ GiveUp /\ UNCHANGED logins
        \/ AskKey(d) /\ UNCHANGED logins
    BY <1>4 DEF ProviderPick
  <2> HIDE DEF d, p
  <2>4. CASE (Show("relogin", d) \/ Show("url", d)) /\ UNCHANGED logins
    BY <1>s, <2>1, <2>2, <2>4 DEF ModelSteps
  <2>5. CASE StartOAuth(d)
    BY <1>o, <2>1, <2>2, <2>5
  <2>6. CASE (AskAccount(d) \/ AskKey(d)) /\ UNCHANGED logins
    BY <1>k, <2>1, <2>2, <2>6
  <2>7. CASE (PickModels(child.from, Draft(p, p)) \/ PickModels(child.from, d)) /\ UNCHANGED logins
    BY <1>p, <2>1, <2>2, <2>7
  <2>8. CASE GiveUp /\ UNCHANGED logins
    BY <1>g, <2>1, <2>8
  <2> QED  BY <2>3, <2>4, <2>5, <2>6, <2>7, <2>8
<1>5. ASSUME Last(Behind).step \in ModelSteps \ {"provider", "models"}
      PROVE  /\ modelAdd \in ModelDrafts /\ modelAdd.provider \in Providers /\ Last(Behind).step # "models"
  BY <1>2, <1>5
<1>6. CASE ReLogin
  BY <1>3, <1>5, <1>6, <1>o, <1>p DEF ReLogin, ModelSteps
<1>7. CASE KeyReplace
  BY <1>3, <1>5, <1>7, <1>s, <1>g, <1>p DEF KeyReplace, ModelSteps
<1>8. CASE KeySubmit
  BY <1>3, <1>5, <1>8, <1>g, <1>f DEF KeySubmit, ModelSteps
<1>9. CASE Account
  BY <1>3, <1>5, <1>9, <1>g, <1>s, <1>k DEF Account, ModelSteps
<1>10. CASE Gateway
  BY <1>3, <1>5, <1>10, <1>g, <1>s, <1>p DEF Gateway, ModelSteps
<1>11. CASE Compat
  <2>1. Last(Behind).step \in {"url", "compatname", "compatkey"} /\ UNCHANGED <<logins, models>>
    BY <1>3, <1>11 DEF Compat
  <2>2. modelAdd \in ModelDrafts /\ modelAdd.provider \in Providers /\ Last(Behind).step # "models"
    BY <1>5, <2>1 DEF ModelSteps
  <2>3. CASE Chosen("compatname") /\ child.arg # "" /\ Show("compatkey", [modelAdd EXCEPT !.name = child.arg])
    <3>1. child.arg \in Names  BY <1>2, <1>3, <2>3 DEF ChoiceMade
    <3> DEFINE d == [modelAdd EXCEPT !.name = child.arg]
    <3>2. d \in ModelDrafts /\ d.provider \in Providers
      BY <2>2, <3>1 DEF ModelDrafts, ModelPrefixes
    <3>3. Show("compatkey", d)  BY <2>3
    <3> HIDE DEF d
    <3> QED  BY <1>s, <2>1, <2>2, <3>2, <3>3 DEF ModelSteps
  <2>4. CASE Show("compatname", modelAdd) \/ PickModels(child.from, modelAdd) \/ GiveUp
    BY <1>s, <1>p, <1>g, <2>1, <2>2, <2>4 DEF ModelSteps
  <2> QED  BY <1>11, <2>3, <2>4 DEF Compat
<1>12. CASE VectorNotice
  BY <1>3, <1>5, <1>12, <1>p DEF VectorNotice, ModelSteps
<1>13. CASE MultiPick
  <2>1. Last(Behind).step = "models" /\ Last(Behind).no = 0 /\ child.arg \subseteq Last(Behind).ids
    BY <1>2, <1>3, <1>13 DEF MultiPick, ChoiceMade
  <2> DEFINE pre == Prefix(modelAdd)
  <2>2. child.arg \subseteq Catalog[pre] \/ pre \in mixed
    BY <1>2, <2>1 DEF Fetched
  <2>3. pre # None
    BY <1>2, <2>1, DraftPrefix DEF ModelSteps
  <2>4. /\ models' = {m \in models : m.of # pre} \cup {[of |-> pre, id |-> i] : i \in child.arg}
        /\ GiveUp /\ logins' = logins /\ mixed' = mixed
    BY <1>13 DEF MultiPick, GiveUp, NoList
  <2> HIDE DEF pre
  <2>5. ModelsBelong'
    <3> SUFFICES ASSUME NEW m \in models', ~crossed PROVE m.of # None /\ (m.of \in mixed \/ m.id \in Catalog[m.of])
      BY <2>4 DEF ModelsBelong
    <3>1. CASE m \in models  BY <3>1 DEF ModelInv, ModelsBelong
    <3>2. CASE \E i \in child.arg : m = [of |-> pre, id |-> i]
      <4>1. PICK i \in child.arg : m = [of |-> pre, id |-> i]  BY <3>2
      <4>2. m.of = pre /\ m.id = i  BY <4>1
      <4> QED  BY <2>2, <2>3, <4>2
    <3> QED  BY <2>4, <3>1, <3>2
  <2> QED  BY <1>1, <1>2, <2>4, <2>5, GiveUpMove DEF GiveUp
<1>14. CASE StateLost
  <2>1. UNCHANGED <<popup, modelVars>> /\ ModelsBelong'
    BY <1>14 DEF StateLost, modelVars, ModelInv, ModelsBelong
  <2>2. NoList /\ logins' = {} /\ modelAdd' \in ModelDrafts \cup {None} /\ popup' = << >>
    BY <1>2, <2>1 DEF modelVars, NoList, ModelInv
  <2> QED  BY <1>1, <2>1, <2>2, GiveUpMove
<1> QED  BY <1>4, <1>6, <1>7, <1>8, <1>9, <1>10, <1>11, <1>12, <1>13, <1>14 DEF ModelHandler
LEMMA ModelTurns ==
    ASSUME StackInv, ModelInv, UNCHANGED <<modelVars, crossed>>, Turned \/ Chooses, IsStack(popup'), LoginInv'
    PROVE  ModelInv'
<1> DEFINE P(st) == ModelPages(st, modelAdd, lists, mixed, listed)
           Free(st) == \A i \in DOMAIN st : st[i].step # "models"
<1>1. IsStack(Shown) /\ IsStack(Shown') /\ DOMAIN Shown = 1..Len(Shown) /\ Len(Shown) \in Nat
      /\ DOMAIN Shown' = 1..Len(Shown') /\ Len(Shown') \in Nat
  <2>1. IsStack(Shown')  BY NoPage DEF Shown
  <2> QED  BY <2>1, ShownIs, StackFacts DEF StackInv
<1>2. P(Shown) /\ P(Behind) /\ P(<< >>)  BY NoModelPages DEF ModelInv
<1>3. UNCHANGED <<modelAdd, lists, listed, logins, models, mixed, crossed>>  BY DEF modelVars
<1>4. FetchInv' /\ ModelsBelong' /\ modelAdd' \in ModelDrafts \cup {None}
  BY <1>3 DEF ModelInv, FetchInv, ModelsBelong
<1>5. P(Shown') /\ P(Behind') /\ (child' # None => Free(Shown'))
  <2>1. CASE Chooses
    <3>1. Behind' = Shown \/ Behind' = << >>  BY <2>1 DEF Chooses, Behind
    <3>2. P(<<Prompt>>) /\ Free(<<Prompt>>) /\ Free(<< >>)
      <4>1. DOMAIN <<Prompt>> = {1} /\ <<Prompt>>[1].step = "prompt"  BY DEF Prompt, Page
      <4> QED  BY <4>1 DEF ModelPages, ModelSteps
    <3> QED  BY <1>2, <2>1, <3>1, <3>2 DEF Chooses
  <2>2. CASE Turned
    <3>1. Behind' = Behind \/ Behind' = << >>  BY <2>2 DEF Turned, Behind
    <3>2. CASE AtMost(Shown', Shown)
      <4>1. P(Shown')  BY <1>1, <1>2, <3>2, PagesKeep
      <4>2. child # None => Free(Shown)  BY DEF ModelInv
      <4>3. Free(Shown) => Free(Shown')  BY <1>1, <3>2 DEF AtMost
      <4>4. child' # None => child # None  BY <2>2 DEF Turned
      <4> QED  BY <1>2, <3>1, <4>1, <4>2, <4>3, <4>4
    <3>3. CASE ~AtMost(Shown', Shown)
      <4>1. /\ Len(Shown') = 1 /\ DOMAIN Shown' = {1} /\ Shown'[1].step \in FreeSteps \cup {"provider", "mcp"}
            /\ Shown'[1].step = "provider" => CommandModelAdd
            /\ Shown'[1].step \in {"models", "modelname"} => ModelMessage
        BY <2>2, <3>3 DEF Turned
      <4>2. ~ModelMessage
        <5>1. ModelsResult => lists' # lists  BY DEF ModelsResult
        <5>2. OAuthSuccess \/ OAuthFailed => logins' # logins  BY DEF OAuthSuccess, OAuthFailed
        <5> QED  BY <1>3, <5>1, <5>2 DEF ModelMessage
      <4>3. CommandModelAdd => modelAdd \in ModelDrafts
        BY <1>3 DEF CommandModelAdd, ModelDrafts
      <4> DEFINE s == Shown'
      <4>4. DOMAIN s = {1} /\ s[1].step \in {"prompt", "mcplogin", "paste", "provider", "mcp"}
            /\ (s[1].step = "provider" => modelAdd \in ModelDrafts)
        BY <4>1, <4>2, <4>3 DEF FreeSteps
      <4> HIDE DEF s
      <4>5. P(s) /\ Free(s)  BY <4>4 DEF ModelPages, ModelSteps
      <4> QED  BY <1>2, <3>1, <4>5 DEF s
    <3> QED  BY <3>2, <3>3
  <2> QED  BY <2>1, <2>2
<1> QED  BY <1>3, <1>4, <1>5 DEF ModelInv

\* The popup of a login stays until the login ends, but for what crosses it.
LEMMA LoginStays ==
    ASSUME ModelInv, logins # {}, UNCHANGED modelVars, ~crossed', [DialogsNext]_dialogVars
    PROVE  popup' = popup /\ child' = child
<1>1. popup # << >> /\ Top.step = "oauth" /\ Top.no = 0 /\ child = None
  BY DEF ModelInv, LoginInv
<1>2. CASE Command
  BY <1>1, <1>2 DEF Command, CommandModelAdd, CommandMcp
<1>3. CASE Enter
  <2>1. ModelChoices(Top) = {} /\ McpChoices(Top) = {}
    BY <1>1 DEF ModelChoices, McpChoices
  <2> QED  BY <1>1, <1>3, <2>1 DEF Enter
<1>4. CASE Handler
  BY <1>1, <1>4, ModelPushes, McpPushes DEF Handler, Handled
<1>5. CASE Back  BY <1>1, <1>5 DEF Back, Escape
<1>6. CASE Prompts  BY <1>1, <1>6 DEF Prompts, Settle, Dropped, Pending
<1>7. CASE ModelMessages
  <2>1. ModelsResult => lists' # lists  BY DEF ModelsResult
  <2>2. OAuthSuccess \/ OAuthFailed => logins' # logins  BY DEF OAuthSuccess, OAuthFailed
  <2> QED  BY <1>7, <2>1, <2>2 DEF ModelMessages, ModelMessage, modelVars
<1>8. CASE McpMessages
  BY <1>1, <1>8 DEF McpMessages, OpenPaste, Saved, McpOAuthDone
<1>9. CASE Daemon \/ UNCHANGED dialogVars
  BY <1>9 DEF Daemon, Web, Connection, popupVars, dialogVars
<1> QED  BY <1>2, <1>3, <1>4, <1>5, <1>6, <1>7, <1>8, <1>9 DEF DialogsNext
\* One page, without a way back.
LEMMA AlonePages ==
    ASSUME NEW p, NEW d \in ModelDrafts, d.provider \in Providers, NEW ls, NEW mx, NEW n,
           p.step = "models", Fetched(p, d, ls, mx, n)
    PROVE  ModelPages(<<p>>, d, ls, mx, n)
<1>1. DOMAIN <<p>> = {1} /\ <<p>>[1] = p /\ Len(<<p>>) = 1  BY OnePage
<1> QED  BY <1>1 DEF ModelPages

\* The list that was waited for is put on the screen, or nothing is.
LEMMA ResultMoves ==
    ASSUME StackInv, ModelInv, ModelsResult, UNCHANGED crossed
    PROVE  ModelInv'
<1>1. PICK l \in lists : \E ids \in {Catalog[l.of], {}} :
          /\ lists' = lists \ {l}
          /\ IF ModelAddLoaded /\ ids # {}
             THEN /\ popup' = <<[Page("models", Prefix(modelAdd), None) EXCEPT !.ids = ids]>>
                  /\ mixed' = IF Top.no \in {0, l.no} THEN mixed ELSE mixed \cup {Prefix(modelAdd)}
             ELSE UNCHANGED <<popup, mixed>>
  BY DEF ModelsResult
<1>2. PICK ids \in {Catalog[l.of], {}} :
          /\ lists' = lists \ {l}
          /\ IF ModelAddLoaded /\ ids # {}
             THEN /\ popup' = <<[Page("models", Prefix(modelAdd), None) EXCEPT !.ids = ids]>>
                  /\ mixed' = IF Top.no \in {0, l.no} THEN mixed ELSE mixed \cup {Prefix(modelAdd)}
             ELSE UNCHANGED <<popup, mixed>>
  BY <1>1
<1>3. UNCHANGED <<child, modelAdd, listed, logins, models, crossed>>  BY DEF ModelsResult
<1>4. FetchInv'  BY <1>2, <1>3 DEF ModelInv, FetchInv
<1>5. CASE ~(ModelAddLoaded /\ ids # {})
  <2>1. popup' = popup /\ mixed' = mixed /\ lists' \subseteq lists  BY <1>2, <1>5
  <2>2. Shown' = Shown /\ Behind' = Behind  BY <1>3, <2>1 DEF Shown, Behind, Top
  <2>3. \A st : ModelPages(st, modelAdd, lists, mixed, listed) => ModelPages(st, modelAdd, lists', mixed, listed)
    BY <2>1 DEF ModelPages, Fetched
  <2>4. LoginInv'  BY <1>3, <2>1 DEF ModelInv, LoginInv, Top
  <2>5. ModelsBelong'  BY <1>3, <2>1 DEF ModelInv, ModelsBelong
  <2> QED  BY <1>3, <1>4, <2>1, <2>2, <2>3, <2>4, <2>5 DEF ModelInv
<1>6. CASE ModelAddLoaded /\ ids # {}
  <2>1. /\ Top.step = "models" /\ Top.no > 0 /\ popup # << >> /\ ids = Catalog[l.of] /\ modelAdd # None
    BY <1>2, <1>6 DEF ModelAddLoaded
  <2>2. Shown # << >> /\ Shown = popup /\ Top = Shown[Len(Shown)] /\ Len(Shown) \in DOMAIN Shown
    <3>1. Shown = popup  BY <2>1, ShownIs DEF StackInv, LoginSteps
    <3>2. Top = Shown[Len(Shown)] /\ Len(Shown) > 0 /\ Len(Shown) \in Nat /\ DOMAIN Shown = 1..Len(Shown)
      BY <2>1, <3>1, ShownIs DEF StackInv
    <3>3. Len(Shown) \in DOMAIN Shown  BY <3>2
    <3> QED  BY <2>1, <3>1, <3>2, <3>3
  <2> DEFINE k == Len(Shown)
  <2>3. k \in DOMAIN Shown /\ Top = Shown[k]  BY <2>2
  <2> HIDE DEF k
  <2>4. child = None  BY <2>1, <2>3 DEF ModelInv
  <2>5. modelAdd \in ModelDrafts /\ modelAdd.provider \in Providers /\ Fetched(Top, modelAdd, lists, mixed, listed)
    BY <2>1, <2>3 DEF ModelInv, ModelPages, ModelSteps
  <2> DEFINE p == [Page("models", Prefix(modelAdd), None) EXCEPT !.ids = ids]
  <2>6. popup' = <<p>> /\ p.step = "models" /\ p.no = 0 /\ p.ids = ids
    BY <1>2, <1>6 DEF Page
  <2> HIDE DEF p
  <2>7. mixed' = (IF Top.no \in {0, l.no} THEN mixed ELSE mixed \cup {Prefix(modelAdd)})
    BY <1>2, <1>6
  <2>8. ids \subseteq Catalog[Prefix(modelAdd)] \/ Prefix(modelAdd) \in mixed'
    <3>1. Top.no = l.no => l.of = Prefix(modelAdd)  BY <2>1, <2>5 DEF Fetched
    <3>2. Top.no # 0  BY <2>1, <2>5 DEF Fetched
    <3> QED  BY <2>1, <2>7, <3>1, <3>2
  <2>9. Fetched(p, modelAdd, lists', mixed', listed)
    BY <2>6, <2>8 DEF Fetched, ModelInv, FetchInv
  <2>10. ModelPages(<<p>>, modelAdd, lists', mixed', listed)
    BY <2>5, <2>6, <2>9, AlonePages
  <2>11. Behind' = << >> /\ (Shown' = << >> \/ Shown' = popup')
    BY <1>3, <2>4 DEF Behind, Shown
  <2>12. LoginInv'
    <3>1. logins = {}  BY <2>1 DEF ModelInv, LoginInv
    <3> QED  BY <1>3, <3>1 DEF LoginInv
  <2>13. ModelsBelong'
    <3>1. mixed \subseteq mixed'  BY <2>7
    <3> QED  BY <1>3, <3>1 DEF ModelInv, ModelsBelong
  <2> QED  BY <1>3, <1>4, <2>4, <2>5, <2>6, <2>10, <2>11, <2>12, <2>13, NoModelPages DEF ModelInv
<1> QED  BY <1>5, <1>6

LEMMA LoginMoves ==
    ASSUME ModelInv, OAuthSuccess \/ OAuthFailed, UNCHANGED crossed
    PROVE  ModelInv'
<1>1. /\ child = None /\ modelAdd \in ModelDrafts /\ modelAdd.provider \in Providers /\ modelAdd # None
      /\ logins # {} /\ \A p, q \in logins : p = q
  BY ModelAssumption DEF ModelInv, LoginInv, OAuthSuccess, OAuthFailed
<1>2. logins' = {} /\ child' = None /\ models' = models
  BY <1>1 DEF OAuthSuccess, OAuthFailed
<1>3. LoginInv' /\ Behind' = << >> /\ (Shown' = << >> \/ Shown' = popup')
  BY <1>2 DEF LoginInv, Behind, Shown
<1>4. CASE OAuthSuccess
  <2>1. PickModels(<< >>, modelAdd)  BY <1>1, <1>4 DEF OAuthSuccess
  <2>2. /\ FetchInv' /\ ModelsBelong' /\ modelAdd' \in ModelDrafts /\ modelAdd'.provider \in Providers
        /\ \E p : /\ popup' = Push(<< >>, p) /\ p.step = "models"
                  /\ Fetched(p, modelAdd', lists', mixed', listed')
    <3>1. FetchInv /\ ModelsBelong  BY DEF ModelInv
    <3> QED  BY <1>1, <1>2, <2>1, <3>1, Asks
  <2> DEFINE e == modelAdd'  ls == lists'  mx == mixed'  n == listed'
  <2>3. PICK p : popup' = Push(<< >>, p) /\ p.step = "models" /\ Fetched(p, e, ls, mx, n)
    BY <2>2
  <2>4. popup' = <<p>>  BY <2>3, PushedAlone
  <2>5. e \in ModelDrafts /\ e.provider \in Providers  BY <2>2
  <2> HIDE DEF e, ls, mx, n
  <2>6. ModelPages(<<p>>, e, ls, mx, n)  BY <2>3, <2>5, AlonePages
  <2> QED  BY <1>2, <1>3, <2>2, <2>4, <2>6, NoModelPages DEF ModelInv, e, ls, mx, n
<1>5. CASE OAuthFailed
  <2>1. popup' = << >> /\ modelAdd' = None /\ NoList  BY <1>5 DEF OAuthFailed, GiveUp
  <2>2. FetchInv' /\ ModelsBelong'  BY <1>2, <2>1 DEF NoList, ModelInv, FetchInv, ModelsBelong
  <2> QED  BY <1>2, <1>3, <2>1, <2>2, NoModelPages DEF ModelInv
<1> QED  BY <1>4, <1>5

\* The pages of /mcp are none of /model add.
LEMMA McpPages ==
    ASSUME StackInv, McpHandler
    PROVE  /\ Last(child.from).step \notin ModelSteps
           /\ popup' = << >> \/ \E p : popup' = Push(child.from, p) /\ p.step \notin ModelSteps
<1> DEFINE Other == \E p : popup' = Push(child.from, p) /\ p.step \notin ModelSteps
<1>1. popup = << >>  BY McpPushes DEF Handled
<1>2. ASSUME NEW step, NEW of, NEW via, popup' = Push(child.from, Page(step, of, via)), step \notin ModelSteps
      PROVE  Other
  <2>1. Page(step, of, via).step = step  BY DEF Page
  <2> QED  BY <1>2, <2>1
<1>3. CASE MenuPick
  BY <1>2, <1>3 DEF MenuPick, Open, Chosen, ModelSteps
<1>4. CASE RunMcpRemove
  BY <1>2, <1>4 DEF RunMcpRemove, List, Chosen, ModelSteps
<1>5. CASE ServerAction
  BY <1>1, <1>2, <1>5 DEF ServerAction, StartMcpLogin, Open, Chosen, ModelSteps
<1>6. CASE AddName
  BY <1>2, <1>6 DEF AddName, Ask, Open, StopAdd, Chosen, ModelSteps
<1>7. CASE Client
  BY <1>2, <1>7 DEF Client, Open, Chosen, ModelSteps
<1>8. CASE Paste
  BY <1>2, <1>8 DEF Paste, Chosen, ModelSteps
<1>9. CASE Add
  <2>1. CASE AddStdio
    BY <1>2, <2>1 DEF AddStdio, FinalizeMcpAdd, Ask, Open, StopAdd, Chosen, ModelSteps
  <2>2. CASE AddHeaders
    BY <1>2, <2>2 DEF AddHeaders, FinalizeMcpAdd, Ask, Open, StopAdd, Chosen, ModelSteps
  <2>3. CASE AddCredential
    BY <1>2, <2>3 DEF AddCredential, Ask, Open, Chosen, ModelSteps
  <2>4. CASE AddRemote
    <3>1. CASE Chosen("mcpurl") /\ (IF child.arg = "" THEN StopAdd ELSE Ask("auth", mcpAdd))
      BY <1>2, <3>1 DEF Ask, Open, StopAdd, Chosen, ModelSteps
    <3>2. CASE Chosen("auth")
      <4> DEFINE step == IF child.arg \in {"none", "oauth"} THEN "more" ELSE child.arg
      <4>1. child.arg \in {"none", "oauth", "bearer", "apikeyname", "basic"}
        BY <3>2, ChosenIs DEF ChoiceMade
      <4>2. step \notin ModelSteps  BY <4>1 DEF ModelSteps
      <4>3. popup' = Push(child.from, Page(step, None, child.arg))
        BY <2>4, <3>2 DEF AddRemote, Ask, Open, Chosen
      <4>4. Other  BY <1>2, <4>2, <4>3
      <4>5. Last(child.from).step = "auth"  BY <3>2 DEF Chosen
      <4> QED  BY <4>4, <4>5 DEF ModelSteps
    <3> QED  BY <2>4, <3>1, <3>2 DEF AddRemote
  <2> QED  BY <1>9, <2>1, <2>2, <2>3, <2>4 DEF Add
<1> QED  BY <1>3, <1>4, <1>5, <1>6, <1>7, <1>8, <1>9 DEF McpHandler

LEMMA ModelNext ==
    ASSUME StackInv, DOMAIN servers \subseteq Servers, ModelInv, ~crossed', [DialogsNext]_dialogVars, UNCHANGED crossed
    PROVE  ModelInv'
<1>1. CASE ModelHandler
  BY <1>1, ModelMoves
<1>2. CASE ModelMessages
  BY <1>2, ResultMoves, LoginMoves DEF ModelMessages, ModelMessage
<1>3. CASE CommandModelAdd
  <2>1. /\ child' = None /\ popup' = <<Page("provider", None, None)>> /\ logins' = logins /\ popup = << >>
        /\ modelAdd' = [provider |-> None, name |-> None, loading |-> 0]
        /\ UNCHANGED <<lists, listed, models, mixed>>
    BY <1>3 DEF CommandModelAdd
  <2>2. modelAdd' \in ModelDrafts  BY <2>1 DEF ModelDrafts
  <2>3. LoginInv'  BY <2>1 DEF ModelInv, LoginInv
  <2>4. Behind' = << >> /\ (Shown' = << >> \/ Shown' = popup')  BY <2>1 DEF Behind, Shown
  <2> DEFINE p == Page("provider", None, None)  d == modelAdd'
  <2>5. popup' = <<p>> /\ p.step = "provider" /\ d \in ModelDrafts  BY <2>1, <2>2 DEF Page
  <2> HIDE DEF p, d
  <2>6. ModelPages(<<p>>, d, lists, mixed, listed)
    <3>1. DOMAIN <<p>> = {1} /\ <<p>>[1] = p  BY OnePage
    <3> QED  BY <2>5, <3>1 DEF ModelPages
  <2>7. FetchInv' /\ ModelsBelong'  BY <2>1 DEF ModelInv, FetchInv, ModelsBelong
  <2> QED  BY <2>1, <2>2, <2>3, <2>4, <2>5, <2>6, <2>7, NoModelPages DEF ModelInv, d
<1>4. CASE ~ModelHandler /\ ~ModelMessages /\ ~CommandModelAdd /\ ~McpHandler
  <2>1. UNCHANGED <<modelVars, crossed>>
    BY <1>4 DEF DialogsNext, Command, Enter, Handler, Back, Prompts, McpMessages, Daemon, model, dialogVars
  <2>2. (Turned \/ Chooses) /\ IsStack(popup')  BY <1>4, Moves DEF Handler
  <2>3. LoginInv'
    <3>1. CASE logins = {}  BY <2>1, <3>1 DEF modelVars, LoginInv
    <3>2. CASE logins # {}
      <4>1. popup' = popup /\ child' = child  BY <2>1, <3>2, LoginStays
      <4> QED  BY <2>1, <4>1 DEF modelVars, ModelInv, LoginInv, Top
    <3> QED  BY <3>1, <3>2
  <2> QED  BY <2>1, <2>2, <2>3, ModelTurns
<1>5. CASE McpHandler /\ UNCHANGED model
  <2>1. UNCHANGED modelVars  BY <1>5 DEF model
  <2>2. /\ Handled /\ Last(child.from).step \notin ModelSteps
        /\ popup' = << >> \/ \E p : popup' = Push(child.from, p) /\ p.step \notin ModelSteps
    BY <1>5, McpPushes, McpPages
  <2>3. /\ IsStack(Behind) /\ Behind = child.from /\ logins = {}
        /\ \A i \in DOMAIN Behind : Behind[i].step # "models"
    BY <2>2, ModelFinds DEF ModelSteps
  <2>4. ModelPages(Behind, modelAdd, lists, mixed, listed)  BY DEF ModelInv
  <2>5. popup' = << >> \/ ModelPages(popup', modelAdd, lists, mixed, listed)
    BY <2>2, <2>3, <2>4, PushElse
  <2>6. UNCHANGED <<modelAdd, lists, listed, logins, models, mixed>>  BY <2>1 DEF modelVars
  <2>7. FetchInv' /\ ModelsBelong' /\ LoginInv' /\ modelAdd' \in ModelDrafts \cup {None}
    BY <2>3, <2>6 DEF ModelInv, FetchInv, ModelsBelong, LoginInv
  <2> QED  BY <2>2, <2>5, <2>6, <2>7, ModelShows
<1>6. ModelHandler \/ ModelMessages \/ CommandModelAdd \/ ~McpHandler \/ UNCHANGED model
  BY DEF DialogsNext, Command, Enter, Handler, Back, Prompts, McpMessages, Daemon, model, modelVars, dialogVars
<1> QED  BY <1>1, <1>2, <1>3, <1>4, <1>5, <1>6
LEMMA ModelInits ==
    ASSUME DialogsInit
    PROVE  ModelInv
<1>1. popup = << >> /\ child = None  BY DEF DialogsInit, PopupInit
<1>2. Shown = << >> /\ Behind = << >>  BY <1>1 DEF Shown, Behind
<1>3. modelAdd = None /\ lists = {} /\ listed = 0 /\ logins = {} /\ models = {}
  BY DEF DialogsInit, ModelInit
<1> QED  BY <1>1, <1>2, <1>3, NoModelPages DEF ModelInv, LoginInv, FetchInv, ModelsBelong

\* Until a login crosses another, and a server's file, drafts and pages at all times.
DialogsInv == WizardInv /\ crossed \in BOOLEAN /\ (crossed \/ ModelInv)

LEMMA DialogsInvNext ==
    ASSUME DialogsInv, [DialogsNext]_dialogVars
    PROVE  DialogsInv'
<1>1. WizardInv'  BY WizardNext DEF DialogsInv
<1>2. crossed => crossed'
  BY DEF DialogsNext, Command, Enter, Handler, Back, Prompts, ModelMessages, McpMessages, Daemon, rest, dialogVars
<1>3. crossed' = crossed \/ \E b \in BOOLEAN : crossed' = (crossed \/ b)
  <2>1. CASE McpMessages
    <3>1. crossed' = (crossed \/ (popup # << >> /\ Top.step = "oauth" /\ popup' = << >>))
      BY <2>1 DEF McpMessages
    <3> QED  BY <3>1, Zenon
  <2>2. CASE ~McpMessages
    BY <2>2 DEF DialogsNext, Command, Enter, Handler, Back, Prompts, ModelMessages, Daemon, rest, dialogVars
  <2> QED  BY <2>1, <2>2
<1>4. crossed' \in BOOLEAN  BY <1>3, Zenon DEF DialogsInv
<1>5. CASE ~crossed'
  <2>1. ~crossed /\ ModelInv  BY <1>2, <1>5 DEF DialogsInv
  <2>2. StackInv /\ DOMAIN servers \subseteq Servers  BY DEF DialogsInv, WizardInv
  <2>3. crossed' = crossed
    BY <1>5, <1>3, <2>1, Zenon DEF DialogsInv
  <2> QED  BY <1>1, <1>5, <1>4, <2>1, <2>2, <2>3, ModelNext DEF DialogsInv
<1> QED  BY <1>1, <1>5, <1>4 DEF DialogsInv

LEMMA DialogsInvAlways == DialogsSpec => []DialogsInv
<1>1. DialogsInit => DialogsInv  BY WizardInit, ModelInits DEF DialogsInv, DialogsInit
<1>2. DialogsInv /\ [DialogsNext]_dialogVars => DialogsInv'  BY DialogsInvNext
<1> QED  BY <1>1, <1>2, PTL DEF DialogsSpec

\* A handler that follows the pointer of a draft without a look finds it, on every page
\* the user can still choose on or whose choice is on its way (runMcpAdd*, runMcpClient*,
\* ModelAddVectorNotice).
THEOREM PagesHaveDrafts == DialogsSpec => []PageHasDraft
<1>1. DialogsInv => PageHasDraft
  <2> SUFFICES ASSUME DialogsInv, NEW p \in InHand
               PROVE  /\ p.step \in AddSteps => mcpAdd # None
                      /\ p.step \in ClientSteps => mcpClient # None
                      /\ p.step = "vector" => modelAdd # None \/ crossed
    BY DEF PageHasDraft
  <2>1. StackInv  BY DEF DialogsInv, WizardInv
  <2>2. \/ p.step \in LoginSteps
        \/ \E i \in DOMAIN Shown : p = Shown[i]
        \/ \E i \in DOMAIN Behind : p = Behind[i]
    <3>1. CASE popup # << >>
      <4>1. CASE Top.step \in LoginSteps
        BY <3>1, <4>1 DEF InHand, LoginSteps
      <4>2. CASE Top.step \notin LoginSteps
        <5>1. p \in ToSet(popup) /\ Shown = popup
          BY <3>1, <4>2 DEF InHand, LoginSteps, Shown
        <5> QED  BY <5>1 DEF ToSet
      <4> QED  BY <4>1, <4>2
    <3>2. CASE popup = << >>
      <4>1. child # None /\ p = Last(child.from)  BY <3>2 DEF InHand
      <4>2. Behind = child.from /\ Last(Behind) = Behind[Len(Behind)] /\ Len(Behind) \in DOMAIN Behind
        <5>1. Behind = child.from /\ Last(Behind) = Behind[Len(Behind)] /\ Len(Behind) > 0
              /\ Len(Behind) \in Nat /\ DOMAIN Behind = 1..Len(Behind)
          BY <2>1, <4>1, StacksOf
        <5> QED  BY <5>1
      <4> QED  BY <4>1, <4>2
    <3> QED  BY <3>1, <3>2
  <2>3. p.step \notin LoginSteps => HasDraft(p, mcpAdd, mcpClient)
    BY <2>2 DEF DialogsInv, WizardInv, Drafted
  <2>4. p.step = "vector" => crossed \/ modelAdd \in ModelDrafts
    BY <2>2 DEF DialogsInv, ModelInv, ModelPages, ModelSteps, LoginSteps
  <2> QED  BY <2>3, <2>4, ModelAssumption, McpAssumption DEF HasDraft, AddSteps, ClientSteps, LoginSteps
<1> QED  BY <1>1, DialogsInvAlways, PTL

\* What a wizard saves is what its pages showed: a server as the pages that led to it
\* describe it (finalizeMcpAdd), models under the provider that lists them
\* (runModelAddModelMultiPick).
THEOREM WizardsKeepChoices == DialogsSpec => []WizardsKeep
<1>1. DialogsInv => WizardsKeep
  BY DEF DialogsInv, WizardInv, ModelInv, WizardsKeep, ModelsBelong
<1> QED  BY <1>1, DialogsInvAlways, PTL
=============================================================================
