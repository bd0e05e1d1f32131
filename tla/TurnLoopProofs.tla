--------------------------- MODULE TurnLoopProofs ---------------------------
(***************************************************************************)
(* Proofs about TurnLoop, for any models, tools, batches and bounds: which *)
(* models are asked, what the result cache holds, how often a send is      *)
(* tried again, and, the longest part, that every request pairs its calls  *)
(* with their results and that plans and results are not lost on the way.  *)
(*                                                                         *)
(* History says what a well-formed history is.  Each operation of          *)
(* Transcript and TurnLoop is shown to keep it, to add no call names and   *)
(* to keep the plan and what is told; HistInv adds that the calls of an    *)
(* iteration carry its number, so that the next batch has new names.       *)
(*                                                                         *)
(* The last part is about Subagent, whose legs each stand for a loop of    *)
(* their own: a leg's report is what its task has written.                 *)
(***************************************************************************)
EXTENDS TurnLoop, SublistsProofs, Subagent

\* The actions that neither change the model nor its pool.
ModelsStay == UNCHANGED modelVars

LEMMA OthersKeepModels ==
    ASSUME Next
    PROVE  ModelsStay \/ Over \/ \E err \in Kinds : SwitchModel(err)
<1> USE DEF ModelsStay
<1>1. CASE Iterate  BY <1>1 DEF Iterate
<1>2. CASE Compact  BY <1>2 DEF Compact
<1>3. CASE Fail
  <2>1. PICK err \in Kinds :
            \/ StepReasoning(err) \/ TooLong(err) \/ NothingLeft(err)
            \/ RetryTimeout(err) \/ RetryLimited(err)
            \/ SwitchModel(err) \/ NoFallback(err)
    BY <1>3 DEF Fail
  <2>2. CASE StepReasoning(err)  BY <2>2 DEF StepReasoning
  <2>3. CASE TooLong(err)  BY <2>3 DEF TooLong
  <2>4. CASE NothingLeft(err)  BY <2>4 DEF NothingLeft
  <2>5. CASE RetryTimeout(err)  BY <2>5 DEF RetryTimeout
  <2>6. CASE RetryLimited(err)  BY <2>6 DEF RetryLimited
  <2>7. CASE SwitchModel(err)  BY <2>7
  <2>8. CASE NoFallback(err)  BY <2>8 DEF NoFallback
  <2> QED  BY <2>1, <2>2, <2>3, <2>4, <2>5, <2>6, <2>7, <2>8
<1>4. CASE EmptyAnswer  BY <1>4 DEF EmptyAnswer
<1>5. CASE TooManyEmpty  BY <1>5 DEF TooManyEmpty
<1>6. CASE Reply  BY <1>6 DEF Reply
<1>7. CASE Finish  BY <1>7 DEF Finish
<1>8. CASE \E b \in Batches : ToolCall(b)  BY <1>8 DEF ToolCall
<1>9. CASE Exhaust  BY <1>9 DEF Exhaust
<1>10. CASE Summarise  BY <1>10 DEF Summarise
<1>11. CASE Steer  BY <1>11 DEF Steer
<1>12. CASE Cancel  BY <1>12 DEF Cancel
<1>13. CASE Done  BY <1>13 DEF Done, vars
<1> QED  BY <1>1, <1>2, <1>3, <1>4, <1>5, <1>6, <1>7, <1>8, <1>9, <1>10, <1>11, <1>12, <1>13
         DEF Next

-----------------------------------------------------------------------------
(* The pool *)

LEMMA FirstOfIn ==
    ASSUME NEW ms, ms \subseteq Models, ms # {}
    PROVE  FirstOf(ms) \in ms
<1> DEFINE at == { i \in DOMAIN Order : Order[i] \in ms }
           IsFirst(i) == Order[i] \in ms /\ \A j \in DOMAIN Order : Order[j] \in ms => i <= j
<1>1. Order \in Seq(Models) /\ Range(Order) = Models  BY ModelAssumption
<1>2. at # {}  BY <1>1 DEF Range
<1>3. at \subseteq Nat  BY <1>1
<1>4. \E i \in at : \A j \in at : i <= j
  <2> HIDE DEF at
  <2> QED  BY <1>2, <1>3, Least
<1>5. \E i \in DOMAIN Order : IsFirst(i)  BY <1>4
<1>6. IsFirst(CHOOSE i \in DOMAIN Order : IsFirst(i))
  <2> HIDE DEF IsFirst
  <2> QED  BY <1>5
<1> QED  BY <1>6 DEF FirstOf

\* A run starts with a model of its pool, and no pool has a model tagged pass.
LEMMA RoutesKnown ==
    ASSUME NEW route \in Routes
    PROVE  /\ route[1] \in route[2]
           /\ route[2] \cap Pass \subseteq {Assigned}
<1>1. CASE Assigned # None  BY <1>1 DEF Routes
<1>2. CASE Assigned = None
  <2>1. PICK cooling \in SUBSET Shaky, dead \in SUBSET (Shaky \ Pass) :
            LET rest == Fallbacks(dead)
                able == rest \ cooling
            IN route \in IF able # {} THEN { <<head, rest>> : head \in able }
                         ELSE IF rest = {} THEN {}
                         ELSE {<<FirstOf(rest), rest>>}
    BY <1>2 DEF Routes
  <2> DEFINE rest == Fallbacks(dead)
  <2>2. rest \subseteq Models /\ rest \cap Pass = {}  BY DEF Fallbacks
  <2>3. CASE rest \ cooling # {}  BY <2>1, <2>2, <2>3
  <2>4. CASE rest \ cooling = {}
    <3>1. rest # {} /\ route = <<FirstOf(rest), rest>>  BY <2>1, <2>4
    <3>2. FirstOf(rest) \in rest  BY <2>2, <3>1, FirstOfIn
    <3> QED  BY <2>2, <3>1, <3>2
  <2> QED  BY <2>3, <2>4
<1> QED  BY <1>1, <1>2

\* What stays true of the models: the pool has no provider of a model that was left.
PoolInv ==
    /\ \A m \in left : \A e \in pool \cup {model} : Provider[m] # Provider[e]
    /\ pool \cap Pass \subseteq {Assigned}
    /\ model \in Pass => model = Assigned

LEMMA PoolInit == Init => PoolInv
<1> SUFFICES ASSUME Init PROVE PoolInv  OBVIOUS
<1>1. PICK route \in Routes : model = route[1] /\ pool = route[2]  BY DEF Init
<1>2. model \in pool /\ pool \cap Pass \subseteq {Assigned}  BY <1>1, RoutesKnown
<1>3. left = {}  BY DEF Init
<1> QED  BY <1>2, <1>3 DEF PoolInv

LEMMA PoolStep == PoolInv /\ [Next]_vars => PoolInv'
<1> SUFFICES ASSUME PoolInv, [Next]_vars PROVE PoolInv'  OBVIOUS
<1>1. CASE ModelsStay  BY <1>1 DEF ModelsStay, modelVars, PoolInv
<1>2. CASE Over  BY <1>2 DEF Over, PoolInv
<1>3. ASSUME NEW err \in Kinds, SwitchModel(err) PROVE PoolInv'
  <2>1. /\ pool' = Remaining /\ model' \in Remaining
        /\ left' = left \cup {model}
    BY <1>3 DEF SwitchModel
  <2> QED  BY <2>1 DEF PoolInv, Remaining
<1>4. CASE UNCHANGED vars  BY <1>4, <1>1 DEF vars, ModelsStay
<1> QED  BY <1>1, <1>2, <1>3, <1>4, OthersKeepModels

\* A provider that was given up on is not asked again, and a model tagged pass is used
\* only where somebody chose it: RetryState.Agents as Next (model/next.go) filters it.
THEOREM ProvidersTriedOnce == Spec => []ProvidersOnce
<1>1. PoolInv => ProvidersOnce  BY DEF PoolInv, ProvidersOnce
<1> QED  BY <1>1, PoolInit, PoolStep, PTL DEF Spec

-----------------------------------------------------------------------------
(* The result cache *)

\* A read that is kept is what the file holds, or ran beside an edit of its batch.
CacheInv ==
    /\ \A t \in DOMAIN cache : cache[t] \in Entry
    /\ Read \in DOMAIN cache => cache[Read].fresh \/ cache[Read].beside

LEMMA OthersKeepCache ==
    ASSUME Next
    PROVE  \/ UNCHANGED toolVars
           \/ cache' = cache /\ served' = {}
           \/ cache' = NoEntries /\ served' = {}
           \/ cache' = NoEntries /\ served' = served
           \/ \E b \in Batches : ToolCall(b)
<1>1. CASE Iterate  BY <1>1 DEF Iterate
<1>2. CASE Compact  BY <1>2 DEF Compact
<1>3. CASE Fail
  <2>1. PICK err \in Kinds :
            \/ StepReasoning(err) \/ TooLong(err) \/ NothingLeft(err)
            \/ RetryTimeout(err) \/ RetryLimited(err)
            \/ SwitchModel(err) \/ NoFallback(err)
    BY <1>3 DEF Fail
  <2>2. CASE StepReasoning(err)  BY <2>2 DEF StepReasoning
  <2>3. CASE TooLong(err)  BY <2>3 DEF TooLong
  <2>4. CASE NothingLeft(err)  BY <2>4 DEF NothingLeft, Over
  <2>5. CASE RetryTimeout(err)  BY <2>5 DEF RetryTimeout
  <2>6. CASE RetryLimited(err)  BY <2>6 DEF RetryLimited
  <2>7. CASE SwitchModel(err)  BY <2>7 DEF SwitchModel
  <2>8. CASE NoFallback(err)  BY <2>8 DEF NoFallback, Over
  <2> QED  BY <2>1, <2>2, <2>3, <2>4, <2>5, <2>6, <2>7, <2>8
<1>4. CASE EmptyAnswer  BY <1>4 DEF EmptyAnswer
<1>5. CASE TooManyEmpty  BY <1>5 DEF TooManyEmpty, Over
<1>6. CASE Reply  BY <1>6 DEF Reply
<1>7. CASE Finish  BY <1>7 DEF Finish, Over
<1>8. CASE \E b \in Batches : ToolCall(b)  BY <1>8
<1>9. CASE Exhaust  BY <1>9 DEF Exhaust
<1>10. CASE Summarise  BY <1>10 DEF Summarise, Over
<1>11. CASE Steer  BY <1>11 DEF Steer
<1>12. CASE Cancel  BY <1>12 DEF Cancel, Over
<1>13. CASE Done  BY <1>13 DEF Done, vars
<1> QED  BY <1>1, <1>2, <1>3, <1>4, <1>5, <1>6, <1>7, <1>8, <1>9, <1>10, <1>11, <1>12, <1>13
         DEF Next

\* The entries a batch makes and those it leaves are entries.
LEMMA BatchMakesEntries ==
    ASSUME CacheInv, NEW b \in Batches, NEW r \in Outcomes(b), NEW saw \in BOOLEAN,
           NEW t \in DOMAIN Cached(b, r, saw)
    PROVE  Cached(b, r, saw)[t] \in Entry
<1> DEFINE new == { b[i] : i \in Stored(b, r) }
<1>1. t \in (DOMAIN cache \cup new) \ Dropped(b, r)  BY DEF Cached
<1>2. CASE t \in new
  <2> DEFINE i == CHOOSE k \in Stored(b, r) : b[k] = t
  <2>1. Cached(b, r, saw)[t] = EntryOf(b, r, i, saw)  BY <1>1, <1>2 DEF Cached
  <2> HIDE DEF i
  <2> DEFINE edited == At(b, r, Edit, {"ok"}) # {}
             fresh == CASE b[i] = Read   -> edited => saw
                        [] b[i] = Script -> \A p \in At(b, r, Patch, {"ok"}) : p < i
                        [] OTHER         -> TRUE
  <2>2. fresh \in BOOLEAN  OBVIOUS
  <2>3. EntryOf(b, r, i, saw) = [ok |-> r[i] = "ok", fresh |-> fresh,
                                 beside |-> b[i] = Read /\ edited]
    BY DEF EntryOf
  <2> HIDE DEF fresh, edited
  <2> QED  BY <2>1, <2>2, <2>3 DEF Entry
<1>3. CASE t \notin new
  <2>1. Cached(b, r, saw)[t] = Aged(b, r, t)  BY <1>1, <1>3 DEF Cached
  <2>2. cache[t] \in Entry  BY <1>1, <1>3 DEF CacheInv
  <2> QED  BY <2>1, <2>2 DEF Aged, Entry
<1> QED  BY <1>2, <1>3

\* What a batch leaves in the cache of a read.
LEMMA BatchKeepsReads ==
    ASSUME CacheInv, NEW b \in Batches, NEW r \in Outcomes(b), NEW saw \in BOOLEAN,
           Read \in DOMAIN Cached(b, r, saw)
    PROVE  Cached(b, r, saw)[Read].fresh \/ Cached(b, r, saw)[Read].beside
<1> DEFINE new == { b[i] : i \in Stored(b, r) }
           edited == At(b, r, Edit, {"ok"}) # {}
           e == Cached(b, r, saw)[Read]
<1>1. Read \notin WriteLike /\ Read # Script /\ Read # Edit  BY ToolAssumption DEF WriteLike
<1>2. Read \in (DOMAIN cache \cup new) \ Dropped(b, r)  BY DEF Cached
<1>3. CASE Read \in new
  <2> DEFINE i == CHOOSE k \in Stored(b, r) : b[k] = Read
  <2>1. e = EntryOf(b, r, i, saw)  BY <1>2, <1>3 DEF Cached
  <2>2. b[i] = Read  BY <1>3
  <2> HIDE DEF i
  <2>3. e.fresh = (edited => saw) /\ e.beside = edited  BY <2>1, <2>2, <1>1 DEF EntryOf
  <2> QED  BY <2>3
<1>4. CASE Read \notin new
  <2>1. Read \in DOMAIN cache  BY <1>2, <1>4
  <2>2. e = Aged(b, r, Read)  BY <1>2, <1>4 DEF Cached
  <2>3. At(b, r, Read, {"ok", "failed"}) = {}  BY <1>1, <1>4 DEF At, Stored
  <2>4. ~edited  BY <1>2, <2>3 DEF Dropped
  <2>5. /\ cache[Read] \in Entry
        /\ cache[Read].fresh \/ cache[Read].beside
    BY <2>1 DEF CacheInv
  <2>6. e.fresh = cache[Read].fresh /\ e.beside = cache[Read].beside
    BY <2>2, <2>4, <2>5, <1>1 DEF Aged, Entry
  <2> QED  BY <2>5, <2>6
<1> QED  BY <1>3, <1>4

LEMMA CacheInit == Init => CacheInv
BY DEF Init, CacheInv, NoEntries

LEMMA CacheStep == CacheInv /\ [Next]_vars => CacheInv'
<1> SUFFICES ASSUME CacheInv, [Next]_vars PROVE CacheInv'  OBVIOUS
<1>1. CASE cache' = cache  BY <1>1 DEF CacheInv
<1>2. CASE cache' = NoEntries  BY <1>2 DEF CacheInv, NoEntries
<1>3. ASSUME NEW b \in Batches, ToolCall(b) PROVE CacheInv'
  <2>1. PICK r \in Outcomes(b), saw \in BOOLEAN : cache' = Cached(b, r, saw)
    BY <1>3 DEF ToolCall
  <2> QED  BY <2>1, BatchMakesEntries, BatchKeepsReads DEF CacheInv
<1> QED  BY <1>1, <1>2, <1>3, OthersKeepCache DEF vars, toolVars

\* A read answered from the cache (toolCall.go:421) is what the file holds now, but for
\* one that ran beside an edit of the batch it was made in.
THEOREM CachedReadsFresh == Spec => ReadsFresh
<1> DEFINE Step == Read \in served' \ served => cache[Read].fresh \/ cache[Read].beside
<1>1. CacheInv /\ [Next]_vars => [Step]_vars
  <2> SUFFICES ASSUME CacheInv, Next, Read \in served' \ served
               PROVE  cache[Read].fresh \/ cache[Read].beside
    OBVIOUS
  <2>1. PICK b \in Batches : ToolCall(b)  BY OthersKeepCache DEF toolVars
  <2>2. PICK r \in Outcomes(b) :
            served' = { b[i] : i \in { j \in DOMAIN b : r[j] = "cached" } }
    BY <2>1 DEF ToolCall
  <2>3. Read \in DOMAIN cache  BY <2>2 DEF Outcomes
  <2> QED  BY <2>3 DEF CacheInv
<1> QED  BY <1>1, CacheInit, CacheStep, PTL DEF Spec, ReadsFresh

-----------------------------------------------------------------------------
(* The retry counters *)

RetriesBounded ==
    /\ turns \in 0..MaxTurns
    /\ level \in 0..Highest /\ dir \in {-1, 0, 1} /\ lowered \in 0..MaxRetry
    /\ timeouts \in 0..MaxRetry /\ limited \in 0..RateTries /\ empties \in 0..MaxRetry

\* However sends fail, the counters and the reasoning level stay within their bounds, so
\* that every model is given up in the end (execute.go:535, :593, :611, sendEvent.go:18).
THEOREM RetriesStayBounded == Spec => []RetriesBounded
<1> USE BoundAssumption DEF RetriesBounded
<1>1. ASSUME Init PROVE RetriesBounded
  <2>1. /\ MaxTurns \in Nat /\ MaxRetry \in Nat /\ RateTries \in Nat /\ Highest \in Nat
        /\ Levels \subseteq 0..Highest
    OBVIOUS
  <2>2. /\ turns = 0 /\ level \in Levels /\ dir = 0 /\ lowered = 0
        /\ timeouts = 0 /\ limited = 0 /\ empties = 0
    BY <1>1 DEF Init
  <2>3. 0 \in 0..MaxTurns /\ 0 \in 0..MaxRetry /\ 0 \in 0..RateTries  BY <2>1
  <2>4. dir \in {-1, 0, 1}  BY <2>2
  <2> QED  BY <2>1, <2>2, <2>3, <2>4
<1>2. RetriesBounded /\ [Next]_vars => RetriesBounded'
  <2> SUFFICES ASSUME RetriesBounded, [Next]_vars PROVE RetriesBounded'  OBVIOUS
  <2>1. CASE Iterate  BY <2>1 DEF Iterate, levelVars, retryVars
  <2>2. CASE Compact  BY <2>2 DEF Compact, levelVars, retryVars
  <2>3. CASE Over  BY <2>3 DEF Over
  <2>4. CASE Fail
    <3>1. PICK err \in Kinds :
              \/ StepReasoning(err) \/ TooLong(err) \/ NothingLeft(err)
              \/ RetryTimeout(err) \/ RetryLimited(err)
              \/ SwitchModel(err) \/ NoFallback(err)
      BY <2>4 DEF Fail
    <3>2. CASE StepReasoning(err)
      <4>1. Direction \in {-1, 0, 1}  BY DEF Direction
      <4> QED  BY <3>2, <4>1 DEF StepReasoning, CanLower
    <3>3. CASE TooLong(err)  BY <3>3 DEF TooLong, levelVars
    <3>4. CASE NothingLeft(err)  BY <3>4, <2>3 DEF NothingLeft
    <3>5. CASE RetryTimeout(err)  BY <3>5 DEF RetryTimeout, levelVars
    <3>6. CASE RetryLimited(err)  BY <3>6 DEF RetryLimited, levelVars
    <3>7. CASE SwitchModel(err)  BY <3>7 DEF SwitchModel, levelVars
    <3>8. CASE NoFallback(err)  BY <3>8, <2>3 DEF NoFallback
    <3> QED  BY <3>1, <3>2, <3>3, <3>4, <3>5, <3>6, <3>7, <3>8
  <2>5. CASE EmptyAnswer  BY <2>5 DEF EmptyAnswer, Answered, levelVars
  <2>6. CASE TooManyEmpty  BY <2>6, <2>3 DEF TooManyEmpty
  <2>7. CASE Reply  BY <2>7 DEF Reply, Answered, levelVars
  <2>8. CASE Finish  BY <2>8, <2>3 DEF Finish
  <2>9. CASE \E b \in Batches : ToolCall(b)  BY <2>9 DEF ToolCall, Answered, levelVars
  <2>10. CASE Exhaust  BY <2>10 DEF Exhaust, levelVars, retryVars
  <2>11. CASE Summarise  BY <2>11, <2>3 DEF Summarise
  <2>12. CASE Steer  BY <2>12 DEF Steer, loopVars, levelVars, retryVars
  <2>13. CASE Cancel  BY <2>13, <2>3 DEF Cancel
  <2>14. CASE UNCHANGED vars  BY <2>14 DEF vars, loopVars, levelVars, retryVars
  <2>15. CASE Done  BY <2>15, <2>14 DEF Done
  <2> QED  BY <2>1, <2>2, <2>4, <2>5, <2>6, <2>7, <2>8, <2>9, <2>10, <2>11, <2>12, <2>13,
              <2>14, <2>15 DEF Next
<1> QED  BY <1>1, <1>2, PTL DEF Spec

-----------------------------------------------------------------------------
(* Histories: sequences of messages whose calls and results are paired.     *)

Calls == [id : Ids, tool : Tools]

Messages == [role : {"assistant", "tool", "user"}, calls : Seq(Calls), of : Ids \cup {None},
             says : BOOLEAN, tells : SUBSET Ids]

LEMMA MessageParts ==
    ASSUME NEW m \in Messages
    PROVE  /\ m.role \in {"assistant", "tool", "user"} /\ m.calls \in Seq(Calls)
           /\ m.of \in Ids \cup {None} /\ m.tells \subseteq Ids /\ m.says \in BOOLEAN
           /\ \A k \in DOMAIN m.calls : m.calls[k].id \in Ids
           /\ DOMAIN m.calls = 1..Len(m.calls) /\ Len(m.calls) \in Nat
           /\ m.calls = <<>> <=> DOMAIN m.calls = {}
<1>1. m.calls \in Seq(Calls)  BY DEF Messages
<1>2. \A k \in DOMAIN m.calls : m.calls[k] \in Calls  BY <1>1
<1>3. \A k \in DOMAIN m.calls : m.calls[k].id \in Ids  BY <1>2 DEF Calls
<1>4. DOMAIN m.calls = 1..Len(m.calls) /\ Len(m.calls) \in Nat  BY <1>1
<1>5. m.calls = <<>> <=> DOMAIN m.calls = {}
  <2>1. m.calls = <<>> => Len(m.calls) = 0  BY EmptySeq
  <2>2. m.calls # <<>> => Len(m.calls) \in Nat \ {0}  BY <1>1, EmptySeq
  <2>3. Len(m.calls) = 0 => DOMAIN m.calls = {}  BY <1>4
  <2>4. Len(m.calls) \in Nat \ {0} => 1 \in DOMAIN m.calls  BY <1>4
  <2> QED  BY <2>1, <2>2, <2>3, <2>4
<1>6. /\ m.role \in {"assistant", "tool", "user"} /\ m.of \in Ids \cup {None}
      /\ m.tells \subseteq Ids
  BY DEF Messages
<1>7. m.says \in BOOLEAN  BY DEF Messages
<1> QED  BY <1>1, <1>3, <1>4, <1>5, <1>6, <1>7

LEMMA MessageMade ==
    ASSUME NEW role \in {"assistant", "tool", "user"}, NEW calls \in Seq(Calls),
           NEW of \in Ids \cup {None}, NEW says \in BOOLEAN, NEW tells \in SUBSET Ids
    PROVE  /\ Message(role, calls, of, says, tells) \in Messages
           /\ Message(role, calls, of, says, tells).role = role
           /\ Message(role, calls, of, says, tells).calls = calls
           /\ Message(role, calls, of, says, tells).of = of
           /\ Message(role, calls, of, says, tells).tells = tells
BY DEF Message, Messages

\* What a message keeps when its calls are replaced.
LEMMA WithParts ==
    ASSUME NEW m \in Messages, NEW calls \in Seq(Calls)
    PROVE  /\ With(m, calls) \in Messages
           /\ With(m, calls).role = m.role /\ With(m, calls).calls = calls
           /\ With(m, calls).of = m.of /\ With(m, calls).tells = m.tells
<1>1. /\ m.role \in {"assistant", "tool", "user"} /\ m.of \in Ids \cup {None}
      /\ m.tells \in SUBSET Ids /\ m.says \in BOOLEAN
  BY MessageParts
<1> QED  BY <1>1 DEF With, Message, Messages

\* Every call is followed by its result, at its place after the message.
CallsFollowed(msgs) ==
    \A i \in DOMAIN msgs : \A k \in DOMAIN msgs[i].calls :
        /\ i + k \in DOMAIN msgs
        /\ msgs[i + k].role = "tool" /\ msgs[i + k].of = msgs[i].calls[k].id

\* Every result has its call.
ResultsCalled(msgs) ==
    \A p \in DOMAIN msgs : msgs[p].role = "tool" =>
        /\ msgs[p].calls = <<>>
        /\ \E i \in DOMAIN msgs : \E k \in DOMAIN msgs[i].calls : p = i + k

\* No two calls have the same name.
CallsDiffer(msgs) ==
    \A i, j \in DOMAIN msgs : \A k \in DOMAIN msgs[i].calls, l \in DOMAIN msgs[j].calls :
        msgs[i].calls[k].id = msgs[j].calls[l].id => i = j /\ k = l

\* Only results name a call.
OthersAnswerNone(msgs) ==
    \A p \in DOMAIN msgs : msgs[p].role # "tool" => msgs[p].of = None

History(msgs) ==
    /\ msgs \in Seq(Messages)
    /\ CallsFollowed(msgs) /\ ResultsCalled(msgs) /\ CallsDiffer(msgs) /\ OthersAnswerNone(msgs)

LEMMA IdsKnown ==
    ASSUME NEW msgs
    PROVE  /\ \A x : x \in AllIds(msgs) <=>
                  \E i \in DOMAIN msgs : \E k \in DOMAIN msgs[i].calls : x = msgs[i].calls[k].id
           /\ \A x : x \in ResultsIn(msgs) <=>
                  \E i \in DOMAIN msgs : msgs[i].role = "tool" /\ x = msgs[i].of
BY DEF AllIds, IdsOf, ResultsIn, Range

LEMMA HistoryParts ==
    ASSUME NEW msgs, History(msgs)
    PROVE  /\ msgs \in Seq(Messages) /\ Len(msgs) \in Nat /\ DOMAIN msgs = 1..Len(msgs)
           /\ \A i \in DOMAIN msgs : /\ msgs[i] \in Messages
                                     /\ DOMAIN msgs[i].calls = 1..Len(msgs[i].calls)
                                     /\ Len(msgs[i].calls) \in Nat
                                     /\ msgs[i].calls = <<>> <=> DOMAIN msgs[i].calls = {}
           /\ None \notin Ids /\ AllIds(msgs) \subseteq Ids
           /\ ResultsIn(msgs) = AllIds(msgs)
<1>1. msgs \in Seq(Messages)  BY DEF History
<1>2. Len(msgs) \in Nat /\ DOMAIN msgs = 1..Len(msgs) /\ \A i \in DOMAIN msgs : msgs[i] \in Messages
  BY <1>1
<1>3. None \notin Ids  BY ToolAssumption DEF Ids
<1>4. AllIds(msgs) \subseteq Ids  BY <1>2, MessageParts, IdsKnown
<1>5. ResultsIn(msgs) = AllIds(msgs)
  <2>1. ASSUME NEW x \in AllIds(msgs) PROVE x \in ResultsIn(msgs)
    <3>0. PICK i \in DOMAIN msgs : \E k \in DOMAIN msgs[i].calls : x = msgs[i].calls[k].id
      BY IdsKnown
    <3>1. PICK k \in DOMAIN msgs[i].calls : x = msgs[i].calls[k].id  BY <3>0
    <3>2. i + k \in DOMAIN msgs /\ msgs[i + k].role = "tool" /\ msgs[i + k].of = x
      BY <3>1 DEF History, CallsFollowed
    <3> QED  BY <3>2, IdsKnown
  <2>2. ASSUME NEW x \in ResultsIn(msgs) PROVE x \in AllIds(msgs)
    <3>1. PICK p \in DOMAIN msgs : msgs[p].role = "tool" /\ x = msgs[p].of  BY IdsKnown
    <3>2. PICK i \in DOMAIN msgs : \E k \in DOMAIN msgs[i].calls : p = i + k
      BY <3>1 DEF History, ResultsCalled
    <3>3. PICK k \in DOMAIN msgs[i].calls : p = i + k  BY <3>2
    <3>4. msgs[i + k].of = msgs[i].calls[k].id  BY <3>2, <3>3 DEF History, CallsFollowed
    <3> QED  BY <3>1, <3>2, <3>3, <3>4, IdsKnown
  <2> QED  BY <2>1, <2>2
<1> QED  BY <1>1, <1>2, <1>3, <1>4, <1>5, MessageParts

LEMMA HistoryWellPaired ==
    ASSUME NEW msgs, History(msgs)
    PROVE  WellPaired(msgs)
<1>1. ASSUME NEW i \in CallIndices(msgs)
      PROVE  /\ i + Len(msgs[i].calls) <= Len(msgs)
             /\ \A k \in 1..Len(msgs[i].calls) : msgs[i + k].of = msgs[i].calls[k].id
  <2> DEFINE n == Len(msgs[i].calls)
  <2>1. i \in DOMAIN msgs /\ msgs[i].calls # <<>>  BY DEF CallIndices
  <2>2. /\ DOMAIN msgs[i].calls = 1..n /\ n \in Nat
        /\ DOMAIN msgs[i].calls # {}
    BY <2>1, HistoryParts
  <2>3. n \in DOMAIN msgs[i].calls  BY <2>2
  <2>4. i + n \in DOMAIN msgs  BY <2>1, <2>3 DEF History, CallsFollowed
  <2>5. i + n <= Len(msgs)  BY <2>4, HistoryParts
  <2> HIDE DEF n
  <2> QED  BY <2>1, <2>2, <2>5 DEF History, CallsFollowed
<1>2. ASSUME NEW p \in DOMAIN msgs, msgs[p].role = "tool"
      PROVE  Cardinality({ j \in DOMAIN msgs : msgs[j].of = msgs[p].of }) = 1
  <2>0. PICK i \in DOMAIN msgs : \E k \in DOMAIN msgs[i].calls : p = i + k
    BY <1>2 DEF History, ResultsCalled
  <2>1. PICK k \in DOMAIN msgs[i].calls : p = i + k  BY <2>0
  <2>2. msgs[p].of = msgs[i].calls[k].id  BY <2>1 DEF History, CallsFollowed
  <2>3. msgs[p].of # None
    BY <2>2, HistoryParts, IdsKnown
  <2>4. ASSUME NEW j \in DOMAIN msgs, msgs[j].of = msgs[p].of PROVE j = p
    <3>1. msgs[j].role = "tool"  BY <2>3, <2>4 DEF History, OthersAnswerNone
    <3>4. PICK a \in DOMAIN msgs : \E l \in DOMAIN msgs[a].calls : j = a + l
      BY <3>1 DEF History, ResultsCalled
    <3>2. PICK l \in DOMAIN msgs[a].calls : j = a + l  BY <3>4
    <3>3. msgs[j].of = msgs[a].calls[l].id  BY <3>2 DEF History, CallsFollowed
    <3>6. msgs[a].calls[l].id = msgs[i].calls[k].id  BY <2>2, <2>4, <3>3
    <3>5. a = i /\ l = k  BY <3>6 DEF History, CallsDiffer
    <3> QED  BY <2>1, <3>2, <3>5
  <2>5. { j \in DOMAIN msgs : msgs[j].of = msgs[p].of } = {p}  BY <2>4
  <2> QED  BY <2>5, FS_Singleton
<1> QED  BY <1>1, <1>2, HistoryParts DEF WellPaired

-----------------------------------------------------------------------------
(* What is left of a history when some of its messages are kept, and of     *)
(* their calls those whose results are kept.                                *)

KeptCalls(msgs, S, i) == { k \in DOMAIN msgs[i].calls : i + k \in S }

Shortened(msgs, S, rest) ==
    /\ S \subseteq DOMAIN msgs
    /\ rest \in Seq(Messages) /\ Len(rest) = Len(msgs)
    /\ \A i \in DOMAIN msgs :
         /\ rest[i].role = msgs[i].role /\ rest[i].of = msgs[i].of
         /\ i \in S => rest[i].calls = Pick(msgs[i].calls, KeptCalls(msgs, S, i))
         /\ KeptCalls(msgs, S, i) # {} => i \in S

\* Where a call that is kept, and its result, come to stand.
LEMMA CallMoves ==
    ASSUME NEW msgs, History(msgs), NEW S, NEW rest, Shortened(msgs, S, rest),
           NEW i \in DOMAIN msgs, NEW k \in KeptCalls(msgs, S, i)
    PROVE  /\ i \in S /\ i + k \in S
           /\ Rank(KeptCalls(msgs, S, i), k) \in DOMAIN rest[i].calls
           /\ rest[i].calls[Rank(KeptCalls(msgs, S, i), k)] = msgs[i].calls[k]
           /\ Rank(S, i + k) = Rank(S, i) + Rank(KeptCalls(msgs, S, i), k)
<1> DEFINE n == Len(msgs)
           m == Len(msgs[i].calls)
           L == KeptCalls(msgs, S, i)
<1>1. /\ DOMAIN msgs = 1..n /\ n \in Nat /\ i \in Nat
      /\ DOMAIN msgs[i].calls = 1..m /\ m \in Nat /\ msgs[i].calls \in Seq(Calls)
  BY HistoryParts, MessageParts
<1>2. L \subseteq 1..m /\ k \in 0..m /\ k \in L  BY <1>1 DEF KeptCalls
<1>3. Stretch(L, m, S, i)  BY <1>1 DEF KeptCalls, Stretch
<1>4. i \in S /\ i + k \in S  BY DEF Shortened, KeptCalls
<1>5. S \subseteq 1..n  BY <1>1 DEF Shortened
<1>6. rest[i].calls = Pick(msgs[i].calls, L)  BY <1>4 DEF Shortened
<1> DEFINE c == msgs[i].calls
<1> HIDE DEF n, m, L
<1>7. Rank(S, i + k) = Rank(S, i) + Rank(L, k)
  <2>1. i \in Nat /\ k \in Nat /\ k <= m /\ i + k \in Nat  BY <1>1, <1>2
  <2>2. Bounded(S)  BY <1>1, <1>5 DEF Bounded
  <2> QED  BY <2>1, <2>2, <1>3, RankShift
<1>8. /\ Rank(L, k) \in 1..Cardinality(L) /\ Pick(msgs[i].calls, L)[Rank(L, k)] = msgs[i].calls[k]
      /\ DOMAIN Pick(msgs[i].calls, L) = 1..Cardinality(L)
  <2>1. L \subseteq DOMAIN msgs[i].calls  BY <1>1, <1>2
  <2>2. DOMAIN Pick(msgs[i].calls, L) = 1..Cardinality(L)  BY DEF Pick
  <2>3. c \in Seq(Calls) /\ L \subseteq DOMAIN c /\ k \in L  BY <1>1, <1>2, <2>1
  <2> HIDE DEF c
  <2>4. Rank(L, k) \in 1..Cardinality(L) /\ Pick(c, L)[Rank(L, k)] = c[k]
    BY ONLY <2>3, PickProperties
  <2> QED  BY <2>2, <2>4 DEF c
<1> QED  BY <1>4, <1>6, <1>7, <1>8 DEF L

\* Which message a place holds, and which call.
LEMMA PlacesHold ==
    ASSUME NEW msgs, History(msgs), NEW S, NEW rest, Shortened(msgs, S, rest)
    PROVE  /\ Pick(rest, S) \in Seq(Messages) /\ Cardinality(S) \in Nat
           /\ DOMAIN Pick(rest, S) = 1..Cardinality(S)
           /\ \A r \in DOMAIN Pick(rest, S) :
                \E i \in S : /\ Rank(S, i) = r /\ Pick(rest, S)[r] = rest[i] /\ i \in DOMAIN msgs
                             /\ rest[i].role = msgs[i].role /\ rest[i].of = msgs[i].of
           /\ \A i \in S : Rank(S, i) \in DOMAIN Pick(rest, S) /\ Pick(rest, S)[Rank(S, i)] = rest[i]
           /\ \A i \in S : \A l \in DOMAIN rest[i].calls :
                \E k \in KeptCalls(msgs, S, i) :
                    Rank(KeptCalls(msgs, S, i), k) = l /\ rest[i].calls[l] = msgs[i].calls[k]
<1>1. /\ rest \in Seq(Messages) /\ Len(rest) = Len(msgs) /\ S \subseteq DOMAIN msgs
      /\ DOMAIN rest = DOMAIN msgs /\ S \subseteq DOMAIN rest
  BY HistoryParts DEF Shortened
<1>2. DOMAIN Pick(rest, S) = 1..Cardinality(S)  BY DEF Pick
<1>3. ASSUME NEW r \in DOMAIN Pick(rest, S)
      PROVE  \E i \in S : /\ Rank(S, i) = r /\ Pick(rest, S)[r] = rest[i] /\ i \in DOMAIN msgs
                          /\ rest[i].role = msgs[i].role /\ rest[i].of = msgs[i].of
  <2>1. /\ Nth(S, r) \in S /\ Rank(S, Nth(S, r)) = r
        /\ Pick(rest, S)[r] = rest[Nth(S, r)]
    BY <1>1, <1>2, PickProperties
  <2> QED  BY <1>1, <2>1 DEF Shortened
<1>4. ASSUME NEW i \in S, NEW l \in DOMAIN rest[i].calls
      PROVE  \E k \in KeptCalls(msgs, S, i) :
                 Rank(KeptCalls(msgs, S, i), k) = l /\ rest[i].calls[l] = msgs[i].calls[k]
  <2> DEFINE L == KeptCalls(msgs, S, i)
  <2>1. msgs[i].calls \in Seq(Calls) /\ L \subseteq DOMAIN msgs[i].calls
    BY <1>1, HistoryParts, MessageParts DEF KeptCalls
  <2>2. rest[i].calls = Pick(msgs[i].calls, L)  BY <1>1 DEF Shortened
  <2> HIDE DEF L
  <2>3. l \in 1..Cardinality(L)  BY <2>2 DEF Pick
  <2>4. /\ Nth(L, l) \in L /\ Rank(L, Nth(L, l)) = l
        /\ Pick(msgs[i].calls, L)[l] = msgs[i].calls[Nth(L, l)]
    BY <2>1, <2>3, PickProperties
  <2> QED  BY <2>2, <2>4 DEF L
<1> QED  BY <1>1, <1>2, <1>3, <1>4, PickProperties

LEMMA ShortenedHistory ==
    ASSUME NEW msgs, History(msgs), NEW S, NEW rest, Shortened(msgs, S, rest)
    PROVE  /\ History(Pick(rest, S))
           /\ \A x : x \in AllIds(Pick(rest, S)) <=>
                  \E i \in S : \E k \in KeptCalls(msgs, S, i) : x = msgs[i].calls[k].id
<1> DEFINE R == Pick(rest, S)
<1>1. ASSUME NEW r \in DOMAIN R, NEW l \in DOMAIN R[r].calls
      PROVE  \E i \in S : \E k \in KeptCalls(msgs, S, i) :
                 /\ i \in DOMAIN msgs /\ Rank(S, i) = r /\ Rank(KeptCalls(msgs, S, i), k) = l
                 /\ R[r].calls[l] = msgs[i].calls[k]
                 /\ i + k \in S /\ r + l = Rank(S, i + k)
  <2>1. PICK i \in S : Rank(S, i) = r /\ R[r] = rest[i] /\ i \in DOMAIN msgs
    BY PlacesHold
  <2>2. PICK k \in KeptCalls(msgs, S, i) :
            Rank(KeptCalls(msgs, S, i), k) = l /\ rest[i].calls[l] = msgs[i].calls[k]
    BY <2>1, PlacesHold
  <2>3. i + k \in S /\ Rank(S, i + k) = Rank(S, i) + Rank(KeptCalls(msgs, S, i), k)
    BY <2>1, CallMoves
  <2> QED  BY <2>1, <2>2, <2>3
<1>2. CallsFollowed(R)
  <2> SUFFICES ASSUME NEW r \in DOMAIN R, NEW l \in DOMAIN R[r].calls
               PROVE  /\ r + l \in DOMAIN R
                      /\ R[r + l].role = "tool" /\ R[r + l].of = R[r].calls[l].id
    BY DEF CallsFollowed
  <2>1. PICK i \in S : \E k \in KeptCalls(msgs, S, i) :
                 /\ i \in DOMAIN msgs /\ Rank(S, i) = r /\ Rank(KeptCalls(msgs, S, i), k) = l
                 /\ R[r].calls[l] = msgs[i].calls[k]
                 /\ i + k \in S /\ r + l = Rank(S, i + k)
    BY <1>1
  <2>2. PICK k \in KeptCalls(msgs, S, i) :
                 /\ i \in DOMAIN msgs /\ R[r].calls[l] = msgs[i].calls[k]
                 /\ i + k \in S /\ r + l = Rank(S, i + k)
    BY <2>1
  <2>3. msgs[i + k].role = "tool" /\ msgs[i + k].of = msgs[i].calls[k].id
    BY <2>2 DEF History, CallsFollowed, KeptCalls
  <2>4. Rank(S, i + k) \in DOMAIN R /\ R[Rank(S, i + k)] = rest[i + k]
    BY <2>2, PlacesHold
  <2>5. rest[i + k].role = msgs[i + k].role /\ rest[i + k].of = msgs[i + k].of
    BY <2>2 DEF Shortened
  <2> QED  BY <2>2, <2>3, <2>4, <2>5
<1>3. ResultsCalled(R)
  <2> SUFFICES ASSUME NEW r \in DOMAIN R, R[r].role = "tool"
               PROVE  /\ R[r].calls = <<>>
                      /\ \E a \in DOMAIN R : \E l \in DOMAIN R[a].calls : r = a + l
    BY DEF ResultsCalled
  <2>1. PICK p \in S : /\ Rank(S, p) = r /\ R[r] = rest[p] /\ p \in DOMAIN msgs
                       /\ rest[p].role = msgs[p].role
    BY PlacesHold
  <2>2. msgs[p].role = "tool"  BY <2>1
  <2>3. msgs[p].calls = <<>>  BY <2>1, <2>2 DEF History, ResultsCalled
  <2>4. R[r].calls = <<>>
    <3>1. DOMAIN msgs[p].calls = {}  BY <2>3
    <3>2. KeptCalls(msgs, S, p) = {}  BY <3>1 DEF KeptCalls
    <3>3. rest[p].calls = Pick(msgs[p].calls, {})  BY <2>1, <3>2 DEF Shortened
    <3>4. Cardinality({}) = 0  BY FS_EmptySet
    <3>5. DOMAIN rest[p].calls = {}  BY <3>3, <3>4 DEF Pick
    <3>6. R[r] \in Messages  BY PlacesHold
    <3> QED  BY <2>1, <3>5, <3>6, MessageParts
  <2>5. PICK i \in DOMAIN msgs : \E k \in DOMAIN msgs[i].calls : p = i + k
    BY <2>1, <2>2 DEF History, ResultsCalled
  <2>6. PICK k \in DOMAIN msgs[i].calls : p = i + k  BY <2>5
  <2>7. k \in KeptCalls(msgs, S, i)  BY <2>6 DEF KeptCalls
  <2>8. /\ i \in S /\ Rank(KeptCalls(msgs, S, i), k) \in DOMAIN rest[i].calls
        /\ r = Rank(S, i) + Rank(KeptCalls(msgs, S, i), k)
    BY <2>1, <2>6, <2>7, CallMoves
  <2>9. Rank(S, i) \in DOMAIN R /\ R[Rank(S, i)] = rest[i]  BY <2>8, PlacesHold
  <2> QED  BY <2>4, <2>8, <2>9
<1>4. CallsDiffer(R)
  <2> SUFFICES ASSUME NEW r \in DOMAIN R, NEW q \in DOMAIN R,
                      NEW l \in DOMAIN R[r].calls, NEW t \in DOMAIN R[q].calls,
                      R[r].calls[l].id = R[q].calls[t].id
               PROVE  r = q /\ l = t
    BY DEF CallsDiffer
  <2>1. PICK i \in S : \E k \in KeptCalls(msgs, S, i) :
                 /\ i \in DOMAIN msgs /\ Rank(S, i) = r /\ Rank(KeptCalls(msgs, S, i), k) = l
                 /\ R[r].calls[l] = msgs[i].calls[k]
    BY <1>1
  <2>2. PICK k \in KeptCalls(msgs, S, i) :
                 /\ i \in DOMAIN msgs /\ Rank(KeptCalls(msgs, S, i), k) = l
                 /\ R[r].calls[l] = msgs[i].calls[k]
    BY <2>1
  <2>3. PICK j \in S : \E k2 \in KeptCalls(msgs, S, j) :
                 /\ j \in DOMAIN msgs /\ Rank(S, j) = q /\ Rank(KeptCalls(msgs, S, j), k2) = t
                 /\ R[q].calls[t] = msgs[j].calls[k2]
    BY <1>1
  <2>4. PICK k2 \in KeptCalls(msgs, S, j) :
                 /\ j \in DOMAIN msgs /\ Rank(KeptCalls(msgs, S, j), k2) = t
                 /\ R[q].calls[t] = msgs[j].calls[k2]
    BY <2>3
  <2>5. msgs[i].calls[k].id = msgs[j].calls[k2].id  BY <2>2, <2>4
  <2>6. k \in DOMAIN msgs[i].calls /\ k2 \in DOMAIN msgs[j].calls  BY DEF KeptCalls
  <2>7. i = j /\ k = k2  BY <2>2, <2>4, <2>5, <2>6 DEF History, CallsDiffer
  <2> QED  BY <2>1, <2>2, <2>3, <2>4, <2>7
<1>5. OthersAnswerNone(R)
  <2> SUFFICES ASSUME NEW r \in DOMAIN R, R[r].role # "tool" PROVE R[r].of = None
    BY DEF OthersAnswerNone
  <2>1. PICK p \in S : /\ R[r] = rest[p] /\ p \in DOMAIN msgs
                       /\ rest[p].role = msgs[p].role /\ rest[p].of = msgs[p].of
    BY PlacesHold
  <2> QED  BY <2>1 DEF History, OthersAnswerNone
<1>6. ASSUME NEW x
      PROVE  x \in AllIds(R) <=>
                 \E i \in S : \E k \in KeptCalls(msgs, S, i) : x = msgs[i].calls[k].id
  <2>1. ASSUME x \in AllIds(R)
        PROVE  \E i \in S : \E k \in KeptCalls(msgs, S, i) : x = msgs[i].calls[k].id
    <3>1. PICK r \in DOMAIN R : \E l \in DOMAIN R[r].calls : x = R[r].calls[l].id
      BY <2>1, IdsKnown
    <3>2. PICK l \in DOMAIN R[r].calls : x = R[r].calls[l].id  BY <3>1
    <3>3. PICK i \in S : \E k \in KeptCalls(msgs, S, i) : R[r].calls[l] = msgs[i].calls[k]
      BY <1>1
    <3> QED  BY <3>2, <3>3
  <2>2. ASSUME NEW i \in S, NEW k \in KeptCalls(msgs, S, i), x = msgs[i].calls[k].id
        PROVE  x \in AllIds(R)
    <3>1. i \in DOMAIN msgs  BY DEF Shortened
    <3>2. /\ Rank(KeptCalls(msgs, S, i), k) \in DOMAIN rest[i].calls
          /\ rest[i].calls[Rank(KeptCalls(msgs, S, i), k)] = msgs[i].calls[k]
      BY <3>1, CallMoves
    <3>3. Rank(S, i) \in DOMAIN R /\ R[Rank(S, i)] = rest[i]  BY PlacesHold
    <3> QED  BY <2>2, <3>2, <3>3, IdsKnown
  <2> QED  BY <2>1, <2>2
<1>7. R \in Seq(Messages)  BY PlacesHold
<1> HIDE DEF R
<1>8. History(R)  BY <1>2, <1>3, <1>4, <1>5, <1>7 DEF History
<1> QED  BY <1>6, <1>8 DEF R

-----------------------------------------------------------------------------
(* Two histories one after the other, with different calls.                 *)

LEMMA JoinedPlaces ==
    ASSUME NEW a \in Seq(Messages), NEW b \in Seq(Messages)
    PROVE  /\ a \o b \in Seq(Messages) /\ Len(a) \in Nat /\ Len(b) \in Nat
           /\ DOMAIN a = 1..Len(a) /\ DOMAIN b = 1..Len(b)
           /\ DOMAIN (a \o b) = 1..(Len(a) + Len(b))
           /\ \A i \in DOMAIN a : i \in DOMAIN (a \o b) /\ (a \o b)[i] = a[i]
           /\ \A i \in DOMAIN b : Len(a) + i \in DOMAIN (a \o b) /\ (a \o b)[Len(a) + i] = b[i]
           /\ \A p \in DOMAIN (a \o b) :
                \/ p \in DOMAIN a /\ (a \o b)[p] = a[p]
                \/ \E i \in DOMAIN b : p = Len(a) + i /\ (a \o b)[p] = b[i]
<1> DEFINE m == Len(a)
           n == Len(b)
           c == a \o b
<1>1. m \in Nat /\ n \in Nat /\ DOMAIN a = 1..m /\ DOMAIN b = 1..n  OBVIOUS
<1>2. /\ c \in Seq(Messages) /\ Len(c) = m + n
      /\ \A i \in 1..(m + n) : c[i] = IF i <= m THEN a[i] ELSE b[i - m]
  BY ConcatProperties
<1>3. DOMAIN c = 1..(m + n)  BY <1>2
<1> HIDE DEF m, n, c
<1>4. ASSUME NEW i \in DOMAIN a PROVE i \in DOMAIN c /\ c[i] = a[i]
  BY <1>1, <1>2, <1>3
<1>5. ASSUME NEW i \in DOMAIN b PROVE m + i \in DOMAIN c /\ c[m + i] = b[i]
  <2>1. i \in 1..n /\ m + i \in 1..(m + n) /\ ~(m + i <= m) /\ (m + i) - m = i  BY <1>1
  <2> QED  BY <2>1, <1>2, <1>3
<1>6. ASSUME NEW p \in DOMAIN c
      PROVE  \/ p \in DOMAIN a /\ c[p] = a[p]
             \/ \E i \in DOMAIN b : p = m + i /\ c[p] = b[i]
  <2>1. p \in 1..(m + n)  BY <1>3
  <2>2. CASE p <= m  BY <1>1, <1>2, <2>1, <2>2
  <2>3. CASE ~(p <= m)
    <3>1. p - m \in DOMAIN b /\ p = m + (p - m) /\ c[p] = b[p - m]
      BY <1>1, <1>2, <2>1, <2>3
    <3> QED  BY <3>1
  <2> QED  BY <2>2, <2>3
<1> QED  BY <1>1, <1>2, <1>3, <1>4, <1>5, <1>6 DEF c, m, n

LEMMA JoinedHistory ==
    ASSUME NEW a, NEW b, History(a), History(b), AllIds(a) \cap AllIds(b) = {}
    PROVE  History(a \o b) /\ AllIds(a \o b) = AllIds(a) \cup AllIds(b)
<1> DEFINE c == a \o b
           m == Len(a)
<1>1. a \in Seq(Messages) /\ b \in Seq(Messages)  BY DEF History
<1>2. /\ c \in Seq(Messages) /\ m \in Nat
      /\ \A i \in DOMAIN a : i \in DOMAIN c /\ c[i] = a[i]
      /\ \A i \in DOMAIN b : m + i \in DOMAIN c /\ c[m + i] = b[i]
      /\ \A p \in DOMAIN c : \/ p \in DOMAIN a /\ c[p] = a[p]
                             \/ \E i \in DOMAIN b : p = m + i /\ c[p] = b[i]
  BY <1>1, JoinedPlaces
<1>3. (\A i \in DOMAIN a : i \in Nat) /\ (\A i \in DOMAIN b : i \in Nat)  BY <1>1
<1>30. /\ \A i \in DOMAIN a : \A k \in DOMAIN a[i].calls : k \in Nat
       /\ \A i \in DOMAIN b : \A k \in DOMAIN b[i].calls : k \in Nat
  BY HistoryParts
<1> HIDE DEF c, m
<1>4. CallsFollowed(c)
  <2> SUFFICES ASSUME NEW p \in DOMAIN c, NEW k \in DOMAIN c[p].calls
               PROVE  /\ p + k \in DOMAIN c
                      /\ c[p + k].role = "tool" /\ c[p + k].of = c[p].calls[k].id
    BY DEF CallsFollowed
  <2>1. CASE p \in DOMAIN a /\ c[p] = a[p]
    <3>1. p + k \in DOMAIN a /\ a[p + k].role = "tool" /\ a[p + k].of = a[p].calls[k].id
      BY <2>1 DEF History, CallsFollowed
    <3> QED  BY <1>2, <2>1, <3>1
  <2>2. ASSUME NEW i \in DOMAIN b, p = m + i, c[p] = b[i]
        PROVE  /\ p + k \in DOMAIN c
               /\ c[p + k].role = "tool" /\ c[p + k].of = c[p].calls[k].id
    <3>1. i + k \in DOMAIN b /\ b[i + k].role = "tool" /\ b[i + k].of = b[i].calls[k].id
      BY <2>2 DEF History, CallsFollowed
    <3>2. p + k = m + (i + k)  BY <1>2, <1>3, <1>30, <2>2
    <3>3. m + (i + k) \in DOMAIN c /\ c[m + (i + k)] = b[i + k]  BY <1>2, <3>1
    <3> QED  BY <2>2, <3>1, <3>2, <3>3
  <2> QED  BY <1>2, <2>1, <2>2
<1>5. ResultsCalled(c)
  <2> SUFFICES ASSUME NEW p \in DOMAIN c, c[p].role = "tool"
               PROVE  /\ c[p].calls = <<>>
                      /\ \E i \in DOMAIN c : \E k \in DOMAIN c[i].calls : p = i + k
    BY DEF ResultsCalled
  <2>1. CASE p \in DOMAIN a /\ c[p] = a[p]
    <3>1. a[p].calls = <<>> /\ \E i \in DOMAIN a : \E k \in DOMAIN a[i].calls : p = i + k
      BY <2>1 DEF History, ResultsCalled
    <3> QED  BY <1>2, <2>1, <3>1
  <2>2. ASSUME NEW j \in DOMAIN b, p = m + j, c[p] = b[j]
        PROVE  /\ c[p].calls = <<>>
               /\ \E i \in DOMAIN c : \E k \in DOMAIN c[i].calls : p = i + k
    <3>1. b[j].calls = <<>> /\ \E i \in DOMAIN b : \E k \in DOMAIN b[i].calls : j = i + k
      BY <2>2 DEF History, ResultsCalled
    <3>2. PICK i \in DOMAIN b : \E k \in DOMAIN b[i].calls : j = i + k  BY <3>1
    <3>3. PICK k \in DOMAIN b[i].calls : j = i + k  BY <3>2
    <3>4. p = (m + i) + k  BY <1>2, <1>3, <1>30, <2>2, <3>3
    <3>5. m + i \in DOMAIN c /\ c[m + i] = b[i]  BY <1>2
    <3> QED  BY <2>2, <3>1, <3>3, <3>4, <3>5
  <2> QED  BY <1>2, <2>1, <2>2
<1>6. ASSUME NEW p \in DOMAIN c, NEW k \in DOMAIN c[p].calls
      PROVE  \/ p \in DOMAIN a /\ c[p] = a[p] /\ c[p].calls[k].id \in AllIds(a)
             \/ \E i \in DOMAIN b : p = m + i /\ c[p] = b[i] /\ c[p].calls[k].id \in AllIds(b)
  BY <1>2, IdsKnown
<1>7. CallsDiffer(c)
  <2> SUFFICES ASSUME NEW p \in DOMAIN c, NEW q \in DOMAIN c,
                      NEW k \in DOMAIN c[p].calls, NEW l \in DOMAIN c[q].calls,
                      c[p].calls[k].id = c[q].calls[l].id
               PROVE  p = q /\ k = l
    BY DEF CallsDiffer
  <2>1. CASE p \in DOMAIN a /\ c[p] = a[p] /\ q \in DOMAIN a /\ c[q] = a[q]
    BY <2>1 DEF History, CallsDiffer
  <2>2. ASSUME NEW i \in DOMAIN b, NEW j \in DOMAIN b,
               p = m + i, q = m + j, c[p] = b[i], c[q] = b[j]
        PROVE  p = q /\ k = l
    <3>1. i = j /\ k = l  BY <2>2 DEF History, CallsDiffer
    <3> QED  BY <2>2, <3>1
  <2> QED  BY <1>6, <2>1, <2>2
<1>8. OthersAnswerNone(c)
  <2> SUFFICES ASSUME NEW p \in DOMAIN c, c[p].role # "tool" PROVE c[p].of = None
    BY DEF OthersAnswerNone
  <2> QED  BY <1>2 DEF History, OthersAnswerNone
<1>9. History(c)  BY <1>2, <1>4, <1>5, <1>7, <1>8 DEF History
<1>10. AllIds(c) \subseteq AllIds(a) \cup AllIds(b)
  <2> SUFFICES ASSUME NEW x \in AllIds(c) PROVE x \in AllIds(a) \cup AllIds(b)  OBVIOUS
  <2>1. PICK p \in DOMAIN c : \E k \in DOMAIN c[p].calls : x = c[p].calls[k].id  BY IdsKnown
  <2> QED  BY <1>6, <2>1
<1>11. AllIds(a) \cup AllIds(b) \subseteq AllIds(c)
  <2>1. ASSUME NEW x \in AllIds(a) PROVE x \in AllIds(c)
    <3>1. PICK p \in DOMAIN a : \E k \in DOMAIN a[p].calls : x = a[p].calls[k].id  BY IdsKnown
    <3> QED  BY <1>2, <3>1, IdsKnown
  <2>2. ASSUME NEW x \in AllIds(b) PROVE x \in AllIds(c)
    <3>1. PICK p \in DOMAIN b : \E k \in DOMAIN b[p].calls : x = b[p].calls[k].id  BY IdsKnown
    <3>2. m + p \in DOMAIN c /\ c[m + p] = b[p]  BY <1>2
    <3> QED  BY <3>1, <3>2, IdsKnown
  <2> QED  BY <2>1, <2>2
<1> QED  BY <1>9, <1>10, <1>11 DEF c

\* What two stretches tell.
LEMMA JoinedTelling ==
    ASSUME NEW a \in Seq(Messages), NEW b \in Seq(Messages)
    PROVE  /\ ResultsIn(a \o b) = ResultsIn(a) \cup ResultsIn(b)
           /\ Told(a \o b) = Told(a) \cup Told(b)
<1> DEFINE c == a \o b
<1>1. Range(c) = Range(a) \cup Range(b)
  <2>1. ASSUME NEW x \in Range(c) PROVE x \in Range(a) \cup Range(b)
    <3>1. PICK p \in DOMAIN c : x = c[p]  BY DEF Range
    <3> QED  BY <3>1, JoinedPlaces DEF Range
  <2>2. ASSUME NEW x \in Range(a) PROVE x \in Range(c)
    <3>1. PICK p \in DOMAIN a : x = a[p]  BY DEF Range
    <3> QED  BY <3>1, JoinedPlaces DEF Range
  <2>3. ASSUME NEW x \in Range(b) PROVE x \in Range(c)
    <3>1. PICK p \in DOMAIN b : x = b[p]  BY DEF Range
    <3>2. Len(a) + p \in DOMAIN c /\ c[Len(a) + p] = b[p]  BY JoinedPlaces
    <3> QED  BY <3>1, <3>2 DEF Range
  <2> QED  BY <2>1, <2>2, <2>3
<1> HIDE DEF c
<1>2. ResultsIn(c) = ResultsIn(a) \cup ResultsIn(b)  BY <1>1 DEF ResultsIn
<1>3. Told(c) = Told(a) \cup Told(b)  BY <1>1, <1>2 DEF Told
<1> QED  BY <1>2, <1>3 DEF c

-----------------------------------------------------------------------------
(* The pieces histories are made of.                                        *)

LEMMA EmptyHistory == History(<<>>) /\ AllIds(<<>>) = {} /\ ResultsIn(<<>>) = {} /\ Told(<<>>) = {}
<1>1. <<>> \in Seq(Messages) /\ DOMAIN <<>> = {}  OBVIOUS
<1>2. History(<<>>)
  BY <1>1 DEF History, CallsFollowed, ResultsCalled, CallsDiffer, OthersAnswerNone
<1>3. AllIds(<<>>) = {} /\ ResultsIn(<<>>) = {} /\ Told(<<>>) = {}
  BY <1>1 DEF AllIds, ResultsIn, Told, Range
<1> QED  BY <1>2, <1>3

\* A message without calls that is no result.
LEMMA PlainHistory ==
    ASSUME NEW m \in Messages, m.role # "tool", m.calls = <<>>, m.of = None
    PROVE  /\ History(<<m>>) /\ AllIds(<<m>>) = {} /\ ResultsIn(<<m>>) = {}
           /\ Told(<<m>>) = m.tells
<1> DEFINE s == <<m>>
<1>1. s \in Seq(Messages) /\ DOMAIN s = {1} /\ s[1] = m  OBVIOUS
<1>2. DOMAIN m.calls = {}  OBVIOUS
<1> HIDE DEF s
<1>3. CallsFollowed(s)  BY <1>1, <1>2 DEF CallsFollowed
<1>4. ResultsCalled(s)  BY <1>1 DEF ResultsCalled
<1>5. CallsDiffer(s)  BY <1>1, <1>2 DEF CallsDiffer
<1>6. OthersAnswerNone(s)  BY <1>1 DEF OthersAnswerNone
<1>7. AllIds(s) = {}  BY <1>1, <1>2 DEF AllIds, IdsOf
<1>8. Range(s) = {m}  BY <1>1 DEF Range
<1>9. ResultsIn(s) = {}  BY <1>8 DEF ResultsIn
<1>10. Told(s) = m.tells  BY <1>8, <1>9 DEF Told
<1> QED  BY <1>1, <1>3, <1>4, <1>5, <1>6, <1>7, <1>9, <1>10 DEF History, s

LEMMA AskingParts ==
    ASSUME NEW calls \in Seq(Calls), NEW says \in BOOLEAN
    PROVE  /\ Asking(calls, says) \in Messages /\ Asking(calls, says).role # "tool"
           /\ Asking(calls, says).calls = calls /\ Asking(calls, says).of = None
           /\ Asking(calls, says).tells = {}
<1>1. {} \in SUBSET Ids /\ None \in Ids \cup {None}  OBVIOUS
<1> QED  BY <1>1 DEF Asking, Message, Messages

\* A message with calls, and their results.
LEMMA GroupHistory ==
    ASSUME NEW calls \in Seq(Calls), NEW m \in Messages, NEW answers \in Seq(Messages),
           m.role # "tool", m.calls = calls, m.of = None,
           \A k, l \in DOMAIN calls : calls[k].id = calls[l].id => k = l,
           DOMAIN answers = DOMAIN calls,
           \A k \in DOMAIN calls : /\ answers[k].role = "tool" /\ answers[k].calls = <<>>
                                   /\ answers[k].of = calls[k].id
    PROVE  /\ History(<<m>> \o answers)
           /\ \A x : x \in AllIds(<<m>> \o answers) <=>
                        \E k \in DOMAIN calls : x = calls[k].id
<1> DEFINE one == <<m>>
           c == one \o answers
<1>1. m \in Messages /\ m.role # "tool" /\ m.calls = calls /\ m.of = None  OBVIOUS
<1>2. one \in Seq(Messages) /\ Len(one) = 1 /\ DOMAIN one = {1} /\ one[1] = m
  BY <1>1
<1> HIDE DEF one
<1>3. /\ c \in Seq(Messages)
      /\ 1 \in DOMAIN c /\ c[1] = m
      /\ \A k \in DOMAIN calls : 1 + k \in DOMAIN c /\ c[1 + k] = answers[k]
      /\ \A p \in DOMAIN c : \/ p = 1 /\ c[p] = m
                             \/ \E k \in DOMAIN calls : p = 1 + k /\ c[p] = answers[k]
  <2>1. /\ c \in Seq(Messages)
        /\ \A i \in DOMAIN one : i \in DOMAIN c /\ c[i] = one[i]
        /\ \A i \in DOMAIN answers : Len(one) + i \in DOMAIN c /\ c[Len(one) + i] = answers[i]
        /\ \A p \in DOMAIN c : \/ p \in DOMAIN one /\ c[p] = one[p]
                               \/ \E i \in DOMAIN answers : p = Len(one) + i /\ c[p] = answers[i]
    BY <1>2, JoinedPlaces
  <2> HIDE DEF c
  <2> QED  BY <1>2, <2>1
<1> HIDE DEF c
<1>4. DOMAIN <<>> = {}  OBVIOUS
<1>5. CallsFollowed(c)
  <2> SUFFICES ASSUME NEW p \in DOMAIN c, NEW k \in DOMAIN c[p].calls
               PROVE  /\ p + k \in DOMAIN c
                      /\ c[p + k].role = "tool" /\ c[p + k].of = c[p].calls[k].id
    BY DEF CallsFollowed
  <2>1. p = 1 /\ c[p] = m  BY <1>3, <1>4
  <2>2. k \in DOMAIN calls  BY <1>1, <2>1
  <2>3. 1 + k \in DOMAIN c /\ c[1 + k] = answers[k]  BY <1>3, <2>2
  <2> QED  BY <1>1, <2>1, <2>2, <2>3
<1>6. ResultsCalled(c)
  <2> SUFFICES ASSUME NEW p \in DOMAIN c, c[p].role = "tool"
               PROVE  /\ c[p].calls = <<>>
                      /\ \E i \in DOMAIN c : \E k \in DOMAIN c[i].calls : p = i + k
    BY DEF ResultsCalled
  <2>1. PICK k \in DOMAIN calls : p = 1 + k /\ c[p] = answers[k]
    BY <1>1, <1>3
  <2>2. k \in DOMAIN c[1].calls  BY <1>1, <1>3
  <2> QED  BY <1>3, <2>1, <2>2
<1>7. ASSUME NEW p \in DOMAIN c, NEW k \in DOMAIN c[p].calls
      PROVE  p = 1 /\ k \in DOMAIN calls /\ c[p].calls[k] = calls[k]
  BY <1>1, <1>3, <1>4
<1>8. CallsDiffer(c)  BY <1>7 DEF CallsDiffer
<1>9. OthersAnswerNone(c)  BY <1>1, <1>3 DEF OthersAnswerNone
<1>10. History(c)  BY <1>3, <1>5, <1>6, <1>8, <1>9 DEF History
<1>11. ASSUME NEW x
       PROVE  x \in AllIds(c) <=> \E k \in DOMAIN calls : x = calls[k].id
  <2>1. ASSUME x \in AllIds(c) PROVE \E k \in DOMAIN calls : x = calls[k].id
    <3>1. PICK p \in DOMAIN c : \E k \in DOMAIN c[p].calls : x = c[p].calls[k].id
      BY <2>1, IdsKnown
    <3> QED  BY <1>7, <3>1
  <2>2. ASSUME NEW k \in DOMAIN calls, x = calls[k].id PROVE x \in AllIds(c)
    <3>1. 1 \in DOMAIN c /\ k \in DOMAIN c[1].calls /\ x = c[1].calls[k].id
      BY <1>1, <1>3, <2>2
    <3> QED  BY <3>1, IdsKnown
  <2> QED  BY <2>1, <2>2
<1> QED  BY <1>10, <1>11 DEF c, one

LEMMA NoteHistory ==
    ASSUME NEW tells \in SUBSET Ids
    PROVE  /\ History(<<Note(tells)>>) /\ AllIds(<<Note(tells)>>) = {}
           /\ ResultsIn(<<Note(tells)>>) = {} /\ Told(<<Note(tells)>>) = tells
           /\ Note(tells) \in Messages
<1>1. /\ Note(tells) \in Messages /\ Note(tells).role = "user" /\ Note(tells).calls = <<>>
      /\ Note(tells).of = None /\ Note(tells).tells = tells
  BY DEF Note, Message, Messages
<1> QED  BY <1>1, PlainHistory

LEMMA TextHistory ==
    /\ History(<<Text>>) /\ AllIds(<<Text>>) = {} /\ Text \in Messages
<1>1. /\ Text \in Messages /\ Text.role = "assistant" /\ Text.calls = <<>> /\ Text.of = None
  BY DEF Text, Message, Messages
<1> QED  BY <1>1, PlainHistory

-----------------------------------------------------------------------------
(* What the operations leave.                                               *)

\* Only results that name calls are told as such; nothing else has the name of a call.
LEMMA ResultPlaces ==
    ASSUME NEW msgs, History(msgs), NEW i \in DOMAIN msgs, NEW k \in DOMAIN msgs[i].calls
    PROVE  /\ i + k \in DOMAIN msgs /\ msgs[i + k].of = msgs[i].calls[k].id
           /\ msgs[i + k].role = "tool" /\ msgs[i + k].calls = <<>>
           /\ msgs[i].role # "tool" /\ msgs[i].of = None
           /\ msgs[i].calls # <<>> /\ msgs[i].calls[k].id # None
           /\ msgs[i].calls[k].id \in AllIds(msgs)
<1>1. /\ i + k \in DOMAIN msgs /\ msgs[i + k].of = msgs[i].calls[k].id
      /\ msgs[i + k].role = "tool"
  BY DEF History, CallsFollowed
<1>2. msgs[i + k].calls = <<>>  BY <1>1 DEF History, ResultsCalled
<1>3. msgs[i].calls # <<>>  OBVIOUS
<1>4. msgs[i].role # "tool"  BY <1>3 DEF History, ResultsCalled
<1>5. msgs[i].of = None  BY <1>4 DEF History, OthersAnswerNone
<1>6. msgs[i].calls[k].id \in AllIds(msgs)  BY IdsKnown
<1>7. msgs[i].calls[k].id # None  BY <1>6, HistoryParts
<1> QED  BY <1>1, <1>2, <1>3, <1>4, <1>5, <1>6, <1>7

\* No call before a place is answered at it or after it.
AnsweredBefore(msgs, a) ==
    \A i \in DOMAIN msgs : i < a => \A k \in DOMAIN msgs[i].calls : i + k < a

\* The messages from such a place on.
LEMMA SuffixHistory ==
    ASSUME NEW msgs, History(msgs), NEW a \in Nat, 1 <= a, a <= Len(msgs) + 1,
           AnsweredBefore(msgs, a)
    PROVE  /\ History(SubSeq(msgs, a, Len(msgs)))
           /\ AllIds(SubSeq(msgs, a, Len(msgs))) \subseteq AllIds(msgs)
<1> DEFINE n == Len(msgs)
           S == a..n
<1>1. /\ msgs \in Seq(Messages) /\ n \in Nat /\ DOMAIN msgs = 1..n
      /\ \A i \in DOMAIN msgs : /\ msgs[i].calls \in Seq(Calls)
                                /\ DOMAIN msgs[i].calls = 1..Len(msgs[i].calls)
                                /\ Len(msgs[i].calls) \in Nat
  BY HistoryParts, MessageParts
<1>2. S \subseteq DOMAIN msgs  BY <1>1
<1>3. ASSUME NEW i \in DOMAIN msgs, i \in S PROVE KeptCalls(msgs, S, i) = DOMAIN msgs[i].calls
  <2>1. ASSUME NEW k \in DOMAIN msgs[i].calls PROVE i + k \in S
    <3>1. i + k \in DOMAIN msgs  BY ResultPlaces
    <3>2. i \in Nat /\ k \in Nat  BY <1>1
    <3> QED  BY <1>1, <1>3, <3>1, <3>2
  <2> QED  BY <2>1 DEF KeptCalls
<1>4. ASSUME NEW i \in DOMAIN msgs, i \notin S PROVE KeptCalls(msgs, S, i) = {}
  <2>1. i < a /\ i \in Nat  BY <1>1, <1>4
  <2>2. ASSUME NEW k \in DOMAIN msgs[i].calls PROVE i + k \notin S
    <3>1. i + k < a /\ k \in Nat  BY <1>1, <2>1 DEF AnsweredBefore
    <3> QED  BY <2>1, <3>1
  <2> QED  BY <2>2 DEF KeptCalls
<1> HIDE DEF S, n
<1>5. Shortened(msgs, S, msgs)
  <2>1. ASSUME NEW i \in DOMAIN msgs
        PROVE  /\ i \in S => msgs[i].calls = Pick(msgs[i].calls, KeptCalls(msgs, S, i))
               /\ KeptCalls(msgs, S, i) # {} => i \in S
    BY <1>1, <1>3, <1>4, PickAll
  <2> QED  BY <1>1, <1>2, <2>1 DEF Shortened
<1>6. Pick(msgs, S) = SubSeq(msgs, a, n)  BY <1>1, PickTail DEF S, n
<1>7. History(SubSeq(msgs, a, n))  BY <1>5, <1>6, ShortenedHistory
<1>8. AllIds(SubSeq(msgs, a, n)) \subseteq AllIds(msgs)
  <2> SUFFICES ASSUME NEW x \in AllIds(Pick(msgs, S)) PROVE x \in AllIds(msgs)  BY <1>6
  <2>1. PICK i \in S : \E k \in KeptCalls(msgs, S, i) : x = msgs[i].calls[k].id
    BY <1>5, ShortenedHistory
  <2> QED  BY <1>2, <2>1, IdsKnown DEF KeptCalls
<1> QED  BY <1>7, <1>8 DEF n

LEMMA WithoutGroupsHistory ==
    ASSUME NEW msgs, History(msgs), NEW drop, drop \subseteq CallIndices(msgs)
    PROVE  /\ History(WithoutGroups(msgs, drop))
           /\ AllIds(WithoutGroups(msgs, drop)) \subseteq AllIds(msgs)
<1> DEFINE gone == UNION { IdsOf(msgs[i].calls) : i \in drop }
           S == { i \in DOMAIN msgs : i \notin drop /\ msgs[i].of \notin gone }
<1>1. /\ msgs \in Seq(Messages)
      /\ \A i \in DOMAIN msgs : msgs[i].calls \in Seq(Calls)
  BY HistoryParts, MessageParts
<1>2. drop \subseteq DOMAIN msgs /\ \A i \in drop : msgs[i].calls # <<>>  BY DEF CallIndices
<1>3. \A x : x \in gone <=> \E j \in drop : \E l \in DOMAIN msgs[j].calls : x = msgs[j].calls[l].id
  BY DEF IdsOf
<1>4. S \subseteq DOMAIN msgs /\ WithoutGroups(msgs, drop) = Pick(msgs, S)  BY DEF WithoutGroups
<1>5. \A i \in DOMAIN msgs : i \in S <=> i \notin drop /\ msgs[i].of \notin gone  OBVIOUS
<1> HIDE DEF S, gone
<1>6. ASSUME NEW i \in DOMAIN msgs, i \notin drop
      PROVE  i \in S \/ DOMAIN msgs[i].calls = {}
  <2> SUFFICES ASSUME NEW k \in DOMAIN msgs[i].calls PROVE i \in S  OBVIOUS
  <2>1. msgs[i].of = None  BY ResultPlaces
  <2>2. None \notin gone
    <3> SUFFICES ASSUME NEW j \in drop, NEW l \in DOMAIN msgs[j].calls
                 PROVE  msgs[j].calls[l].id # None
      BY <1>3
    <3> QED  BY <1>2, ResultPlaces
  <2> QED  BY <1>5, <1>6, <2>1, <2>2
<1>7. ASSUME NEW i \in DOMAIN msgs, i \notin drop
      PROVE  KeptCalls(msgs, S, i) = DOMAIN msgs[i].calls
  <2> SUFFICES ASSUME NEW k \in DOMAIN msgs[i].calls PROVE i + k \in S  BY DEF KeptCalls
  <2>1. i + k \in DOMAIN msgs /\ msgs[i + k].of = msgs[i].calls[k].id /\ msgs[i + k].calls = <<>>
    BY ResultPlaces
  <2>2. i + k \notin drop  BY <1>2, <2>1
  <2>3. msgs[i].calls[k].id \notin gone
    <3> SUFFICES ASSUME NEW j \in drop, NEW l \in DOMAIN msgs[j].calls,
                        msgs[i].calls[k].id = msgs[j].calls[l].id
                 PROVE  FALSE
      BY <1>3
    <3>1. i = j  BY <1>2 DEF History, CallsDiffer
    <3> QED  BY <1>7, <3>1
  <2> QED  BY <1>5, <2>1, <2>2, <2>3
<1>8. ASSUME NEW i \in drop PROVE KeptCalls(msgs, S, i) = {}
  <2> SUFFICES ASSUME NEW k \in DOMAIN msgs[i].calls PROVE i + k \notin S  BY DEF KeptCalls
  <2>1. i + k \in DOMAIN msgs /\ msgs[i + k].of = msgs[i].calls[k].id  BY <1>2, ResultPlaces
  <2>2. msgs[i].calls[k].id \in gone  BY <1>3
  <2> QED  BY <1>5, <2>1, <2>2
<1>9. Shortened(msgs, S, msgs)
  <2>1. ASSUME NEW i \in DOMAIN msgs
        PROVE  /\ i \in S => msgs[i].calls = Pick(msgs[i].calls, KeptCalls(msgs, S, i))
               /\ KeptCalls(msgs, S, i) # {} => i \in S
    <3>1. CASE i \in drop  BY <1>5, <1>8, <3>1
    <3>2. CASE i \notin drop  BY <1>1, <1>6, <1>7, <3>2, PickAll
    <3> QED  BY <3>1, <3>2
  <2> QED  BY <1>1, <1>4, <2>1 DEF Shortened
<1>10. History(WithoutGroups(msgs, drop))  BY <1>4, <1>9, ShortenedHistory
<1>11. AllIds(WithoutGroups(msgs, drop)) \subseteq AllIds(msgs)
  <2> SUFFICES ASSUME NEW x \in AllIds(Pick(msgs, S)) PROVE x \in AllIds(msgs)  BY <1>4
  <2>1. PICK i \in S : \E k \in KeptCalls(msgs, S, i) : x = msgs[i].calls[k].id
    BY <1>9, ShortenedHistory
  <2> QED  BY <1>4, <2>1, IdsKnown DEF KeptCalls
<1> QED  BY <1>10, <1>11

LEMMA TodoIdsKnown ==
    ASSUME NEW msgs
    PROVE  \A x : x \in TodoIds(msgs) <=>
               \E i \in DOMAIN msgs : \E k \in DOMAIN msgs[i].calls :
                   msgs[i].calls[k].tool = Todo /\ x = msgs[i].calls[k].id
BY DEF TodoIds, Range

LEMMA StripHistory ==
    ASSUME NEW msgs, History(msgs)
    PROVE  /\ History(Strip(msgs))
           /\ AllIds(Strip(msgs)) \subseteq AllIds(msgs) \ TodoIds(msgs)
           /\ \A i \in DOMAIN Strip(msgs) : ~HasTodo(Strip(msgs)[i])
           /\ Told(Strip(msgs)) \subseteq Told(msgs)
<1> DEFINE ids  == TodoIds(msgs)
           rest == [i \in DOMAIN msgs |-> With(msgs[i], Others(msgs[i].calls, ids))]
           Stays(i) == /\ msgs[i].of \notin ids
                       /\ msgs[i].calls # <<>> /\ rest[i].calls = <<>> => msgs[i].says
           S == { i \in DOMAIN msgs : Stays(i) }
           Kept(i) == { k \in DOMAIN msgs[i].calls : msgs[i].calls[k].id \notin ids }
<1>1. Strip(msgs) = Pick(rest, S) /\ S \subseteq DOMAIN msgs  BY DEF Strip
<1>2. /\ msgs \in Seq(Messages) /\ Len(msgs) \in Nat /\ DOMAIN msgs = 1..Len(msgs)
      /\ \A i \in DOMAIN msgs : msgs[i] \in Messages /\ msgs[i].calls \in Seq(Calls)
  BY HistoryParts, MessageParts
<1>3. ASSUME NEW i \in DOMAIN msgs
      PROVE  Others(msgs[i].calls, ids) \in Seq(Calls)
  <2>1. Kept(i) \subseteq DOMAIN msgs[i].calls  OBVIOUS
  <2> HIDE DEF ids
  <2> QED  BY <1>2, <2>1, PickProperties DEF Others
<1>4. ASSUME NEW i \in DOMAIN msgs
      PROVE  /\ rest[i] \in Messages /\ rest[i].role = msgs[i].role /\ rest[i].of = msgs[i].of
             /\ rest[i].calls = Pick(msgs[i].calls, Kept(i)) /\ rest[i].tells = msgs[i].tells
  <2>1. rest[i] = With(msgs[i], Others(msgs[i].calls, ids))  OBVIOUS
  <2>2. Others(msgs[i].calls, ids) = Pick(msgs[i].calls, Kept(i))  BY DEF Others
  <2> HIDE DEF ids, rest, Kept
  <2> QED  BY <1>2, <1>3, <2>1, <2>2, WithParts
<1>5. rest \in Seq(Messages) /\ Len(rest) = Len(msgs) /\ DOMAIN rest = DOMAIN msgs
  <2>1. DOMAIN rest = DOMAIN msgs /\ rest = [i \in DOMAIN rest |-> rest[i]]  OBVIOUS
  <2> HIDE DEF rest
  <2>2. rest \in [1..Len(msgs) -> Messages]  BY <1>2, <1>4, <2>1
  <2> QED  BY <1>2, <2>1, <2>2
<1>6. None \notin ids  BY HistoryParts, TodoIdsKnown, IdsKnown
<1>7. \A i \in DOMAIN msgs : i \in S <=> Stays(i)  OBVIOUS
<1>70. /\ \A i \in DOMAIN msgs : Stays(i) => msgs[i].of \notin ids
       /\ \A i \in DOMAIN msgs :
             msgs[i].of \notin ids /\ (msgs[i].calls = <<>> \/ rest[i].calls # <<>>) => Stays(i)
  OBVIOUS
<1>71. \A i \in DOMAIN msgs : \A k \in DOMAIN msgs[i].calls :
           k \in Kept(i) <=> msgs[i].calls[k].id \notin ids
  OBVIOUS
<1>72. \A i \in DOMAIN msgs : Kept(i) \subseteq DOMAIN msgs[i].calls  OBVIOUS
<1> HIDE DEF ids, rest, Stays, S, Kept
<1>8. ASSUME NEW i \in DOMAIN msgs PROVE KeptCalls(msgs, S, i) = Kept(i)
  <2> SUFFICES ASSUME NEW k \in DOMAIN msgs[i].calls PROVE i + k \in S <=> k \in Kept(i)
    BY <1>72 DEF KeptCalls
  <2>1. i + k \in DOMAIN msgs /\ msgs[i + k].of = msgs[i].calls[k].id /\ msgs[i + k].calls = <<>>
    BY ResultPlaces
  <2> QED  BY <1>7, <1>70, <1>71, <2>1
<1>9. ASSUME NEW i \in DOMAIN msgs, KeptCalls(msgs, S, i) # {} PROVE i \in S
  <2>1. PICK k \in DOMAIN msgs[i].calls : k \in Kept(i)  BY <1>8, <1>9, <1>72
  <2>2. msgs[i].of \notin ids  BY <1>6, ResultPlaces
  <2>3. rest[i].calls # <<>>
    <3>1. Rank(Kept(i), k) \in 1..Cardinality(Kept(i))  BY <1>2, <1>72, <2>1, PickProperties
    <3>2. DOMAIN rest[i].calls = 1..Cardinality(Kept(i))  BY <1>4 DEF Pick
    <3>3. DOMAIN <<>> = {}  OBVIOUS
    <3> QED  BY ONLY <3>1, <3>2, <3>3
  <2> QED  BY <1>7, <1>70, <2>2, <2>3
<1>10. Shortened(msgs, S, rest)  BY <1>1, <1>4, <1>5, <1>8, <1>9 DEF Shortened
<1>11. History(Strip(msgs))  BY <1>1, <1>10, ShortenedHistory
<1>12. ASSUME NEW x \in AllIds(Strip(msgs)) PROVE x \in AllIds(msgs) \ ids
  <2>1. PICK i \in S : \E k \in KeptCalls(msgs, S, i) : x = msgs[i].calls[k].id
    BY <1>1, <1>10, ShortenedHistory
  <2>2. PICK k \in KeptCalls(msgs, S, i) : x = msgs[i].calls[k].id  BY <2>1
  <2>3. i \in DOMAIN msgs /\ k \in DOMAIN msgs[i].calls /\ k \in Kept(i)
    BY <1>1, <1>8, <1>72
  <2> QED  BY <1>71, <2>2, <2>3, IdsKnown
<1>13. ASSUME NEW r \in DOMAIN Strip(msgs) PROVE ~HasTodo(Strip(msgs)[r])
  <2> SUFFICES ASSUME NEW l \in DOMAIN Strip(msgs)[r].calls
               PROVE  Strip(msgs)[r].calls[l].tool # Todo
    BY DEF HasTodo
  <2>1. PICK i \in S : Strip(msgs)[r] = rest[i]  BY <1>1, <1>10, PlacesHold
  <2>2. PICK k \in KeptCalls(msgs, S, i) : rest[i].calls[l] = msgs[i].calls[k]
    BY <1>10, <2>1, PlacesHold
  <2>3. i \in DOMAIN msgs /\ k \in DOMAIN msgs[i].calls /\ k \in Kept(i)
    BY <1>1, <1>8, <1>72
  <2>4. msgs[i].calls[k].id \notin ids  BY <1>71, <2>3
  <2> QED  BY <2>1, <2>2, <2>3, <2>4, TodoIdsKnown DEF ids
<1>14. \A m \in Range(Strip(msgs)) : \E n \in Range(msgs) :
          m.role = n.role /\ m.of = n.of /\ m.tells = n.tells
  <2> SUFFICES ASSUME NEW r \in DOMAIN Strip(msgs)
               PROVE  \E j \in DOMAIN msgs : /\ Strip(msgs)[r].role = msgs[j].role
                                             /\ Strip(msgs)[r].of = msgs[j].of
                                             /\ Strip(msgs)[r].tells = msgs[j].tells
    BY DEF Range
  <2>1. PICK i \in S : Strip(msgs)[r] = rest[i]  BY <1>1, <1>10, PlacesHold
  <2> QED  BY <1>1, <1>4, <2>1
<1>15. Told(Strip(msgs)) \subseteq Told(msgs)
  <2> DEFINE h == Strip(msgs)
  <2> HIDE DEF h
  <2>1. \A m \in Range(h) : \E n \in Range(msgs) : m.role = n.role /\ m.of = n.of /\ m.tells = n.tells
    BY <1>14 DEF h
  <2>2. Told(h) \subseteq Told(msgs)  BY <2>1 DEF Told, ResultsIn
  <2> QED  BY <2>2 DEF h
<1> QED  BY <1>11, <1>12, <1>13, <1>15 DEF ids

LEMMA LastTodo ==
    ASSUME NEW msgs, History(msgs)
    PROVE  LET at == SelectLastInSeq(msgs, HasTodo)
           IN \/ at = 0 /\ \A i \in DOMAIN msgs : ~HasTodo(msgs[i])
              \/ /\ at \in DOMAIN msgs /\ HasTodo(msgs[at])
                 /\ \A i \in DOMAIN msgs : HasTodo(msgs[i]) => i <= at
<1> DEFINE I == { i \in 1..Len(msgs) : HasTodo(msgs[i]) }
<1>1. Len(msgs) \in Nat /\ DOMAIN msgs = 1..Len(msgs)  BY HistoryParts
<1>2. SelectLastInSeq(msgs, HasTodo) = IF I # {} THEN Max(I) ELSE 0
  BY DEF SelectLastInSeq
<1>3. I # {} => Max(I) \in I /\ \A y \in I : y <= Max(I)
  <2>1. I # {} => \E x \in I : \A y \in I : y <= x
    <3>1. I \subseteq 0..Len(msgs)  BY <1>1
    <3> HIDE DEF I
    <3> QED  BY <1>1, <3>1, Greatest
  <2>2. I # {} => \E x \in I : \A y \in I : x >= y  BY <1>1, <2>1
  <2>3. I # {} => Max(I) \in I /\ \A y \in I : Max(I) >= y
    <3> HIDE DEF I
    <3> QED  BY <2>2 DEF Max
  <2> QED  BY <1>1, <2>3
<1> QED  BY <1>1, <1>2, <1>3

LEMMA FirstCall ==
    ASSUME NEW msgs, History(msgs)
    PROVE  LET call == SelectInSeq(msgs, LAMBDA m : m.calls # <<>>)
           IN \/ call = 0 /\ \A i \in DOMAIN msgs : msgs[i].calls = <<>>
              \/ call \in CallIndices(msgs)
<1> DEFINE I == { i \in 1..Len(msgs) : msgs[i].calls # <<>> }
<1>1. Len(msgs) \in Nat /\ DOMAIN msgs = 1..Len(msgs)  BY HistoryParts
<1>2. SelectInSeq(msgs, LAMBDA m : m.calls # <<>>) = IF I # {} THEN Min(I) ELSE 0
  BY DEF SelectInSeq
<1>3. I # {} => Min(I) \in I
  <2>1. I # {} => \E x \in I : \A y \in I : x <= y
    <3>1. I \subseteq Nat  BY <1>1
    <3> HIDE DEF I
    <3> QED  BY <1>1, <3>1, Least
  <2> HIDE DEF I
  <2> QED  BY <2>1 DEF Min
<1> QED  BY <1>1, <1>2, <1>3 DEF CallIndices

LEMMA FirstTodo ==
    ASSUME NEW calls \in Seq(Calls), \E k \in DOMAIN calls : calls[k].tool = Todo
    PROVE  LET k == SelectInSeq(calls, LAMBDA c : c.tool = Todo)
           IN k \in DOMAIN calls /\ calls[k].tool = Todo
<1> DEFINE I == { i \in 1..Len(calls) : calls[i].tool = Todo }
<1>1. Len(calls) \in Nat /\ DOMAIN calls = 1..Len(calls)  OBVIOUS
<1>2. SelectInSeq(calls, LAMBDA c : c.tool = Todo) = IF I # {} THEN Min(I) ELSE 0
  BY DEF SelectInSeq
<1>3. I # {} => Min(I) \in I
  <2>1. I # {} => \E x \in I : \A y \in I : x <= y
    <3>1. I \subseteq Nat  BY <1>1
    <3> HIDE DEF I
    <3> QED  BY <1>1, <3>1, Least
  <2> HIDE DEF I
  <2> QED  BY <2>1 DEF Min
<1> QED  BY <1>1, <1>2, <1>3

\* The first message after a place that answers a call.
FirstReply(msgs, at, x) == SelectInSubSeq(msgs, at + 1, Len(msgs), LAMBDA m : m.of = x)

LEMMA ReplyTo ==
    ASSUME NEW msgs, History(msgs), NEW at \in DOMAIN msgs, NEW x
    PROVE  LET reply == FirstReply(msgs, at, x)
           IN \/ reply = 0 /\ \A i \in DOMAIN msgs : at < i => msgs[i].of # x
              \/ /\ reply \in DOMAIN msgs /\ at < reply /\ msgs[reply].of = x
                 /\ \A i \in DOMAIN msgs : at < i /\ msgs[i].of = x => reply <= i
<1> DEFINE I == { i \in (at + 1)..Len(msgs) : msgs[i].of = x }
<1>1. Len(msgs) \in Nat /\ DOMAIN msgs = 1..Len(msgs) /\ at \in Nat  BY HistoryParts
<1>2. FirstReply(msgs, at, x) = IF I # {} THEN Min(I) ELSE 0
  BY DEF SelectInSubSeq, FirstReply
<1>3. I # {} => Min(I) \in I /\ \A y \in I : Min(I) <= y
  <2>1. I # {} => \E y \in I : \A z \in I : y <= z
    <3>1. I \subseteq Nat  BY <1>1
    <3> HIDE DEF I
    <3> QED  BY <1>1, <3>1, Least
  <2> HIDE DEF I
  <2> QED  BY <2>1 DEF Min
<1>4. \A i \in DOMAIN msgs : at < i => i \in (at + 1)..Len(msgs)  BY <1>1
<1>5. CASE I = {}
  <2>1. \A i \in DOMAIN msgs : at < i => msgs[i].of # x  BY <1>4, <1>5
  <2> HIDE DEF I
  <2> QED  BY <1>2, <1>5, <2>1
<1>6. CASE I # {}
  <2> DEFINE reply == FirstReply(msgs, at, x)
  <2>1. reply = Min(I)  BY <1>2, <1>6
  <2>2. Min(I) \in DOMAIN msgs /\ at < Min(I) /\ msgs[Min(I)].of = x  BY <1>1, <1>3, <1>6
  <2>3. \A i \in DOMAIN msgs : at < i /\ msgs[i].of = x => Min(I) <= i  BY <1>3, <1>4, <1>6
  <2> HIDE DEF I, reply
  <2> QED  BY <2>1, <2>2, <2>3 DEF reply
<1> QED  BY <1>5, <1>6

\* The first write_todo of a message.
TodoOf(m) == m.calls[SelectInSeq(m.calls, LAMBDA c : c.tool = Todo)]

LEMMA TodoOfKnown ==
    ASSUME NEW msgs, History(msgs), NEW i \in DOMAIN msgs, HasTodo(msgs[i])
    PROVE  /\ TodoOf(msgs[i]) \in Calls /\ TodoOf(msgs[i]).tool = Todo
           /\ TodoOf(msgs[i]).id \in TodoIds(msgs) /\ TodoOf(msgs[i]).id \in AllIds(msgs)
           /\ \E p \in DOMAIN msgs : i < p /\ msgs[p].of = TodoOf(msgs[i]).id
<1> DEFINE k == SelectInSeq(msgs[i].calls, LAMBDA c : c.tool = Todo)
<1>1. msgs[i].calls \in Seq(Calls)  BY HistoryParts, MessageParts
<1>2. k \in DOMAIN msgs[i].calls /\ msgs[i].calls[k].tool = Todo  BY <1>1, FirstTodo DEF HasTodo
<1>3. TodoOf(msgs[i]) = msgs[i].calls[k]  BY DEF TodoOf
<1> HIDE DEF k
<1>4. i + k \in DOMAIN msgs /\ msgs[i + k].of = msgs[i].calls[k].id /\ i < i + k
  <2>1. i \in Nat /\ k \in Nat /\ 0 < k  BY <1>1, <1>2, HistoryParts
  <2> QED  BY <1>2, <2>1, ResultPlaces
<1>5. msgs[i].calls[k] \in Calls  BY <1>1, <1>2
<1> QED  BY <1>2, <1>3, <1>4, <1>5, TodoIdsKnown, IdsKnown

LEMMA LastPairHistory ==
    ASSUME NEW msgs, History(msgs)
    PROVE  /\ History(LastPair(msgs)) /\ AllIds(LastPair(msgs)) \subseteq TodoIds(msgs)
           /\ \/ /\ LastPair(msgs) = <<>> /\ Plan(msgs) = None
                 /\ \A i \in DOMAIN msgs : ~HasTodo(msgs[i])
              \/ \E at, reply \in DOMAIN msgs :
                    /\ HasTodo(msgs[at]) /\ \A i \in DOMAIN msgs : HasTodo(msgs[i]) => i <= at
                    /\ LastPair(msgs) = <<Asking(<<TodoOf(msgs[at])>>, FALSE), msgs[reply]>>
                    /\ Plan(msgs) = TodoOf(msgs[at]).id
<1> DEFINE at == SelectLastInSeq(msgs, HasTodo)
           todo == TodoOf(msgs[at])
           reply == FirstReply(msgs, at, todo.id)
<1>1. \/ at = 0 /\ \A i \in DOMAIN msgs : ~HasTodo(msgs[i])
      \/ /\ at \in DOMAIN msgs /\ HasTodo(msgs[at])
         /\ \A i \in DOMAIN msgs : HasTodo(msgs[i]) => i <= at
  BY LastTodo
<1>2. LastPair(msgs) = IF at = 0 THEN <<>>
                       ELSE IF reply = 0 THEN <<>> ELSE <<Asking(<<todo>>, FALSE), msgs[reply]>>
  BY DEF LastPair, TodoOf, FirstReply
<1>3. CASE at = 0
  <2>0. 0 \notin DOMAIN msgs  BY HistoryParts
  <2>1. LastPair(msgs) = <<>>  BY <1>2, <1>3
  <2>2. Plan(msgs) = None  BY <2>1 DEF Plan
  <2>3. \A i \in DOMAIN msgs : ~HasTodo(msgs[i])  BY <1>1, <1>3, <2>0
  <2> QED  BY <2>1, <2>2, <2>3, EmptyHistory
<1>4. CASE at # 0
  <2>1. /\ at \in DOMAIN msgs /\ HasTodo(msgs[at])
        /\ \A i \in DOMAIN msgs : HasTodo(msgs[i]) => i <= at
    BY <1>1, <1>4
  <2>2. /\ todo \in Calls /\ todo.tool = Todo /\ todo.id \in TodoIds(msgs)
        /\ todo.id \in AllIds(msgs)
        /\ \E p \in DOMAIN msgs : at < p /\ msgs[p].of = todo.id
    BY <2>1, TodoOfKnown
  <2>3. /\ reply \in DOMAIN msgs /\ msgs[reply].of = todo.id
    <3> HIDE DEF at, todo
    <3> QED  BY <2>1, <2>2, ReplyTo
  <2>4. 0 \notin DOMAIN msgs  BY HistoryParts
  <2>5. LastPair(msgs) = <<Asking(<<todo>>, FALSE), msgs[reply]>>
    <3> HIDE DEF at, todo, reply
    <3> QED  BY <1>2, <1>4, <2>3, <2>4
  <2>6. msgs[reply] \in Messages /\ msgs[reply].role = "tool" /\ msgs[reply].calls = <<>>
    <3> HIDE DEF at, todo, reply
    <3>1. msgs[reply].of # None  BY <2>2, <2>3, HistoryParts
    <3>2. msgs[reply].role = "tool"  BY <2>3, <3>1 DEF History, OthersAnswerNone
    <3> QED  BY <2>3, <3>2, HistoryParts DEF History, ResultsCalled
  <2>7. Plan(msgs) = todo.id
    <3> HIDE DEF at, todo, reply
    <3> DEFINE ask == Asking(<<todo>>, FALSE)
    <3>1. ask.calls = <<todo>>  BY DEF Asking, Message
    <3> HIDE DEF ask
    <3>2. LastPair(msgs) = <<ask, msgs[reply]>>  BY <2>5 DEF ask
    <3>3. LastPair(msgs) # <<>> /\ LastPair(msgs)[1] = ask  BY <3>2
    <3>4. ask.calls[1] = todo  BY <3>1
    <3> QED  BY <3>3, <3>4 DEF Plan
  <2>8. /\ History(LastPair(msgs))
        /\ \A x : x \in AllIds(LastPair(msgs)) => x = todo.id
    <3> DEFINE calls == <<todo>>
               answers == <<msgs[reply]>>
               ask == Asking(calls, FALSE)
    <3>1. calls \in Seq(Calls) /\ DOMAIN calls = {1} /\ calls[1] = todo  BY <2>2
    <3>2. answers \in Seq(Messages) /\ DOMAIN answers = {1} /\ answers[1] = msgs[reply]  BY <2>6
    <3>3. LastPair(msgs) = <<ask>> \o answers
      <4> HIDE DEF at, todo, reply
      <4>1. LastPair(msgs) = <<ask, msgs[reply]>>  BY <2>5
      <4> HIDE DEF ask
      <4>2. <<ask, msgs[reply]>> = <<ask>> \o answers  OBVIOUS
      <4> QED  BY <4>1, <4>2
    <3> HIDE DEF at, todo, reply, calls, answers
    <3>4. ask \in Messages /\ ask.role # "tool" /\ ask.calls = calls /\ ask.of = None
      BY <3>1, AskingParts
    <3> HIDE DEF ask
    <3>5. \A k, l \in DOMAIN calls : calls[k].id = calls[l].id => k = l  BY <3>1
    <3>6. \A k \in DOMAIN calls : /\ answers[k].role = "tool" /\ answers[k].calls = <<>>
                                  /\ answers[k].of = calls[k].id
      BY <2>3, <2>6, <3>1, <3>2
    <3>7. /\ History(<<ask>> \o answers)
          /\ \A x : x \in AllIds(<<ask>> \o answers) <=> \E k \in DOMAIN calls : x = calls[k].id
      BY <3>1, <3>2, <3>4, <3>5, <3>6, GroupHistory
    <3> QED  BY <3>1, <3>3, <3>7
  <2>9. AllIds(LastPair(msgs)) \subseteq TodoIds(msgs)  BY <2>2, <2>8
  <2> HIDE DEF at, todo, reply
  <2>10. \E a, r \in DOMAIN msgs :
            /\ HasTodo(msgs[a]) /\ \A i \in DOMAIN msgs : HasTodo(msgs[i]) => i <= a
            /\ LastPair(msgs) = <<Asking(<<TodoOf(msgs[a])>>, FALSE), msgs[r]>>
            /\ Plan(msgs) = TodoOf(msgs[a]).id
    BY <2>1, <2>3, <2>5, <2>7 DEF todo
  <2> QED  BY <2>8, <2>9, <2>10
<1> QED  BY <1>3, <1>4

\* The plan of two stretches is that of the later one that has one.
LEMMA JoinedPlan ==
    ASSUME NEW a, NEW b, History(a), History(b), History(a \o b)
    PROVE  /\ (\E i \in DOMAIN b : HasTodo(b[i])) => Plan(a \o b) = Plan(b)
           /\ (\A i \in DOMAIN b : ~HasTodo(b[i])) => Plan(a \o b) = Plan(a)
<1> DEFINE c == a \o b
           m == Len(a)
<1>1. a \in Seq(Messages) /\ b \in Seq(Messages)  BY DEF History
<1>2. /\ m \in Nat /\ DOMAIN a = 1..m
      /\ \A i \in DOMAIN a : i \in DOMAIN c /\ c[i] = a[i]
      /\ \A i \in DOMAIN b : m + i \in DOMAIN c /\ c[m + i] = b[i]
      /\ \A p \in DOMAIN c : \/ p \in DOMAIN a /\ c[p] = a[p]
                             \/ \E i \in DOMAIN b : p = m + i /\ c[p] = b[i]
      /\ \A i \in DOMAIN b : i \in Nat /\ 1 <= i
  BY <1>1, JoinedPlaces
<1> DEFINE LastOf(s, at) == /\ at \in DOMAIN s /\ HasTodo(s[at])
                            /\ \A i \in DOMAIN s : HasTodo(s[i]) => i <= at
                            /\ Plan(s) = TodoOf(s[at]).id
           NoneOf(s) == Plan(s) = None /\ \A i \in DOMAIN s : ~HasTodo(s[i])
<1>3. /\ NoneOf(a) \/ \E at \in DOMAIN a : LastOf(a, at)
      /\ NoneOf(b) \/ \E at \in DOMAIN b : LastOf(b, at)
      /\ NoneOf(c) \/ \E at \in DOMAIN c : LastOf(c, at)
  BY LastPairHistory
<1> HIDE DEF c, m
<1>4. CASE \E i \in DOMAIN b : HasTodo(b[i])
  <2>1. PICK j \in DOMAIN b : LastOf(b, j)  BY <1>3, <1>4
  <2>2. m + j \in DOMAIN c /\ HasTodo(c[m + j])  BY <1>2, <2>1
  <2>3. PICK at \in DOMAIN c : LastOf(c, at)  BY <1>3, <2>2
  <2>4. m + j <= at  BY <2>2, <2>3
  <2>5. at \notin DOMAIN a  BY <1>2, <2>1, <2>4
  <2>6. PICK i \in DOMAIN b : at = m + i /\ c[at] = b[i]  BY <1>2, <2>3, <2>5
  <2>7. i <= j /\ j <= i  BY <1>2, <2>1, <2>3, <2>4, <2>6
  <2>8. i = j  BY <1>2, <2>1, <2>6, <2>7
  <2> QED  BY <1>4, <2>1, <2>3, <2>6, <2>8 DEF c
<1>5. CASE \A i \in DOMAIN b : ~HasTodo(b[i])
  <2>1. CASE NoneOf(c)
    <3>1. NoneOf(a)  BY <1>2, <1>3, <2>1
    <3> QED  BY <1>5, <2>1, <3>1 DEF c
  <2>2. ASSUME NEW at \in DOMAIN c, LastOf(c, at) PROVE Plan(c) = Plan(a)
    <3>1. at \in DOMAIN a /\ c[at] = a[at]  BY <1>2, <1>5, <2>2
    <3>2. PICK j \in DOMAIN a : LastOf(a, j)  BY <1>3, <2>2, <3>1
    <3>3. at <= j /\ j <= at  BY <1>2, <2>2, <3>1, <3>2
    <3>4. at = j  BY <1>2, <3>1, <3>2, <3>3
    <3> QED  BY <2>2, <3>1, <3>2, <3>4
  <2> QED  BY <1>3, <1>5, <2>1, <2>2 DEF c
<1> QED  BY <1>4, <1>5

LEMMA PairPlan ==
    ASSUME NEW msgs, History(msgs)
    PROVE  /\ Plan(LastPair(msgs)) = Plan(msgs)
           /\ (\A i \in DOMAIN LastPair(msgs) : ~HasTodo(LastPair(msgs)[i])) => Plan(msgs) = None
<1> DEFINE P == LastPair(msgs)
<1>1. History(P)  BY LastPairHistory
<1>2. CASE P = <<>> /\ Plan(msgs) = None
  <2>1. Plan(P) = None
    <3>1. DOMAIN P = {}  BY <1>2
    <3> HIDE DEF P
    <3> QED  BY <1>1, <3>1, LastPairHistory
  <2> QED  BY <1>2, <2>1
<1>3. ASSUME NEW at \in DOMAIN msgs, NEW reply \in DOMAIN msgs, HasTodo(msgs[at]),
             P = <<Asking(<<TodoOf(msgs[at])>>, FALSE), msgs[reply]>>,
             Plan(msgs) = TodoOf(msgs[at]).id
      PROVE  Plan(P) = Plan(msgs) /\ \E i \in DOMAIN P : HasTodo(P[i])
  <2> DEFINE todo == TodoOf(msgs[at])
             calls == <<todo>>
             ask == Asking(calls, FALSE)
  <2>1. todo \in Calls /\ todo.tool = Todo  BY <1>3, TodoOfKnown
  <2>2. calls \in Seq(Calls) /\ DOMAIN calls = {1} /\ calls[1] = todo  BY <2>1
  <2>3. ask.calls = calls  BY <2>2, AskingParts
  <2>4. P = <<ask, msgs[reply]>>  BY <1>3
  <2> HIDE DEF P, todo, calls, ask
  <2>5. 1 \in DOMAIN P /\ P[1] = ask /\ DOMAIN P = {1, 2}  BY <2>4
  <2>6. HasTodo(ask)  BY <2>1, <2>2, <2>3 DEF HasTodo
  <2>7. TodoOf(ask) = todo
    <3>1. SelectInSeq(calls, LAMBDA c : c.tool = Todo) \in DOMAIN calls
      BY <2>1, <2>2, FirstTodo
    <3> QED  BY <2>2, <2>3, <3>1 DEF TodoOf
  <2>8. ~HasTodo(P[2])
    <3>1. P[2] = msgs[reply] /\ 2 \in DOMAIN P  BY <2>4, <2>5
    <3>2. 1 + 1 \in DOMAIN P /\ 1 \in DOMAIN P[1].calls  BY <2>2, <2>3, <2>5
    <3>3. P[1 + 1].calls = <<>>  BY <1>1, <2>5, <3>2, ResultPlaces
    <3>4. P[2].calls = <<>>  BY <3>3
    <3> QED  BY <3>4 DEF HasTodo
  <2>9. PICK a \in DOMAIN P : HasTodo(P[a]) /\ Plan(P) = TodoOf(P[a]).id
    BY <1>1, <2>5, <2>6, LastPairHistory
  <2>10. a = 1  BY <2>5, <2>8, <2>9
  <2> QED  BY <1>3, <2>5, <2>6, <2>7, <2>9, <2>10 DEF todo
<1> QED  BY <1>2, <1>3, LastPairHistory

LEMMA HistoryTells ==
    ASSUME NEW msgs, History(msgs)
    PROVE  ResultsIn(msgs) \subseteq Told(msgs) /\ Told(msgs) \in SUBSET Ids
<1>1. \A m \in Range(msgs) : m \in Messages  BY HistoryParts DEF Range
<1>2. \A m \in Range(msgs) : m.tells \subseteq Ids  BY <1>1, MessageParts
<1>3. ResultsIn(msgs) \subseteq Ids  BY HistoryParts
<1> QED  BY <1>2, <1>3 DEF Told

\* A message that tells so much, and the plan.
LEMMA NotedPlan ==
    ASSUME NEW msgs, History(msgs), NEW tells \in SUBSET Ids
    PROVE  LET kept == <<Note(tells)>> \o LastPair(msgs)
           IN /\ History(kept) /\ AllIds(kept) \subseteq TodoIds(msgs)
              /\ Plan(kept) = Plan(msgs) /\ tells \subseteq Told(kept)
<1> DEFINE N == <<Note(tells)>>
           P == LastPair(msgs)
<1>1. /\ History(N) /\ AllIds(N) = {} /\ Told(N) = tells
      /\ DOMAIN N = {1} /\ N[1].calls = <<>>
  <2>1. Note(tells).calls = <<>>  BY DEF Note, Message
  <2>2. History(N) /\ AllIds(N) = {} /\ Told(N) = tells  BY NoteHistory
  <2>3. DOMAIN N = {1} /\ N[1] = Note(tells)  OBVIOUS
  <2> QED  BY <2>1, <2>2, <2>3
<1>2. History(P) /\ AllIds(P) \subseteq TodoIds(msgs) /\ Plan(P) = Plan(msgs)
  BY LastPairHistory, PairPlan
<1>20. (\A i \in DOMAIN P : ~HasTodo(P[i])) => Plan(msgs) = None  BY PairPlan
<1> HIDE DEF N, P
<1>3. History(N \o P) /\ AllIds(N \o P) = AllIds(N) \cup AllIds(P)  BY <1>1, <1>2, JoinedHistory
<1>4. Told(N \o P) = Told(N) \cup Told(P)  BY <1>1, <1>2, JoinedTelling DEF History
<1>5. Plan(N) = None
  <2>1. \A i \in DOMAIN N : ~HasTodo(N[i])  BY <1>1 DEF HasTodo
  <2> QED  BY <1>1, <2>1, LastPairHistory
<1>6. Plan(N \o P) = Plan(msgs)
  <2>1. CASE \E i \in DOMAIN P : HasTodo(P[i])  BY <1>1, <1>2, <1>3, <2>1, JoinedPlan
  <2>2. CASE \A i \in DOMAIN P : ~HasTodo(P[i])
    <3>1. Plan(N \o P) = Plan(N)  BY <1>1, <1>2, <1>3, <2>2, JoinedPlan
    <3> QED  BY <1>5, <1>20, <2>2, <3>1
  <2> QED  BY <2>1, <2>2
<1> QED  BY <1>1, <1>2, <1>3, <1>4, <1>6 DEF N, P

LEMMA SizeOfCompaction ==
    ASSUME NEW total \in Nat, total >= 3
    PROVE  CompactSize(total) + 1 \in 1..total
<1> DEFINE fifth == (2 * total + 5) \div 10
<1>1. fifth \in Int  OBVIOUS
<1> HIDE DEF fifth
<1>2. AtLeast(fifth, 2) \in Int /\ AtLeast(fifth, 2) >= 2  BY <1>1 DEF AtLeast
<1>3. AtMost(AtLeast(fifth, 2), total - 1) \in 1..(total - 1)  BY <1>2 DEF AtMost
<1> QED  BY <1>3 DEF CompactSize, fifth

\* The message the summary ends before.
LEMMA CompactionPlace ==
    ASSUME NEW msgs, History(msgs), CanCompact(msgs)
    PROVE  LET h == Strip(msgs)
               idx == CallIndex(h, CompactSize(Cardinality(CallIndices(h))) + 1)
           IN idx \in CallIndices(h) /\ idx \in DOMAIN h
<1> DEFINE h == Strip(msgs)
           C == CallIndices(h)
<1>1. History(h)  BY StripHistory
<1> HIDE DEF h
<1>2. C \subseteq 1..Len(h) /\ Len(h) \in Nat /\ DOMAIN h = 1..Len(h)
  BY <1>1, HistoryParts DEF CallIndices
<1>3. Cardinality(C) \in Nat  BY <1>2, Positions
<1>4. Cardinality(C) >= 3  BY DEF CanCompact, h
<1> HIDE DEF C
<1>5. CompactSize(Cardinality(C)) + 1 \in 1..Cardinality(C)  BY <1>3, <1>4, SizeOfCompaction
<1> DEFINE k == CompactSize(Cardinality(C)) + 1
<1>6. Nth(C, k) \in C
  <2> HIDE DEF k
  <2> QED  BY <1>2, <1>5, NthRank DEF k
<1> QED  BY <1>2, <1>6 DEF CallIndex, C, h

LEMMA CompactedHistory ==
    ASSUME NEW msgs, History(msgs), CanCompact(msgs)
    PROVE  /\ History(Compacted(msgs)) /\ AllIds(Compacted(msgs)) \subseteq AllIds(msgs)
           /\ Told(Strip(msgs)) \subseteq Told(Compacted(msgs))
           /\ Plan(Compacted(msgs)) = Plan(msgs)
<1> DEFINE h == Strip(msgs)
           n == Len(h)
           idx == CallIndex(h, CompactSize(Cardinality(CallIndices(h))) + 1)
           before == SubSeq(h, 1, idx - 1)
           after == SubSeq(h, idx, n)
           kept == <<Note(Told(before))>> \o LastPair(msgs)
<1>1. /\ History(h) /\ AllIds(h) \subseteq AllIds(msgs) \ TodoIds(msgs)
      /\ \A i \in DOMAIN h : ~HasTodo(h[i])
  BY StripHistory
<1>2. idx \in CallIndices(h) /\ idx \in DOMAIN h  BY CompactionPlace
<1>3. Compacted(msgs) = kept \o after  BY DEF Compacted
<1> HIDE DEF h, n, idx, before, after, kept
<1>4. h \in Seq(Messages) /\ n \in Nat /\ DOMAIN h = 1..n /\ idx \in 1..n
  BY <1>1, <1>2, HistoryParts DEF n
<1>5. ASSUME NEW i \in DOMAIN h, i < idx, NEW k \in DOMAIN h[i].calls PROVE i + k < idx
  <2> SUFFICES ASSUME ~(i + k < idx) PROVE FALSE  OBVIOUS
  <2>1. DOMAIN h[i].calls = 1..Len(h[i].calls) /\ Len(h[i].calls) \in Nat
    BY <1>1, HistoryParts
  <2>2. idx - i \in DOMAIN h[i].calls /\ i + (idx - i) = idx  BY <1>4, <1>5, <2>1
  <2>3. h[i + (idx - i)].calls = <<>>  BY <1>1, <2>2, ResultPlaces
  <2> QED  BY <1>2, <2>2, <2>3 DEF CallIndices
<1>6. History(after) /\ AllIds(after) \subseteq AllIds(h)
  <2>1. idx \in Nat /\ 1 <= idx /\ idx <= Len(h) + 1  BY <1>4 DEF n
  <2>2. AnsweredBefore(h, idx)  BY <1>5 DEF AnsweredBefore
  <2> QED  BY <1>1, <2>1, <2>2, SuffixHistory DEF after, n
<1>7. h = before \o after /\ before \in Seq(Messages) /\ after \in Seq(Messages)
  <2>1. 1 \in 1..(Len(h) + 1) /\ idx - 1 \in (1 - 1)..Len(h) /\ n \in (idx - 1)..Len(h)
    BY <1>4 DEF n
  <2>2. SubSeq(h, 1, idx - 1) \o SubSeq(h, (idx - 1) + 1, n) = SubSeq(h, 1, n)
    BY <1>4, <2>1, ConcatAdjacentSubSeq
  <2>3. SubSeq(h, 1, n) = h  BY <1>4, SubSeqFull DEF n
  <2>4. (idx - 1) + 1 = idx  BY <1>4
  <2>5. before \in Seq(Messages)  BY <1>4 DEF before
  <2>6. after \in Seq(Messages)  BY <1>6 DEF History
  <2> QED  BY <2>2, <2>3, <2>4, <2>5, <2>6 DEF before, after
<1>8. Told(h) = Told(before) \cup Told(after)  BY <1>7, JoinedTelling
<1>9. Told(before) \in SUBSET Ids  BY <1>1, <1>8, HistoryTells
<1>10. /\ History(kept) /\ AllIds(kept) \subseteq TodoIds(msgs)
       /\ Plan(kept) = Plan(msgs) /\ Told(before) \subseteq Told(kept)
  BY <1>9, NotedPlan DEF kept
<1>11. History(kept \o after) /\ AllIds(kept \o after) = AllIds(kept) \cup AllIds(after)
  BY <1>1, <1>6, <1>10, JoinedHistory
<1>12. Told(kept \o after) = Told(kept) \cup Told(after)
  BY <1>7, <1>10, JoinedTelling DEF History
<1>13. \A i \in DOMAIN after : ~HasTodo(after[i])
  <2> SUFFICES ASSUME NEW i \in DOMAIN after PROVE ~HasTodo(after[i])  OBVIOUS
  <2>1. Len(before) + i \in DOMAIN h /\ h[Len(before) + i] = after[i]  BY <1>7, JoinedPlaces
  <2> QED  BY <1>1, <2>1
<1>14. Plan(kept \o after) = Plan(msgs)  BY <1>6, <1>10, <1>11, <1>13, JoinedPlan
<1>15. TodoIds(msgs) \subseteq AllIds(msgs)  BY TodoIdsKnown, IdsKnown
<1> QED  BY <1>1, <1>3, <1>6, <1>8, <1>10, <1>11, <1>12, <1>14, <1>15 DEF h

LEMMA RawKeptHistory ==
    ASSUME NEW msgs, History(msgs)
    PROVE  /\ History(RawKept(msgs)) /\ AllIds(RawKept(msgs)) \subseteq AllIds(msgs)
           /\ ResultsIn(Strip(msgs)) \subseteq Told(RawKept(msgs))
           /\ Plan(RawKept(msgs)) = Plan(msgs)
<1>1. History(Strip(msgs))  BY StripHistory
<1>2. ResultsIn(Strip(msgs)) \in SUBSET Ids  BY <1>1, HistoryTells
<1>3. TodoIds(msgs) \subseteq AllIds(msgs)  BY TodoIdsKnown, IdsKnown
<1> QED  BY <1>2, <1>3, NotedPlan DEF RawKept

-----------------------------------------------------------------------------
(* Trimming *)

\* A pair of a number of old messages and a history whose calls are among some.
Trim(ids) == { both \in Nat \X Seq(Messages) : History(both[2]) /\ AllIds(both[2]) \subseteq ids }

LEMMA TrimFallbackHistory ==
    ASSUME NEW ids, NEW both \in Trim(ids)
    PROVE  TrimFallback(both) \in Trim(ids)
<1> DEFINE old0 == both[1]
           msgs == both[2]
           call == SelectInSeq(msgs, LAMBDA m : m.calls # <<>>)
<1>1. /\ old0 \in Nat /\ History(msgs) /\ AllIds(msgs) \subseteq ids
      /\ msgs \in Seq(Messages)
  BY DEF Trim
<1>2. TrimFallback(both) = IF old0 > 0 THEN <<IF old0 < 2 THEN 0 ELSE old0 - 2, msgs>>
                           ELSE IF msgs = <<>> THEN both
                           ELSE IF call = 0 THEN <<0, Tail(msgs)>>
                           ELSE <<0, WithoutGroups(msgs, {call})>>
  BY DEF TrimFallback
<1>3. \/ call = 0 /\ \A i \in DOMAIN msgs : msgs[i].calls = <<>>
      \/ call \in CallIndices(msgs)
  BY <1>1, FirstCall
<1>4. ASSUME NEW o \in Nat, NEW s, History(s), AllIds(s) \subseteq ids
      PROVE  <<o, s>> \in Trim(ids)
  BY <1>4 DEF Trim, History
<1>5. 0 \notin CallIndices(msgs)  BY <1>1, HistoryParts DEF CallIndices
<1> HIDE DEF old0, msgs, call
<1>6. CASE old0 > 0
  <2>1. (IF old0 < 2 THEN 0 ELSE old0 - 2) \in Nat  BY <1>1
  <2> QED  BY <1>1, <1>2, <1>4, <1>6, <2>1
<1>7. CASE ~(old0 > 0) /\ msgs = <<>>  BY <1>2, <1>7
<1>8. CASE ~(old0 > 0) /\ msgs # <<>> /\ call = 0
  <2>1. \A i \in DOMAIN msgs : msgs[i].calls = <<>>  BY <1>3, <1>5, <1>8
  <2>2. Tail(msgs) = SubSeq(msgs, 2, Len(msgs))  BY <1>1, <1>8, TailIsSubSeq
  <2>3. Len(msgs) \in Nat /\ 2 <= Len(msgs) + 1
    <3>1. Len(msgs) \in Nat \ {0}  BY <1>1, <1>8, EmptySeq
    <3> QED  BY <3>1
  <2>4. AnsweredBefore(msgs, 2)
    <3>1. \A i \in DOMAIN msgs : DOMAIN msgs[i].calls = {}  BY <2>1
    <3> QED  BY <3>1 DEF AnsweredBefore
  <2>5. History(Tail(msgs)) /\ AllIds(Tail(msgs)) \subseteq AllIds(msgs)
    <3> DEFINE a == 2
    <3>1. /\ Tail(msgs) = SubSeq(msgs, a, Len(msgs)) /\ AnsweredBefore(msgs, a)
          /\ a \in Nat /\ 1 <= a /\ a <= Len(msgs) + 1
      BY <2>2, <2>3, <2>4
    <3> HIDE DEF a
    <3> QED  BY <1>1, <3>1, SuffixHistory
  <2> QED  BY <1>1, <1>2, <1>4, <1>8, <2>5
<1>9. CASE ~(old0 > 0) /\ msgs # <<>> /\ call # 0
  <2>1. {call} \subseteq CallIndices(msgs)  BY <1>3, <1>9
  <2>2. /\ History(WithoutGroups(msgs, {call}))
        /\ AllIds(WithoutGroups(msgs, {call})) \subseteq AllIds(msgs)
    BY <1>1, <2>1, WithoutGroupsHistory
  <2> QED  BY <1>1, <1>2, <1>4, <1>9, <2>2
<1> QED  BY <1>6, <1>7, <1>8, <1>9

\* Trimming again and again is defined: each step has the one before it.
LEMMA TrimDefined ==
    ASSUME NEW both, NEW most \in Nat
    PROVE  \E f : f = [k \in 0..most |-> IF k = 0 THEN both ELSE TrimFallback(f[k - 1])]
<1> DEFINE Is(f, n) == f = [k \in 0..n |-> IF k = 0 THEN both ELSE TrimFallback(f[k - 1])]
           S == { n \in Nat : \E f : Is(f, n) }
<1>1. 0 \in S
  <2> DEFINE f == [k \in 0..0 |-> both]
  <2>1. f = [k \in 0..0 |-> IF k = 0 THEN both ELSE TrimFallback(f[k - 1])]  OBVIOUS
  <2> QED  BY <2>1
<1>2. \A n \in Nat : n \in S => n + 1 \in S
  <2> SUFFICES ASSUME NEW n \in Nat, NEW f, Is(f, n) PROVE \E g : Is(g, n + 1)
    OBVIOUS
  <2> DEFINE g == [k \in 0..(n + 1) |-> IF k = n + 1 THEN TrimFallback(f[n]) ELSE f[k]]
             e == [k \in 0..(n + 1) |-> IF k = 0 THEN both ELSE TrimFallback(g[k - 1])]
  <2>1. \A k \in 0..n : f[k] = IF k = 0 THEN both ELSE TrimFallback(f[k - 1])  OBVIOUS
  <2>2. /\ \A k \in 0..n : g[k] = f[k]
        /\ g[n + 1] = TrimFallback(f[n])
    OBVIOUS
  <2>3. ASSUME NEW k \in 0..(n + 1) PROVE g[k] = e[k]
    <3>1. CASE k = 0  BY <2>1, <2>2, <3>1
    <3>2. CASE k \in 1..n
      <4>1. k - 1 \in 0..n /\ k \in 0..n /\ k # 0  BY <3>2
      <4>2. g[k] = TrimFallback(f[k - 1]) /\ g[k - 1] = f[k - 1]  BY <2>1, <2>2, <4>1
      <4> HIDE DEF g
      <4> QED  BY <4>1, <4>2
    <3>3. CASE k = n + 1
      <4>1. k # 0 /\ k - 1 = n /\ n \in 0..n  BY <3>3
      <4>2. g[k] = TrimFallback(f[n]) /\ g[k - 1] = f[n]  BY <2>2, <3>3, <4>1
      <4> HIDE DEF g
      <4> QED  BY <4>1, <4>2
    <3> QED  BY <3>1, <3>2, <3>3
  <2>4. g = [k \in 0..(n + 1) |-> g[k]] /\ e = [k \in 0..(n + 1) |-> e[k]]  OBVIOUS
  <2>5. g = e
    <3> HIDE DEF g, e
    <3> QED  BY <2>3, <2>4
  <2>6. Is(g, n + 1)  BY <2>5
  <2> QED  BY <2>6
<1>3. most \in S
  <2> HIDE DEF S
  <2> QED  BY <1>1, <1>2, ByInduction
<1> QED  BY <1>3

LEMMA TrimmedHistory ==
    ASSUME NEW ids, NEW both \in Trim(ids), NEW most \in Nat
    PROVE  Trimmed(both, most) \subseteq Trim(ids)
<1> DEFINE trim == CHOOSE f : f = [k \in 0..most |-> IF k = 0 THEN both
                                                     ELSE TrimFallback(f[k - 1])]
           S == { n \in Nat : n \in 0..most => trim[n] \in Trim(ids) }
<1>1. Trimmed(both, most) = { trim[k] : k \in 0..most }  BY DEF Trimmed
<1>2. trim = [k \in 0..most |-> IF k = 0 THEN both ELSE TrimFallback(trim[k - 1])]
  BY TrimDefined
<1> HIDE DEF trim
<1>3. 0 \in S  BY <1>2
<1>4. \A n \in Nat : n \in S => n + 1 \in S
  <2> SUFFICES ASSUME NEW n \in Nat, n \in S, n + 1 \in 0..most PROVE trim[n + 1] \in Trim(ids)
    OBVIOUS
  <2>1. n \in 0..most /\ n + 1 # 0 /\ (n + 1) - 1 = n  OBVIOUS
  <2>2. trim[n] \in Trim(ids)  BY <2>1
  <2>3. trim[n + 1] = TrimFallback(trim[n])  BY <1>2, <2>1
  <2> QED  BY <2>2, <2>3, TrimFallbackHistory
<1>5. Nat \subseteq S
  <2> HIDE DEF S
  <2> QED  BY <1>3, <1>4, ByInduction
<1>6. \A k \in 0..most : trim[k] \in Trim(ids)  BY <1>5
<1> QED  BY <1>1, <1>6

LEMMA TrimsHistory ==
    ASSUME NEW msgs, History(msgs), NEW o \in Nat
    PROVE  \A both \in Trims(o, msgs) : both \in Trim(AllIds(msgs))
<1> SUFFICES ASSUME NEW both \in Trims(o, msgs) PROVE both \in Trim(AllIds(msgs))  OBVIOUS
<1>1. PICK drop \in SUBSET Prunable(msgs) :
          both \in Trimmed(<<o, WithoutGroups(msgs, drop)>>, o + Len(msgs))
  BY DEF Trims
<1>2. drop \subseteq CallIndices(msgs)  BY DEF Prunable, Steps
<1>3. /\ History(WithoutGroups(msgs, drop))
      /\ AllIds(WithoutGroups(msgs, drop)) \subseteq AllIds(msgs)
  BY <1>2, WithoutGroupsHistory
<1>4. <<o, WithoutGroups(msgs, drop)>> \in Trim(AllIds(msgs))  BY <1>3 DEF Trim, History
<1>5. o + Len(msgs) \in Nat  BY HistoryParts
<1> QED  BY <1>1, <1>4, <1>5, TrimmedHistory

-----------------------------------------------------------------------------
(* The history of a run.                                                    *)

\* Calls are named by the iteration that asked for them: those of this one are not
\* there yet when its request is made.
Before(msgs, n) == \A id \in AllIds(msgs) : id[1] <= n

HistInv ==
    /\ turns \in 0..MaxTurns /\ waiting \in Nat /\ taken \in Nat /\ old \in Nat /\ trims \in Nat
    /\ History(hist) /\ Before(hist, turns)
    /\ pc \in {"compact", "send"} => turns > 0 /\ Before(hist, turns - 1)

LEMMA FewerBefore ==
    ASSUME NEW a, NEW b, AllIds(b) \subseteq AllIds(a), NEW n, Before(a, n)
    PROVE  Before(b, n)
BY DEF Before

\* Steers are told in a message of their own.
LEMMA SteeredHistory ==
    ASSUME NEW msgs, History(msgs), waiting \in Nat, taken \in Nat
    PROVE  /\ History(Steered(msgs)) /\ AllIds(Steered(msgs)) = AllIds(msgs)
           /\ Told(msgs) \subseteq Told(Steered(msgs))
           /\ Plan(Steered(msgs)) = Plan(msgs)
<1> DEFINE tells == { <<0, n>> : n \in (taken + 1)..(taken + waiting) }
           N == <<Note(tells)>>
<1>1. CASE waiting = 0  BY <1>1 DEF Steered
<1>2. CASE waiting # 0
  <2>1. tells \in SUBSET Ids
    <3>1. MaxTurns \in Nat  BY BoundAssumption
    <3> QED  BY <3>1 DEF Ids
  <2> HIDE DEF tells
  <2>2. History(N) /\ AllIds(N) = {} /\ Note(tells) \in Messages  BY <2>1, NoteHistory
  <2>3. Steered(msgs) = msgs \o N
    <3>1. Steered(msgs) = Append(msgs, Note(tells))  BY <1>2 DEF Steered, tells
    <3> QED  BY <2>2, <3>1, AppendIsConcat DEF History
  <2>30. \A i \in DOMAIN N : ~HasTodo(N[i])  BY DEF HasTodo, Note, Message
  <2> HIDE DEF N
  <2>4. History(msgs \o N) /\ AllIds(msgs \o N) = AllIds(msgs)  BY <2>2, JoinedHistory
  <2>5. Told(msgs \o N) = Told(msgs) \cup Told(N)  BY <2>2, JoinedTelling DEF History
  <2>6. Plan(msgs \o N) = Plan(msgs)  BY <2>2, <2>30, <2>4, JoinedPlan
  <2> QED  BY <2>3, <2>4, <2>5, <2>6
<1> QED  BY <1>1, <1>2

LEMMA RepliedHistory ==
    ASSUME NEW msgs, History(msgs)
    PROVE  /\ History(Append(msgs, Text)) /\ AllIds(Append(msgs, Text)) = AllIds(msgs)
           /\ Told(msgs) \subseteq Told(Append(msgs, Text))
           /\ Plan(Append(msgs, Text)) = Plan(msgs)
<1> DEFINE N == <<Text>>
<1>1. History(N) /\ AllIds(N) = {} /\ Text \in Messages  BY TextHistory
<1>2. Append(msgs, Text) = msgs \o N  BY <1>1, AppendIsConcat DEF History
<1>3. \A i \in DOMAIN N : ~HasTodo(N[i])  BY DEF HasTodo, Text, Message
<1> HIDE DEF N
<1>4. History(msgs \o N) /\ AllIds(msgs \o N) = AllIds(msgs)  BY <1>1, JoinedHistory
<1>5. Told(msgs \o N) = Told(msgs) \cup Told(N)  BY <1>1, JoinedTelling DEF History
<1>6. Plan(msgs \o N) = Plan(msgs)  BY <1>1, <1>3, <1>4, JoinedPlan
<1> QED  BY <1>2, <1>4, <1>5, <1>6

\* A batch of calls with its results.
Asked(b) == <<Asking(CallsOf(b), b \in Talking)>> \o AnswersTo(b)

LEMMA BatchHistory ==
    ASSUME NEW b \in Batches, turns \in 0..MaxTurns, NEW msgs, History(msgs)
    PROVE  /\ msgs \o <<Asking(CallsOf(b), b \in Talking)>> \o AnswersTo(b) = msgs \o Asked(b)
           /\ History(Asked(b))
           /\ \A id \in AllIds(Asked(b)) : id[1] = turns
<1> DEFINE calls == CallsOf(b)
           answers == AnswersTo(b)
           ask == Asking(calls, b \in Talking)
<1>1. MaxTurns \in Nat /\ b \in Seq(Range(b))  BY BoundAssumption, ToolAssumption
<1>2. Range(b) \subseteq Tools  BY DEF Tools
<1>3. Len(b) \in Nat /\ DOMAIN b = 1..Len(b) /\ \A i \in DOMAIN b : b[i] \in Tools
  BY <1>1, <1>2
<1>4. \A i \in DOMAIN b : <<turns, i>> \in Ids  BY <1>1, <1>3 DEF Ids
<1>5. calls \in Seq(Calls) /\ DOMAIN calls = DOMAIN b /\ \A i \in DOMAIN b : calls[i].id = <<turns, i>>
  <2>1. DOMAIN calls = 1..Len(b) /\ \A i \in 1..Len(b) : calls[i] = [id |-> <<turns, i>>, tool |-> b[i]]
    BY <1>3 DEF CallsOf
  <2>2. \A i \in 1..Len(b) : calls[i] \in Calls /\ calls[i].id = <<turns, i>>
    BY <1>3, <1>4, <2>1 DEF Calls
  <2>3. calls = [i \in DOMAIN calls |-> calls[i]]  BY DEF CallsOf
  <2> HIDE DEF calls
  <2> QED  BY <1>3, <2>1, <2>2, <2>3
<1>6. /\ answers \in Seq(Messages) /\ DOMAIN answers = DOMAIN b
      /\ \A i \in DOMAIN b : /\ answers[i].role = "tool" /\ answers[i].calls = <<>>
                             /\ answers[i].of = <<turns, i>>
  <2>1. DOMAIN answers = 1..Len(b) /\ \A i \in 1..Len(b) : answers[i] = Answer(<<turns, i>>)
    BY <1>3 DEF AnswersTo
  <2>2. ASSUME NEW id \in Ids
        PROVE  /\ Answer(id) \in Messages /\ Answer(id).role = "tool"
               /\ Answer(id).calls = <<>> /\ Answer(id).of = id
    BY DEF Answer, Message, Messages
  <2>3. answers = [i \in DOMAIN answers |-> answers[i]]  BY DEF AnswersTo
  <2> HIDE DEF answers
  <2>4. \A i \in 1..Len(b) : answers[i] \in Messages  BY <1>3, <1>4, <2>1, <2>2
  <2>5. answers \in Seq(Messages)  BY <1>3, <2>1, <2>3, <2>4
  <2>6. ASSUME NEW i \in DOMAIN b
        PROVE  answers[i].role = "tool" /\ answers[i].calls = <<>> /\ answers[i].of = <<turns, i>>
    <3>1. answers[i] = Answer(<<turns, i>>)  BY <1>3, <2>1
    <3> QED  BY <1>4, <2>2, <3>1
  <2> QED  BY <1>3, <2>1, <2>5, <2>6
<1>7. ask \in Messages /\ ask.role # "tool" /\ ask.calls = calls /\ ask.of = None
  <2>1. (b \in Talking) \in BOOLEAN  OBVIOUS
  <2> HIDE DEF calls
  <2>2. \A says \in BOOLEAN : /\ Asking(calls, says) \in Messages
                              /\ Asking(calls, says).role # "tool"
                              /\ Asking(calls, says).calls = calls /\ Asking(calls, says).of = None
    BY <1>5, AskingParts
  <2> QED  BY <2>1, <2>2
<1>8. Asked(b) = <<ask>> \o answers  BY DEF Asked
<1> HIDE DEF calls, answers, ask
<1>9. /\ \A k, l \in DOMAIN calls : calls[k].id = calls[l].id => k = l
      /\ \A k \in DOMAIN calls : /\ answers[k].role = "tool" /\ answers[k].calls = <<>>
                                 /\ answers[k].of = calls[k].id
  BY <1>5, <1>6
<1>10. /\ History(<<ask>> \o answers)
       /\ \A x : x \in AllIds(<<ask>> \o answers) <=> \E k \in DOMAIN calls : x = calls[k].id
  BY <1>5, <1>6, <1>7, <1>9, GroupHistory
<1>11. \A id \in AllIds(<<ask>> \o answers) : id[1] = turns  BY <1>5, <1>10
<1>12. (msgs \o <<ask>>) \o answers = msgs \o (<<ask>> \o answers)
  <2>1. <<ask>> \in Seq(Messages) /\ msgs \in Seq(Messages)  BY <1>7 DEF History
  <2> QED  BY <1>6, <2>1, ConcatAssociative
<1> QED  BY <1>8, <1>10, <1>11, <1>12 DEF calls, answers, ask

LEMMA SkillHistory == History(SkillCall) /\ Before(SkillCall, 0)
<1> DEFINE call == [id |-> <<0, 0>>, tool |-> Skill]
           calls == <<call>>
           ask == Asking(calls, FALSE)
           answer == Answer(<<0, 0>>)
           answers == <<answer>>
<1>1. <<0, 0>> \in Ids  BY BoundAssumption DEF Ids
<1>2. call \in Calls /\ call.id = <<0, 0>>
  <2>1. Skill \in Tools  BY DEF Tools
  <2> QED  BY <1>1, <2>1 DEF Calls
<1>3. /\ answer \in Messages /\ answer.role = "tool"
      /\ answer.calls = <<>> /\ answer.of = <<0, 0>>
  BY <1>1 DEF Answer, Message, Messages
<1> HIDE DEF call
<1>4. calls \in Seq(Calls) /\ DOMAIN calls = {1} /\ calls[1] = call  BY <1>2
<1>5. /\ answers \in Seq(Messages) /\ DOMAIN answers = {1} /\ answers[1] = answer
  BY <1>3
<1>6. SkillCall = <<ask, answer>>  BY DEF SkillCall, call
<1> HIDE DEF answer
<1> HIDE DEF calls
<1>7. ask \in Messages /\ ask.role # "tool" /\ ask.calls = calls /\ ask.of = None
  BY <1>4, AskingParts
<1> HIDE DEF ask
<1>8. SkillCall = <<ask>> \o answers
  <2> HIDE DEF answers
  <2>1. DOMAIN (<<ask>> \o answers) = {1, 2} /\ (<<ask>> \o answers)[1] = ask
        /\ (<<ask>> \o answers)[2] = answer
    BY <1>5, <1>7, JoinedPlaces
  <2> QED  BY <1>6, <2>1
<1> HIDE DEF answers
<1>9. /\ \A k, l \in DOMAIN calls : calls[k].id = calls[l].id => k = l
      /\ \A k \in DOMAIN calls : /\ answers[k].role = "tool" /\ answers[k].calls = <<>>
                                 /\ answers[k].of = calls[k].id
  BY <1>2, <1>3, <1>4, <1>5
<1>10. /\ History(<<ask>> \o answers)
       /\ \A x : x \in AllIds(<<ask>> \o answers) <=> \E k \in DOMAIN calls : x = calls[k].id
  BY <1>4, <1>5, <1>7, <1>9, GroupHistory
<1>11. \A id \in AllIds(SkillCall) : id = <<0, 0>>  BY <1>2, <1>4, <1>8, <1>10
<1> QED  BY <1>8, <1>10, <1>11 DEF Before

LEMMA HistInit == Init => HistInv
<1> SUFFICES ASSUME Init PROVE HistInv  OBVIOUS
<1>1. /\ pc = "turn" /\ turns = 0 /\ waiting = 0 /\ taken = 0 /\ old = OldMessages /\ trims = 0
      /\ hist = (IF SkillRun THEN SkillCall ELSE <<>>)
  BY DEF Init
<1>2. MaxTurns \in Nat /\ OldMessages \in Nat  BY BoundAssumption
<1>3. History(hist) /\ Before(hist, 0)  BY <1>1, SkillHistory, EmptyHistory DEF Before
<1> QED  BY <1>1, <1>2, <1>3 DEF HistInv

LEMMA OverHist == Over => HistInv'
<1> SUFFICES ASSUME Over PROVE HistInv'  OBVIOUS
<1>1. /\ pc' = "over" /\ turns' = 0 /\ hist' = <<>> /\ old' = 0 /\ waiting' = 0 /\ taken' = 0
      /\ trims' = 0
  BY DEF Over
<1>2. MaxTurns \in Nat  BY BoundAssumption
<1>3. History(hist') /\ Before(hist', 0)  BY <1>1, EmptyHistory DEF Before
<1> QED  BY <1>1, <1>2, <1>3 DEF HistInv

\* A step leaves a history whose calls are paired, keeps the plan and what was told.
StepKeeps == HistInv' /\ PlanStep /\ TellStep

\* Steps that end the run, and those that leave the history alone.
LEMMA OverKeeps == Over => StepKeeps
<1> SUFFICES ASSUME Over PROVE StepKeeps  OBVIOUS
<1>1. pc' = "over"  BY DEF Over
<1> QED  BY <1>1, OverHist DEF StepKeeps, PlanStep, TellStep

StaysHist ==
    /\ UNCHANGED <<hist, old, turns>>
    /\ waiting' \in Nat /\ taken' \in Nat /\ trims' \in Nat
    /\ pc' \in {"compact", "send"} => pc \in {"compact", "send"}

LEMMA StaysKeeps == HistInv /\ StaysHist => StepKeeps
BY DEF StaysHist, HistInv, StepKeeps, PlanStep, TellStep, Before, History

LEMMA GrowsKeeps ==
    ASSUME HistInv, History(hist'), AllIds(hist') = AllIds(hist), Told(hist) \subseteq Told(hist'),
           Plan(hist') = Plan(hist), old' \in Nat, trims' \in Nat, waiting' \in Nat, taken' \in Nat,
           turns' \in turns..MaxTurns, pc' \in {"compact", "send"} => turns' > turns
    PROVE  StepKeeps
<1>1. turns \in Nat /\ MaxTurns \in Nat  BY BoundAssumption DEF HistInv
<1>2. \A id \in AllIds(hist') : id[1] \in Nat
  <2>1. AllIds(hist) \subseteq Ids  BY HistoryParts DEF HistInv
  <2> QED  BY <1>1, <2>1 DEF Ids
<1>3. Before(hist', turns') /\ (pc' \in {"compact", "send"} => Before(hist', turns' - 1))
  BY <1>1, <1>2 DEF HistInv, Before
<1>4. HistInv'  BY <1>1, <1>3 DEF HistInv, History, Before
<1>5. Told(Strip(hist)) \subseteq Told(hist')  BY StripHistory DEF HistInv
<1> QED  BY <1>4, <1>5 DEF StepKeeps, PlanStep, TellStep

\* The steps of the loop.
LEMMA IterateKeeps == HistInv /\ Iterate => StepKeeps
<1> SUFFICES ASSUME HistInv, Iterate PROVE StepKeeps  OBVIOUS
<1>1. /\ turns \in 0..MaxTurns /\ MaxTurns \in Nat /\ turns' = turns + 1 /\ turns < MaxTurns
      /\ hist' = Steered(hist) /\ old' = old /\ trims' = trims
      /\ taken' = taken + waiting /\ waiting' = 0
      /\ waiting \in Nat /\ taken \in Nat /\ old \in Nat /\ trims \in Nat /\ History(hist)
  BY BoundAssumption DEF HistInv, Iterate, TakeSteers, retryVars
<1> QED  BY <1>1, SteeredHistory, GrowsKeeps

LEMMA ReplyKeeps == HistInv /\ Reply => StepKeeps
<1> SUFFICES ASSUME HistInv, Reply PROVE StepKeeps  OBVIOUS
<1> DEFINE said == Append(hist, Text)
<1>1. /\ turns \in 0..MaxTurns /\ MaxTurns \in Nat /\ turns' = turns /\ pc' = "turn"
      /\ hist' = Steered(said) /\ old' = old /\ trims' = 0
      /\ taken' = taken + waiting /\ waiting' = 0
      /\ waiting \in Nat /\ taken \in Nat /\ old \in Nat /\ trims \in Nat /\ History(hist)
  BY BoundAssumption DEF HistInv, Reply, Answered, TakeSteers
<1>2. /\ History(said) /\ AllIds(said) = AllIds(hist) /\ Told(hist) \subseteq Told(said)
      /\ Plan(said) = Plan(hist)
  BY <1>1, RepliedHistory
<1> HIDE DEF said
<1>3. /\ History(Steered(said)) /\ AllIds(Steered(said)) = AllIds(said)
      /\ Told(said) \subseteq Told(Steered(said)) /\ Plan(Steered(said)) = Plan(said)
  BY <1>1, <1>2, SteeredHistory
<1> QED  BY <1>1, <1>2, <1>3, GrowsKeeps

LEMMA CompactKeeps == HistInv /\ Compact => StepKeeps
<1> SUFFICES ASSUME HistInv, Compact PROVE StepKeeps  OBVIOUS
<1>1. /\ turns' = turns /\ pc = "compact" /\ waiting' \in Nat /\ taken' \in Nat /\ trims' \in Nat
      /\ old \in Nat /\ pc' = "send"
  BY DEF HistInv, Compact, steerVars, retryVars
<1>2. CASE SummariseTools
  <2>1. CanCompact(hist) /\ hist' = Compacted(hist) /\ old' = 0  BY <1>2 DEF SummariseTools
  <2>2. /\ History(hist') /\ AllIds(hist') \subseteq AllIds(hist)
        /\ Told(Strip(hist)) \subseteq Told(hist') /\ Plan(hist') = Plan(hist)
    BY <2>1, CompactedHistory DEF HistInv
  <2>3. HistInv'  BY <1>1, <2>1, <2>2 DEF HistInv, History, Before
  <2> QED  BY <2>2, <2>3 DEF StepKeeps, PlanStep, TellStep
<1>3. CASE SummariseOld
  <2>1. HistInv'  BY <1>1, <1>3 DEF SummariseOld, HistInv, History, Before
  <2> QED  BY <2>1, <1>3 DEF SummariseOld, StepKeeps, PlanStep, TellStep
<1>4. CASE NoSummary
  <2>1. HistInv'  BY <1>1, <1>4 DEF NoSummary, HistInv, History, Before
  <2> QED  BY <2>1, <1>4 DEF NoSummary, StepKeeps, PlanStep, TellStep
<1> QED  BY <1>2, <1>3, <1>4 DEF Compact

LEMMA TrimKeeps == ASSUME HistInv, NEW err \in Kinds, TooLong(err) PROVE StepKeeps
<1>1. /\ turns' = turns /\ pc = "send" /\ pc' = "turn" /\ waiting' \in Nat /\ taken' \in Nat
      /\ trims' = trims + 1 /\ trims \in Nat /\ old \in Nat /\ History(hist)
  BY DEF HistInv, TooLong, steerVars
<1>2. PICK both \in Trims(old, hist) : old' = both[1] /\ hist' = both[2]  BY DEF TooLong
<1>3. both \in Trim(AllIds(hist))  BY <1>1, TrimsHistory
<1>4. old' \in Nat /\ History(hist') /\ AllIds(hist') \subseteq AllIds(hist)  BY <1>2, <1>3 DEF Trim
<1>5. HistInv'  BY <1>1, <1>4 DEF HistInv, History, Before
<1> QED  BY <1>1, <1>5 DEF StepKeeps, PlanStep, TellStep

LEMMA SwitchKeeps == ASSUME HistInv, NEW err \in Kinds, SwitchModel(err) PROVE StepKeeps
<1>1. /\ turns' = turns /\ pc' = "turn" /\ waiting' \in Nat /\ taken' \in Nat /\ trims' = 0
      /\ old \in Nat /\ History(hist) /\ model' # model
  BY DEF HistInv, SwitchModel, steerVars, Remaining
<1>2. CASE HasRaw(hist)
  <2>1. hist' = RawKept(hist) /\ old' = 0  BY <1>2 DEF SwitchModel
  <2>2. /\ History(hist') /\ AllIds(hist') \subseteq AllIds(hist)
        /\ ResultsIn(Strip(hist)) \subseteq Told(hist') /\ Plan(hist') = Plan(hist)
    BY <1>1, <2>1, RawKeptHistory
  <2>3. HistInv'  BY <1>1, <2>1, <2>2 DEF HistInv, History, Before
  <2> QED  BY <1>1, <2>2, <2>3 DEF StepKeeps, PlanStep, TellStep
<1>3. CASE ~HasRaw(hist)
  <2>1. hist' = <<>> /\ old' = old  BY <1>3 DEF SwitchModel
  <2>2. HistInv'  BY <1>1, <2>1, EmptyHistory DEF HistInv, History, Before
  <2>3. ResultsIn(Strip(hist)) = {}  BY <1>3 DEF HasRaw
  <2> QED  BY <1>1, <1>3, <2>2, <2>3 DEF StepKeeps, PlanStep, TellStep
<1> QED  BY <1>2, <1>3

LEMMA BatchKeeps == ASSUME HistInv, NEW b \in Batches, ToolCall(b) PROVE StepKeeps
<1>1. /\ turns' = turns /\ turns \in 0..MaxTurns /\ MaxTurns \in Nat /\ pc = "send" /\ pc' = "turn"
      /\ waiting' \in Nat /\ taken' \in Nat /\ trims' = 0 /\ old' = old
      /\ old \in Nat /\ History(hist) /\ Before(hist, turns - 1)
      /\ hist' = hist \o <<Asking(CallsOf(b), b \in Talking)>> \o AnswersTo(b)
  BY BoundAssumption DEF HistInv, ToolCall, Answered, steerVars
<1>2. hist' = hist \o Asked(b) /\ History(Asked(b)) /\ \A id \in AllIds(Asked(b)) : id[1] = turns
  BY <1>1, BatchHistory
<1>3. AllIds(hist) \subseteq Ids  BY <1>1, HistoryParts
<1>4. \A id \in AllIds(hist) : id[1] \in Nat /\ id[1] <= turns - 1  BY <1>1, <1>3 DEF Before, Ids
<1>5. AllIds(hist) \cap AllIds(Asked(b)) = {}  BY <1>1, <1>2, <1>4
<1>6. /\ History(hist') /\ AllIds(hist') = AllIds(hist) \cup AllIds(Asked(b))
      /\ (\E i \in DOMAIN Asked(b) : HasTodo(Asked(b)[i])) => Plan(hist') = Plan(Asked(b))
      /\ (\A i \in DOMAIN Asked(b) : ~HasTodo(Asked(b)[i])) => Plan(hist') = Plan(hist)
  <2> DEFINE a == Asked(b)
             all == hist \o a
  <2>1. hist' = all  BY <1>2
  <2>2. History(a) /\ AllIds(hist) \cap AllIds(a) = {}  BY <1>2, <1>5
  <2> HIDE DEF a
  <2>3. History(all) /\ AllIds(all) = AllIds(hist) \cup AllIds(a)  BY <1>1, <2>2, JoinedHistory
  <2>4. /\ (\E i \in DOMAIN a : HasTodo(a[i])) => Plan(all) = Plan(a)
        /\ (\A i \in DOMAIN a : ~HasTodo(a[i])) => Plan(all) = Plan(hist)
    BY <1>1, <2>2, <2>3, JoinedPlan
  <2> HIDE DEF all
  <2>5. /\ History(hist') /\ AllIds(hist') = AllIds(hist) \cup AllIds(a)
        /\ (\E i \in DOMAIN a : HasTodo(a[i])) => Plan(hist') = Plan(a)
        /\ (\A i \in DOMAIN a : ~HasTodo(a[i])) => Plan(hist') = Plan(hist)
    BY <2>1, <2>3, <2>4
  <2> QED  BY <2>5 DEF a
<1>7. \A id \in AllIds(hist') : id[1] <= turns  BY <1>1, <1>2, <1>4, <1>6
<1>8. HistInv'  BY <1>1, <1>6, <1>7 DEF HistInv, History, Before
<1>9. Told(Strip(hist)) \subseteq Told(hist')
  <2>1. Told(hist') = Told(hist) \cup Told(Asked(b))  BY <1>1, <1>2, JoinedTelling DEF History
  <2> QED  BY <1>1, <2>1, StripHistory
<1>10. \/ Plan(hist) = Plan(hist')
       \/ Plan(hist') # None /\ Plan(hist')[1] = turns
  <2>1. CASE \A i \in DOMAIN Asked(b) : ~HasTodo(Asked(b)[i])
    BY <1>6, <2>1
  <2>2. CASE \E i \in DOMAIN Asked(b) : HasTodo(Asked(b)[i])
    <3>1. Plan(hist') = Plan(Asked(b))  BY <1>6, <2>2
    <3>2. PICK at \in DOMAIN Asked(b) : /\ HasTodo(Asked(b)[at])
                                        /\ Plan(Asked(b)) = TodoOf(Asked(b)[at]).id
      BY <1>2, <2>2, LastPairHistory
    <3>3. Plan(hist') \in AllIds(Asked(b))  BY <1>2, <3>1, <3>2, TodoOfKnown
    <3>4. AllIds(Asked(b)) \subseteq Ids /\ None \notin Ids  BY <1>2, HistoryParts
    <3> QED  BY <1>2, <3>3, <3>4
  <2> QED  BY <2>1, <2>2
<1> QED  BY <1>1, <1>8, <1>9, <1>10 DEF StepKeeps, PlanStep, TellStep

LEMMA StepsKeep == HistInv /\ [Next]_vars => StepKeeps
<1> SUFFICES ASSUME HistInv, [Next]_vars PROVE StepKeeps  OBVIOUS
<1>1. CASE StaysHist  BY <1>1, StaysKeeps
<1>2. /\ waiting \in Nat /\ taken \in Nat /\ trims \in Nat
  BY DEF HistInv
<1>3. CASE Over  BY <1>3, OverKeeps
<1>4. CASE Fail
  <2>1. PICK err \in Kinds :
            \/ StepReasoning(err) \/ TooLong(err) \/ NothingLeft(err)
            \/ RetryTimeout(err) \/ RetryLimited(err)
            \/ SwitchModel(err) \/ NoFallback(err)
    BY <1>4 DEF Fail
  <2>2. CASE StepReasoning(err)
    BY <1>1, <1>2, <2>2 DEF StepReasoning, FailedSend, StaysHist, histVars, steerVars
  <2>3. CASE TooLong(err)  BY <2>3, TrimKeeps
  <2>4. CASE NothingLeft(err)  BY <1>3, <2>4 DEF NothingLeft
  <2>5. CASE RetryTimeout(err)
    BY <1>1, <1>2, <2>5 DEF RetryTimeout, FailedSend, StaysHist, histVars, steerVars
  <2>6. CASE RetryLimited(err)
    BY <1>1, <1>2, <2>6 DEF RetryLimited, FailedSend, StaysHist, histVars, steerVars
  <2>7. CASE SwitchModel(err)  BY <2>7, SwitchKeeps
  <2>8. CASE NoFallback(err)  BY <1>3, <2>8 DEF NoFallback
  <2> QED  BY <2>1, <2>2, <2>3, <2>4, <2>5, <2>6, <2>7, <2>8
<1>5. CASE EmptyAnswer
  BY <1>1, <1>2, <1>5 DEF EmptyAnswer, Answered, StaysHist, steerVars
<1>6. CASE TooManyEmpty  BY <1>3, <1>6 DEF TooManyEmpty
<1>7. CASE Finish  BY <1>3, <1>7 DEF Finish
<1>8. CASE \E b \in Batches : ToolCall(b)  BY <1>8, BatchKeeps
<1>9. CASE Exhaust
  BY <1>1, <1>2, <1>9 DEF Exhaust, StaysHist, histVars, steerVars, retryVars
<1>10. CASE Summarise  BY <1>3, <1>10 DEF Summarise
<1>11. CASE Steer
  BY <1>1, <1>2, <1>11 DEF Steer, StaysHist, loopVars, histVars, retryVars
<1>12. CASE Cancel  BY <1>3, <1>12 DEF Cancel
<1>13. CASE UNCHANGED vars
  BY <1>1, <1>2, <1>13 DEF vars, StaysHist, loopVars, histVars, steerVars, retryVars
<1>14. CASE Done  BY <1>13, <1>14 DEF Done
<1> QED
  BY <1>4, <1>5, <1>6, <1>7, <1>8, <1>9, <1>10, <1>11, <1>12, <1>13, <1>14,
     IterateKeeps, CompactKeeps, ReplyKeeps
  DEF Next

\* Whatever compaction, pruning, trimming, model switches, steers and empty answers made of
\* the history, the request that is sent pairs every call with its result (exec/compact,
\* exec/todo, toolCall.go), for any batches, models and bounds.
THEOREM RequestsStayPaired == Spec => []RequestsPaired
<1>1. HistInv => RequestsPaired  BY HistoryWellPaired DEF HistInv, RequestsPaired
<1>2. HistInv /\ [Next]_vars => HistInv'  BY StepsKeep DEF StepKeeps
<1> QED  BY <1>1, <1>2, HistInit, PTL DEF Spec

\* The plan of a run and what it was told stay in its history, or in the summary that takes
\* the place of a part of it, but for trims and for the switch of models (PlanStep and
\* TellStep name what these keep).
THEOREM NothingGetsLost == Spec => NothingLost
<1>1. HistInv /\ [Next]_vars => HistInv' /\ [PlanStep /\ TellStep]_vars
  BY StepsKeep DEF StepKeeps
<1> QED  BY <1>1, HistInit, PTL DEF Spec, NothingLost

-----------------------------------------------------------------------------
(* Subagent: what a leg reports.  A leg takes part in a session's events    *)
(* only while it waits for its task's answers.                              *)

LegsConstants ==
    SessionOf \in [Legs -> Sessions] /\ Viewers \cap Legs = {} /\ Buffer \in Nat

LegPCs == {"off", "slot", "run", "collected", "subscribe", "wait", "result", "save",
           "report", "failed"}
LegStates == [pc : LegPCs, got : Seq(Legs \X Nat), path : {<< >>} \cup Paths]
LegEvents == [of : Legs, kind : {"text", "done", "error"}, n : Nat]

LegTypes ==
    /\ leg \in [Legs -> LegStates]
    /\ run \in [Legs -> {"none", "on", "resumed"}]
    /\ onFile \in [Legs -> {"none", "open", "asks"}]
    /\ subs \in [Sessions -> Seq(Legs \cup Viewers)]
    /\ inbox \in [Legs -> Seq(LegEvents)]
    /\ \A l \in Legs : Len(inbox[l]) <= Buffer
    /\ saved \in [Paths -> {<< >>} \cup {<< l >> : l \in Legs}]
    /\ written \in [Legs -> Seq(Legs \X Nat)]

Numbered(l, texts) == texts = [i \in 1 .. Len(texts) |-> << l, i >>]

(* A leg is no subscriber before it waits, and until its run asks the user  *)
(* it has collected what that run wrote.                                    *)
Early(l) ==
    /\ leg[l].pc \in {"off", "slot", "run", "collected", "subscribe"} =>
          inbox[l] = << >> /\ \A s \in Sessions : l \notin Range(subs[s])
    /\ leg[l].pc \in {"off", "slot", "run"} =>
          leg[l].got = written[l] /\ run[l] # "resumed" /\ onFile[l] # "asks"
    /\ run[l] = "on" <=> leg[l].pc = "run"
    /\ run[l] = "resumed" => onFile[l] # "asks"
    /\ Numbered(l, written[l])

(* While it waits, what it has got and what is still in its inbox are what  *)
(* its task has written; an event after the last text ends the task's run.  *)
Ended(l) == inbox[l] # << >> /\ inbox[l][Len(inbox[l])].kind # "text"
Follows(l) ==
    /\ Numbered(l, leg[l].got)
    /\ Len(written[l]) = Len(leg[l].got) + Len(inbox[l]) - (IF Ended(l) THEN 1 ELSE 0)
    /\ \A i \in 1 .. Len(inbox[l]) :
          /\ inbox[l][i].of = l
          /\ inbox[l][i].kind = "text" => inbox[l][i].n = Len(leg[l].got) + i
          /\ inbox[l][i].kind # "text" => i = Len(inbox[l])
    /\ Ended(l) => run[l] = "none" /\ onFile[l] # "asks"

(* Of a leg that has missed nothing and heard nothing twice.                *)
Whole(l) ==
    /\ leg[l].pc \in {"collected", "subscribe", "result", "save", "report"} =>
          leg[l].got = written[l]
    /\ \/ leg[l].pc \in {"result", "save", "report"}
       \/ leg[l].pc = "collected" /\ leg[l].got # << >>
       => run[l] = "none" /\ onFile[l] # "asks"
    /\ leg[l].pc = "wait" => Follows(l)

(* A report's name is its own, and once it is written nobody is about to    *)
(* use its name, unless somebody was already.                               *)
NameInv ==
    \A l \in Legs :
        /\ leg[l].pc \in {"save", "report"} =>
              leg[l].path \in {<< NameOf[l] >>, << NameOf[l], l >>}
        /\ leg[l].pc = "report" /\ l \notin blurred =>
              /\ saved[leg[l].path] = << l >>
              /\ \A k \in Legs \ {l} : leg[k].pc = "save" => leg[k].path # leg[l].path

LegsInv ==
    /\ LegTypes
    /\ \A l \in Legs : Early(l) /\ (l \notin blurred => Whole(l))
    /\ NameInv

-----------------------------------------------------------------------------
(* Subscribers and what is sent to them. *)

LEMMA SendIs ==
    ASSUME LegsConstants, NEW box \in Seq(LegEvents), Len(box) <= Buffer,
           NEW e \in LegEvents, NEW n \in Nat
    PROVE  /\ Send(box, e, n) \in Seq(LegEvents) /\ Len(Send(box, e, n)) <= Buffer
           /\ n = 0 => Send(box, e, n) = box
           /\ Len(Send(box, e, n)) = Len(box) => Send(box, e, n) = box
           /\ Len(Send(box, e, n)) = Len(box) + 1 => Send(box, e, n) = Append(box, e)
<1> DEFINE k == Fits(box, n)
           more == [j \in 1 .. k |-> e]
<1>1. k \in Nat /\ k <= n /\ Len(box) + k <= Buffer  BY DEF Fits, LegsConstants
<1>2. more \in Seq(LegEvents) /\ Len(more) = k
  <2>1. more \in [1 .. k -> LegEvents]  OBVIOUS
  <2> HIDE DEF more, k
  <2> QED  BY <1>1, <2>1, SeqDef
<1>3. Send(box, e, n) = box \o more  BY DEF Send
<1>4. /\ box \o more \in Seq(LegEvents) /\ Len(box \o more) = Len(box) + k
      /\ \A i \in 1 .. Len(box) : (box \o more)[i] = box[i]
      /\ \A i \in Len(box) + 1 .. Len(box) + k : (box \o more)[i] = e
  <2>1. \A i \in 1 .. k : more[i] = e  OBVIOUS
  <2> HIDE DEF more, k
  <2>2. box \o more \in Seq(LegEvents) /\ Len(box \o more) = Len(box) + k  BY <1>2
  <2>3. \A i \in 1 .. Len(box) : (box \o more)[i] = box[i]  BY <1>2
  <2>4. ASSUME NEW i \in Len(box) + 1 .. Len(box) + k PROVE (box \o more)[i] = e
    <3>1. i - Len(box) \in 1 .. k  BY <1>1
    <3>2. (box \o more)[i] = more[i - Len(box)]  BY <1>1, <1>2
    <3> QED  BY <2>1, <3>1, <3>2
  <2> QED  BY <2>2, <2>3, <2>4
<1> HIDE DEF more, k
<1>5. k = 0 => box \o more = box
  <2> SUFFICES ASSUME k = 0 PROVE box \o more = box  OBVIOUS
  <2>1. Len(box \o more) = Len(box) /\ \A i \in 1 .. Len(box) : (box \o more)[i] = box[i]
    BY <1>4
  <2> QED  BY <1>4, <2>1, SeqEqual
<1>6. k = 1 => box \o more = Append(box, e)
  <2> SUFFICES ASSUME k = 1 PROVE box \o more = Append(box, e)  OBVIOUS
  <2>1. Append(box, e) \in Seq(LegEvents) /\ Len(Append(box, e)) = Len(box \o more)
    BY <1>4
  <2>2. ASSUME NEW i \in 1 .. Len(box) + 1 PROVE (box \o more)[i] = Append(box, e)[i]
    <3>1. CASE i = Len(box) + 1  BY <1>4, <3>1
    <3>2. CASE i \in 1 .. Len(box)  BY <1>4, <3>2
    <3>3. i = Len(box) + 1 \/ i \in 1 .. Len(box)
      <4>1. Len(box) \in Nat  OBVIOUS
      <4> QED  BY <4>1
    <3> QED  BY <3>1, <3>2, <3>3, Zenon
  <2> QED  BY <1>4, <2>1, <2>2, SeqEqual
<1> QED  BY <1>1, <1>3, <1>4, <1>5, <1>6

LEMMA ShiftedStays ==
    ASSUME NEW S, NEW list \in Seq(S), NEW x, NEW i
    PROVE  Shifted(list, x, i) \in Seq(S) /\ Range(Shifted(list, x, i)) \subseteq Range(list)
<1> DEFINE moved == Shifted(list, x, i)
<1>1. ASSUME NEW j \in 1 .. Len(list)
      PROVE  moved[j] \in S /\ \E m \in 1 .. Len(list) : moved[j] = list[m]
  <2>1. moved[j] = list[j] \/ (j < Len(list) /\ moved[j] = list[j + 1])
    BY Zenon DEF Shifted
  <2>2. j < Len(list) => j + 1 \in 1 .. Len(list)  OBVIOUS
  <2> HIDE DEF moved
  <2> QED  BY <2>1, <2>2
<1>2. moved = [j \in 1 .. Len(list) |-> moved[j]] /\ Len(list) \in Nat  BY DEF Shifted
<1> HIDE DEF moved
<1>3. moved \in [1 .. Len(list) -> S]  BY <1>1, <1>2
<1>4. moved \in Seq(S)  BY <1>2, <1>3, SeqDef
<1>5. DOMAIN moved = 1 .. Len(list) /\ DOMAIN list = 1 .. Len(list)  BY <1>2
<1> QED  BY <1>1, <1>4, <1>5 DEF Range, moved

LEMMA UnsubStays ==
    ASSUME NEW S, NEW list \in Seq(S), NEW x
    PROVE  Unsub(list, x) \in Seq(S) /\ Range(Unsub(list, x)) \subseteq Range(list)
<1>1. CASE x \notin Range(list)  BY <1>1 DEF Unsub
<1>2. CASE x \in Range(list)
  <2> DEFINE rest == Unsub(list, x)
  <2>0. Len(list) \in Nat \ {0}  BY <1>2 DEF Range
  <2>1. ASSUME NEW j \in 1 .. Len(list) - 1
        PROVE  rest[j] \in S /\ \E m \in 1 .. Len(list) : rest[j] = list[m]
    <3>1. j \in 1 .. Len(list) /\ j + 1 \in 1 .. Len(list)  BY <2>0
    <3>2. rest[j] = list[j] \/ rest[j] = list[j + 1]  BY <1>2 DEF Unsub
    <3> QED  BY <3>1, <3>2
  <2>2. rest = [j \in 1 .. Len(list) - 1 |-> rest[j]] /\ Len(list) - 1 \in Nat
    BY <1>2, <2>0 DEF Unsub
  <2> HIDE DEF rest
  <2>3. rest \in [1 .. Len(list) - 1 -> S]  BY <2>1, <2>2
  <2>4. rest \in Seq(S)  BY <2>2, <2>3, SeqDef
  <2>5. DOMAIN rest = 1 .. Len(list) - 1 /\ DOMAIN list = 1 .. Len(list)  BY <2>2
  <2> QED  BY <2>1, <2>4, <2>5 DEF Range, rest
<1> QED  BY <1>1, <1>2

LEMMA DeliverStep ==
    ASSUME LegsConstants, LegTypes, NEW list \in Seq(Legs \cup Viewers), NEW e \in LegEvents,
           Deliver(list, e)
    PROVE  /\ inbox' \in [Legs -> Seq(LegEvents)] /\ \A l \in Legs : Len(inbox'[l]) <= Buffer
           /\ blurred \subseteq blurred'
           /\ \A l \in Legs : l \notin Range(list) => inbox'[l] = inbox[l]
           /\ \A l \in Legs : Awaits(l) /\ l \notin blurred' =>
                 inbox'[l] = IF l = e.of THEN Append(inbox[l], e) ELSE inbox[l]
<1> DEFINE at(l) == {i \in DOMAIN list : list[i] = l}
           times(l) == Cardinality(at(l))
<1>1. \A l \in Legs : times(l) \in Nat /\ (l \notin Range(list) => times(l) = 0)
  <2> SUFFICES ASSUME NEW l \in Legs
               PROVE  times(l) \in Nat /\ (l \notin Range(list) => times(l) = 0)
    OBVIOUS
  <2>1. at(l) \subseteq 1 .. Len(list) /\ Len(list) \in Nat  OBVIOUS
  <2>2. IsFiniteSet(at(l))  BY <2>1, FS_Interval, FS_Subset
  <2>3. l \notin Range(list) => at(l) = {}  BY DEF Range
  <2> QED  BY <2>2, <2>3, FS_CardinalityType, FS_EmptySet
<1>2. /\ inbox' = [l \in Legs |-> Send(inbox[l], e, times(l))]
      /\ blurred' = blurred \cup
            {l \in Legs : Awaits(l) /\ Len(Send(inbox[l], e, times(l)))
                                          # Len(inbox[l]) + IF l = e.of THEN 1 ELSE 0}
  BY DEF Deliver
<1> HIDE DEF times
<1>3. ASSUME NEW l \in Legs
      PROVE  LET box == Send(inbox[l], e, times(l)) IN
             /\ box \in Seq(LegEvents) /\ Len(box) <= Buffer
             /\ l \notin Range(list) => box = inbox[l]
             /\ Len(box) = Len(inbox[l]) => box = inbox[l]
             /\ Len(box) = Len(inbox[l]) + 1 => box = Append(inbox[l], e)
  <2>1. inbox[l] \in Seq(LegEvents) /\ Len(inbox[l]) <= Buffer  BY DEF LegTypes
  <2> QED  BY <1>1, <2>1, SendIs
<1>4. inbox' \in [Legs -> Seq(LegEvents)] /\ \A l \in Legs : Len(inbox'[l]) <= Buffer
  BY <1>2, <1>3
<1>5. \A l \in Legs : l \notin Range(list) => inbox'[l] = inbox[l]  BY <1>2, <1>3
<1>6. ASSUME NEW l \in Legs, Awaits(l), l \notin blurred'
      PROVE  inbox'[l] = IF l = e.of THEN Append(inbox[l], e) ELSE inbox[l]
  <2>1. Len(Send(inbox[l], e, times(l))) = Len(inbox[l]) + IF l = e.of THEN 1 ELSE 0
    BY <1>2, <1>6
  <2>2. Len(inbox[l]) \in Nat  BY DEF LegTypes
  <2>3. inbox'[l] = Send(inbox[l], e, times(l))  BY <1>2
  <2>4. CASE l = e.of
    <3>1. Len(Send(inbox[l], e, times(l))) = Len(inbox[l]) + 1  BY <2>1, <2>4
    <3> QED  BY <1>3, <2>3, <2>4, <3>1
  <2>5. CASE l # e.of
    <3>1. Len(Send(inbox[l], e, times(l))) = Len(inbox[l])  BY <2>1, <2>2, <2>5
    <3> QED  BY <1>3, <2>3, <2>5, <3>1
  <2> QED  BY <2>4, <2>5
<1> QED  BY <1>2, <1>4, <1>5, <1>6

LEMMA PubStep ==
    ASSUME LegsConstants, LegTypes, NEW e \in LegEvents, Pub(e)
    PROVE  /\ inbox' \in [Legs -> Seq(LegEvents)] /\ \A l \in Legs : Len(inbox'[l]) <= Buffer
           /\ subs' \in [Sessions -> Seq(Legs \cup Viewers)]
           /\ \A s \in Sessions : Range(subs'[s]) \subseteq Range(subs[s])
           /\ blurred \subseteq blurred'
           /\ \A l \in Legs : (\A s \in Sessions : l \notin Range(subs[s])) => inbox'[l] = inbox[l]
           /\ \A l \in Legs : Awaits(l) /\ l \notin blurred' =>
                 inbox'[l] = IF l = e.of THEN Append(inbox[l], e) ELSE inbox[l]
<1> DEFINE s == SessionOf[e.of]
<1>1. s \in Sessions /\ subs[s] \in Seq(Legs \cup Viewers) /\ subs \in [Sessions -> Seq(Legs \cup Viewers)]
  BY DEF LegsConstants, LegEvents, LegTypes
<1>2. PICK list \in Seq(Legs \cup Viewers) :
          /\ Deliver(list, e) /\ Range(list) \subseteq Range(subs[s])
          /\ \/ subs' = subs
             \/ \E x : subs' = [subs EXCEPT ![s] = Unsub(subs[s], x)]
  <2>1. CASE Deliver(subs[s], e) /\ subs' = subs  BY <1>1, <2>1
  <2>2. ASSUME NEW x, NEW i, Deliver(Shifted(subs[s], x, i), e),
               subs' = [subs EXCEPT ![s] = Unsub(@, x)]
        PROVE  \E list \in Seq(Legs \cup Viewers) :
                  /\ Deliver(list, e) /\ Range(list) \subseteq Range(subs[s])
                  /\ \/ subs' = subs
                     \/ \E y : subs' = [subs EXCEPT ![s] = Unsub(subs[s], y)]
    BY <1>1, <2>2, ShiftedStays
  <2> QED  BY <2>1, <2>2 DEF Pub
<1>3. /\ inbox' \in [Legs -> Seq(LegEvents)] /\ \A l \in Legs : Len(inbox'[l]) <= Buffer
      /\ blurred \subseteq blurred'
      /\ \A l \in Legs : l \notin Range(list) => inbox'[l] = inbox[l]
      /\ \A l \in Legs : Awaits(l) /\ l \notin blurred' =>
            inbox'[l] = IF l = e.of THEN Append(inbox[l], e) ELSE inbox[l]
  BY <1>2, DeliverStep
<1>4. /\ subs' \in [Sessions -> Seq(Legs \cup Viewers)]
      /\ \A r \in Sessions : Range(subs'[r]) \subseteq Range(subs[r])
  <2>1. CASE subs' = subs  BY <1>1, <2>1
  <2>2. ASSUME NEW x, subs' = [subs EXCEPT ![s] = Unsub(subs[s], x)]
        PROVE  /\ subs' \in [Sessions -> Seq(Legs \cup Viewers)]
               /\ \A r \in Sessions : Range(subs'[r]) \subseteq Range(subs[r])
    <3>1. /\ Unsub(subs[s], x) \in Seq(Legs \cup Viewers)
          /\ Range(Unsub(subs[s], x)) \subseteq Range(subs[s])
      BY <1>1, UnsubStays
    <3>2. \A r \in Sessions : subs'[r] = IF r = s THEN Unsub(subs[s], x) ELSE subs[r]
      BY <1>1, <2>2
    <3>3. subs' \in [Sessions -> Seq(Legs \cup Viewers)]  BY <1>1, <2>2, <3>1
    <3> QED  BY <3>1, <3>2, <3>3
  <2> QED  BY <1>2, <2>1, <2>2
<1>5. \A l \in Legs : (\A r \in Sessions : l \notin Range(subs[r])) => inbox'[l] = inbox[l]
  BY <1>1, <1>2, <1>3
<1> QED  BY <1>3, <1>4, <1>5

-----------------------------------------------------------------------------
(* What a step leaves alone. *)

(* Another leg k moves, or a viewer comes or goes. *)
Apart(k) ==
    /\ leg'[k] = leg[k] /\ run'[k] = run[k] /\ onFile'[k] = onFile[k] /\ written'[k] = written[k]
    /\ \A s \in Sessions : k \in Range(subs'[s]) => k \in Range(subs[s])
    /\ (\A s \in Sessions : k \notin Range(subs[s])) => inbox'[k] = inbox[k]
    /\ leg[k].pc = "wait" /\ k \notin blurred' => inbox'[k] = inbox[k]
    /\ k \in blurred => k \in blurred'

LEMMA ApartKeeps ==
    ASSUME NEW k \in Legs, Early(k), k \notin blurred => Whole(k), Apart(k)
    PROVE  Early(k)' /\ (k \notin blurred' => Whole(k)')
<1>1. /\ leg'[k] = leg[k] /\ run'[k] = run[k] /\ onFile'[k] = onFile[k] /\ written'[k] = written[k]
  BY DEF Apart
<1>2. Early(k)'
  <2>1. leg[k].pc \in {"off", "slot", "run", "collected", "subscribe"} =>
            inbox'[k] = << >> /\ \A s \in Sessions : k \notin Range(subs'[s])
    BY DEF Early, Apart
  <2> QED  BY <1>1, <2>1 DEF Early, Numbered
<1>3. ASSUME k \notin blurred' PROVE Whole(k)'
  <2>1. Whole(k)  BY <1>3 DEF Apart
  <2>2. leg[k].pc = "wait" => Follows(k)'
    <3>1. leg[k].pc = "wait" => inbox'[k] = inbox[k] /\ Follows(k)  BY <1>3, <2>1 DEF Apart, Whole
    <3>2. leg[k].pc = "wait" => (Ended(k)' <=> Ended(k))  BY <3>1 DEF Ended
    <3>3. Numbered(k, leg[k].got) => Numbered(k, leg[k].got)'  BY <1>1 DEF Numbered
    <3> QED  BY <1>1, <3>1, <3>2, <3>3 DEF Follows
  <2> QED  BY <1>1, <2>1, <2>2 DEF Whole
<1> QED  BY <1>2, <1>3

LEMMA NamesStay ==
    ASSUME LegTypes, NameInv, saved' = saved, blurred \subseteq blurred',
           \A l \in Legs : \/ leg'[l].pc \notin {"save", "report"}
                           \/ leg'[l].pc = leg[l].pc /\ leg'[l].path = leg[l].path
    PROVE  NameInv'
<1> SUFFICES ASSUME NEW l \in Legs, leg'[l].pc \in {"save", "report"}
             PROVE  /\ leg'[l].path \in {<< NameOf[l] >>, << NameOf[l], l >>}
                    /\ leg'[l].pc = "report" /\ l \notin blurred' =>
                          /\ saved'[leg'[l].path] = << l >>
                          /\ \A k \in Legs \ {l} :
                                leg'[k].pc = "save" => leg'[k].path # leg'[l].path
  BY DEF NameInv
<1>1. leg'[l].pc = leg[l].pc /\ leg'[l].path = leg[l].path  OBVIOUS
<1>2. \A k \in Legs : leg'[k].pc = "save" => leg[k].pc = "save" /\ leg'[k].path = leg[k].path
  OBVIOUS
<1> QED  BY <1>1, <1>2 DEF NameInv

LEMMA AloneKeeps ==
    ASSUME LegsInv, NEW l \in Legs, LegTypes', NameInv', Early(l)', l \notin blurred' => Whole(l)',
           \A k \in Legs \ {l} : Apart(k)
    PROVE  LegsInv'
<1>1. ASSUME NEW k \in Legs PROVE Early(k)' /\ (k \notin blurred' => Whole(k)')
  <2>1. CASE k = l  BY <2>1
  <2>2. CASE k # l
    <3>1. Early(k) /\ (k \notin blurred => Whole(k)) /\ Apart(k)  BY <2>2 DEF LegsInv
    <3> QED  BY <3>1, ApartKeeps
  <2> QED  BY <2>1, <2>2
<1> QED  BY <1>1 DEF LegsInv

LEMMA GotoIs ==
    ASSUME LegTypes, NEW l \in Legs, NEW to \in LegPCs, Goto(l, to)
    PROVE  /\ leg' \in [Legs -> LegStates] /\ leg'[l] = [leg[l] EXCEPT !.pc = to]
           /\ leg'[l].pc = to /\ leg'[l].got = leg[l].got /\ leg'[l].path = leg[l].path
           /\ \A k \in Legs \ {l} : leg'[k] = leg[k]
BY DEF LegTypes, LegStates, Goto

(* A step of a leg that sends nothing, hears nothing and names no report. *)
LEMMA QuietKeeps ==
    ASSUME LegsInv, NEW l \in Legs, UNCHANGED << subs, inbox, saved, written >>,
           leg' \in [Legs -> LegStates], run' \in [Legs -> {"none", "on", "resumed"}],
           onFile' \in [Legs -> {"none", "open", "asks"}], blurred \subseteq blurred',
           \A k \in Legs \ {l} : leg'[k] = leg[k] /\ run'[k] = run[k] /\ onFile'[k] = onFile[k],
           leg'[l].path = leg[l].path,
           leg'[l].pc \notin {"save", "report"} \/ leg'[l].pc = leg[l].pc,
           Early(l)', l \notin blurred' => Whole(l)'
    PROVE  LegsInv'
<1>1. LegTypes'  BY DEF LegsInv, LegTypes
<1>2. NameInv'
  <2>1. \A k \in Legs : \/ leg'[k].pc \notin {"save", "report"}
                        \/ leg'[k].pc = leg[k].pc /\ leg'[k].path = leg[k].path
    OBVIOUS
  <2> QED  BY <2>1, NamesStay DEF LegsInv
<1>3. \A k \in Legs \ {l} : Apart(k)  BY DEF Apart
<1> QED  BY <1>1, <1>2, <1>3, AloneKeeps

LEMMA LegFacts ==
    ASSUME LegsInv, NEW l \in Legs
    PROVE  /\ LegTypes /\ NameInv /\ Early(l) /\ (l \notin blurred => Whole(l))
           /\ leg[l] \in LegStates /\ leg[l].pc \in LegPCs /\ leg[l].got \in Seq(Legs \X Nat)
           /\ inbox[l] \in Seq(LegEvents) /\ written[l] \in Seq(Legs \X Nat)
           /\ run \in [Legs -> {"none", "on", "resumed"}]
           /\ onFile \in [Legs -> {"none", "open", "asks"}]
BY DEF LegsInv, LegTypes, LegStates

LEMMA StartsKeep ==
    ASSUME LegsInv, NEW l \in Legs, InvokeSubagent(l) \/ Exec(l) \/ SlotsFull(l)
    PROVE  LegsInv'
<1>0. /\ LegTypes /\ NameInv /\ Early(l) /\ (l \notin blurred => Whole(l))
      /\ leg[l] \in LegStates /\ leg[l].pc \in LegPCs /\ leg[l].got \in Seq(Legs \X Nat)
      /\ inbox[l] \in Seq(LegEvents) /\ written[l] \in Seq(Legs \X Nat)
      /\ run \in [Legs -> {"none", "on", "resumed"}]
      /\ onFile \in [Legs -> {"none", "open", "asks"}]
  BY LegFacts
<1>1. CASE InvokeSubagent(l)
  <2>1. /\ leg[l].pc = "off" /\ Goto(l, "slot")
        /\ UNCHANGED << run, onFile, subs, inbox, saved, written, blurred >>
    BY <1>1 DEF InvokeSubagent
  <2>2. /\ leg' \in [Legs -> LegStates] /\ leg'[l].pc = "slot" /\ leg'[l].got = leg[l].got
        /\ leg'[l].path = leg[l].path /\ \A k \in Legs \ {l} : leg'[k] = leg[k]
    BY <1>0, <2>1, GotoIs DEF LegPCs
  <2>3. Early(l)'  BY <1>0, <2>1, <2>2 DEF Early, Numbered
  <2>4. Whole(l)'  BY <2>2 DEF Whole
  <2> QED  BY <1>0, <2>1, <2>2, <2>3, <2>4, QuietKeeps
<1>2. CASE Exec(l)
  <2>1. /\ leg[l].pc = "slot" /\ Goto(l, "run") /\ UNCHANGED << subs, inbox, saved, written, blurred >>
        /\ run' = [run EXCEPT ![l] = "on"] /\ onFile' = [onFile EXCEPT ![l] = "open"]
    BY <1>2 DEF Exec
  <2>2. /\ leg' \in [Legs -> LegStates] /\ leg'[l].pc = "run" /\ leg'[l].got = leg[l].got
        /\ leg'[l].path = leg[l].path /\ \A k \in Legs \ {l} : leg'[k] = leg[k]
    BY <1>0, <2>1, GotoIs DEF LegPCs
  <2>3. /\ run' \in [Legs -> {"none", "on", "resumed"}] /\ run'[l] = "on"
        /\ onFile' \in [Legs -> {"none", "open", "asks"}] /\ onFile'[l] = "open"
        /\ \A k \in Legs \ {l} : run'[k] = run[k] /\ onFile'[k] = onFile[k]
    BY <1>0, <2>1
  <2>4. Early(l)'  BY <1>0, <2>1, <2>2, <2>3 DEF Early, Numbered
  <2>5. Whole(l)'  BY <2>2 DEF Whole
  <2> QED  BY <1>0, <2>1, <2>2, <2>3, <2>4, <2>5, QuietKeeps
<1>3. CASE SlotsFull(l)
  <2>1. /\ leg[l].pc = "slot" /\ Goto(l, "failed")
        /\ UNCHANGED << run, onFile, subs, inbox, saved, written, blurred >>
    BY <1>3 DEF SlotsFull
  <2>2. /\ leg' \in [Legs -> LegStates] /\ leg'[l].pc = "failed" /\ leg'[l].got = leg[l].got
        /\ leg'[l].path = leg[l].path /\ \A k \in Legs \ {l} : leg'[k] = leg[k]
    BY <1>0, <2>1, GotoIs DEF LegPCs
  <2>3. Early(l)'  BY <1>0, <2>1, <2>2 DEF Early, Numbered
  <2>4. Whole(l)'  BY <2>2 DEF Whole
  <2> QED  BY <1>0, <2>1, <2>2, <2>3, <2>4, QuietKeeps
<1> QED  BY <1>1, <1>2, <1>3

LEMMA RunsKeep ==
    ASSUME LegsInv, NEW l \in Legs, RunAsks(l) \/ RunFails(l) \/ Collected(l)
    PROVE  LegsInv'
<1>0. /\ LegTypes /\ NameInv /\ Early(l) /\ (l \notin blurred => Whole(l))
      /\ leg[l] \in LegStates /\ leg[l].pc \in LegPCs /\ leg[l].got \in Seq(Legs \X Nat)
      /\ inbox[l] \in Seq(LegEvents) /\ written[l] \in Seq(Legs \X Nat)
      /\ run \in [Legs -> {"none", "on", "resumed"}]
      /\ onFile \in [Legs -> {"none", "open", "asks"}]
  BY LegFacts
<1>1. CASE RunAsks(l)
  <2>1. /\ run[l] = "on" /\ Goto(l, "collected") /\ UNCHANGED << subs, inbox, saved, written >>
        /\ run' = [run EXCEPT ![l] = "none"] /\ onFile' = [onFile EXCEPT ![l] = "asks"]
        /\ blurred' = IF leg[l].got = << >> THEN blurred ELSE blurred \cup {l}
    BY <1>1 DEF RunAsks
  <2>2. /\ leg' \in [Legs -> LegStates] /\ leg'[l].pc = "collected" /\ leg'[l].got = leg[l].got
        /\ leg'[l].path = leg[l].path /\ \A k \in Legs \ {l} : leg'[k] = leg[k]
    BY <1>0, <2>1, GotoIs DEF LegPCs
  <2>3. /\ run' \in [Legs -> {"none", "on", "resumed"}] /\ run'[l] = "none"
        /\ onFile' \in [Legs -> {"none", "open", "asks"}] /\ onFile'[l] = "asks"
        /\ \A k \in Legs \ {l} : run'[k] = run[k] /\ onFile'[k] = onFile[k]
    BY <1>0, <2>1
  <2>4. Early(l)'  BY <1>0, <2>1, <2>2, <2>3 DEF Early, Numbered
  <2>5. l \notin blurred' => Whole(l)'  BY <1>0, <2>1, <2>2, <2>3 DEF Whole, Early
  <2> QED  BY <1>0, <2>1, <2>2, <2>3, <2>4, <2>5, QuietKeeps
<1>2. CASE RunFails(l)
  <2>1. /\ run[l] = "on" /\ Goto(l, "failed") /\ run' = [run EXCEPT ![l] = "none"]
        /\ UNCHANGED << onFile, subs, inbox, saved, written, blurred >>
    BY <1>2 DEF RunFails
  <2>2. /\ leg' \in [Legs -> LegStates] /\ leg'[l].pc = "failed" /\ leg'[l].got = leg[l].got
        /\ leg'[l].path = leg[l].path /\ \A k \in Legs \ {l} : leg'[k] = leg[k]
    BY <1>0, <2>1, GotoIs DEF LegPCs
  <2>3. /\ run' \in [Legs -> {"none", "on", "resumed"}] /\ run'[l] = "none"
        /\ \A k \in Legs \ {l} : run'[k] = run[k]
    BY <1>0, <2>1
  <2>4. Early(l)'  BY <1>0, <2>1, <2>2, <2>3 DEF Early, Numbered
  <2>5. Whole(l)'  BY <2>2 DEF Whole
  <2> QED  BY <1>0, <2>1, <2>2, <2>3, <2>4, <2>5, QuietKeeps
<1>3. CASE Collected(l)
  <2> DEFINE then == IF leg[l].got # << >> THEN "result"
                     ELSE IF onFile[l] = "asks" THEN "subscribe" ELSE "failed"
  <2>1. /\ leg[l].pc = "collected" /\ Goto(l, then) /\ then \in LegPCs
        /\ UNCHANGED << run, onFile, subs, inbox, saved, written, blurred >>
    BY <1>3 DEF Collected, LegPCs
  <2>2. /\ leg' \in [Legs -> LegStates] /\ leg'[l].pc = then /\ leg'[l].got = leg[l].got
        /\ leg'[l].path = leg[l].path /\ \A k \in Legs \ {l} : leg'[k] = leg[k]
    BY <1>0, <2>1, GotoIs
  <2>3. Early(l)'  BY <1>0, <2>1, <2>2 DEF Early, Numbered
  <2>4. l \notin blurred => Whole(l)'  BY <1>0, <2>1, <2>2 DEF Whole
  <2> QED  BY <1>0, <2>1, <2>2, <2>3, <2>4, QuietKeeps
<1> QED  BY <1>1, <1>2, <1>3

LEMMA ResumesKeep ==
    ASSUME LegsInv, NEW l \in Legs, ResumeSessionPending(l) \/ StreamAsks(l)
    PROVE  LegsInv'
<1>0. /\ LegTypes /\ NameInv /\ Early(l) /\ (l \notin blurred => Whole(l))
      /\ leg[l] \in LegStates /\ leg[l].pc \in LegPCs /\ leg[l].got \in Seq(Legs \X Nat)
      /\ inbox[l] \in Seq(LegEvents) /\ written[l] \in Seq(Legs \X Nat)
      /\ run \in [Legs -> {"none", "on", "resumed"}]
      /\ onFile \in [Legs -> {"none", "open", "asks"}] /\ leg \in [Legs -> LegStates]
  BY LegFacts DEF LegTypes
<1>1. PICK r, f : /\ run' = [run EXCEPT ![l] = r] /\ onFile' = [onFile EXCEPT ![l] = f]
                  /\ \/ onFile[l] = "asks" /\ r = "resumed" /\ f = "open"
                     \/ run[l] = "resumed" /\ r = "none" /\ f = "asks"
                  /\ UNCHANGED << leg, subs, inbox, saved, written, blurred >>
  <2>1. CASE ResumeSessionPending(l)  BY <2>1 DEF ResumeSessionPending
  <2>2. CASE StreamAsks(l)  BY <2>2 DEF StreamAsks
  <2> QED  BY <2>1, <2>2
<1>2. /\ run' \in [Legs -> {"none", "on", "resumed"}] /\ run'[l] = r
      /\ onFile' \in [Legs -> {"none", "open", "asks"}] /\ onFile'[l] = f
      /\ \A k \in Legs \ {l} : run'[k] = run[k] /\ onFile'[k] = onFile[k]
  BY <1>0, <1>1
<1>3. leg[l].pc \notin {"off", "slot", "run"}
  BY <1>0, <1>1 DEF Early
<1>4. Early(l)'  BY <1>0, <1>1, <1>2, <1>3 DEF Early, Numbered
<1>5. ASSUME l \notin blurred PROVE Whole(l)'
  <2>1. Whole(l)  BY <1>0, <1>5
  <2>2. leg[l].pc = "wait" => Follows(l)'
    <3>1. ASSUME leg[l].pc = "wait" PROVE ~ Ended(l) /\ Follows(l)
      BY <1>0, <1>1, <2>1, <3>1 DEF Whole, Follows
    <3>2. leg[l].pc = "wait" => ~ Ended(l)'  BY <1>1, <3>1 DEF Ended
    <3> QED  BY <1>1, <3>1, <3>2 DEF Follows, Numbered
  <2> QED  BY <1>0, <1>1, <1>2, <2>1, <2>2 DEF Whole
<1> QED  BY <1>0, <1>1, <1>2, <1>3, <1>4, <1>5, QuietKeeps

-----------------------------------------------------------------------------
(* A leg subscribes and hears. *)

LEMMA SubIs ==
    ASSUME LegTypes, NEW x \in Legs \cup Viewers, NEW s \in Sessions, Sub(x, s)
    PROVE  /\ subs' \in [Sessions -> Seq(Legs \cup Viewers)]
           /\ \A r \in Sessions : Range(subs'[r]) \subseteq Range(subs[r]) \cup {x}
<1>1. subs' = [subs EXCEPT ![s] = Append(subs[s], x)] /\ subs \in [Sessions -> Seq(Legs \cup Viewers)]
  BY DEF Sub, LegTypes
<1>2. Append(subs[s], x) \in Seq(Legs \cup Viewers)  BY <1>1
<1>3. Range(Append(subs[s], x)) \subseteq Range(subs[s]) \cup {x}
  <2>1. /\ DOMAIN subs[s] = 1 .. Len(subs[s]) /\ Len(subs[s]) \in Nat
        /\ DOMAIN Append(subs[s], x) = 1 .. Len(subs[s]) + 1
    BY <1>1
  <2>2. \A i \in 1 .. Len(subs[s]) : Append(subs[s], x)[i] = subs[s][i]  BY <1>1
  <2>3. Append(subs[s], x)[Len(subs[s]) + 1] = x  BY <1>1
  <2>4. \A i \in 1 .. Len(subs[s]) + 1 : i = Len(subs[s]) + 1 \/ i \in 1 .. Len(subs[s])  BY <2>1
  <2> QED  BY <2>1, <2>2, <2>3, <2>4 DEF Range
<1>4. \A r \in Sessions : subs'[r] = IF r = s THEN Append(subs[s], x) ELSE subs[r]  BY <1>1
<1> QED  BY <1>1, <1>2, <1>3, <1>4

LEMMA WaitsKeep == ASSUME LegsConstants, LegsInv, NEW l \in Legs, WaitResume(l) PROVE LegsInv'
<1>0. /\ LegTypes /\ NameInv /\ Early(l) /\ (l \notin blurred => Whole(l))
      /\ leg[l] \in LegStates /\ leg[l].got \in Seq(Legs \X Nat)
      /\ inbox[l] \in Seq(LegEvents) /\ written[l] \in Seq(Legs \X Nat)
  BY LegFacts
<1>1. /\ leg[l].pc = "subscribe" /\ Goto(l, "wait") /\ Sub(l, SessionOf[l])
      /\ UNCHANGED << run, onFile, inbox, saved, written, blurred >> /\ SessionOf[l] \in Sessions
  BY DEF WaitResume, LegsConstants
<1>2. /\ leg' \in [Legs -> LegStates] /\ leg'[l].pc = "wait" /\ leg'[l].got = leg[l].got
      /\ leg'[l].path = leg[l].path /\ \A k \in Legs \ {l} : leg'[k] = leg[k]
  BY <1>0, <1>1, GotoIs DEF LegPCs
<1>3. /\ subs' \in [Sessions -> Seq(Legs \cup Viewers)]
      /\ \A r \in Sessions : Range(subs'[r]) \subseteq Range(subs[r]) \cup {l}
  BY <1>0, <1>1, SubIs
<1>4. LegTypes'  BY <1>0, <1>1, <1>2, <1>3 DEF LegTypes
<1>5. NameInv'
  <2>1. \A k \in Legs : \/ leg'[k].pc \notin {"save", "report"}
                        \/ leg'[k].pc = leg[k].pc /\ leg'[k].path = leg[k].path
    BY <1>2
  <2> QED  BY <1>0, <1>1, <2>1, NamesStay
<1>6. \A k \in Legs \ {l} : Apart(k)
  <2> SUFFICES ASSUME NEW k \in Legs \ {l} PROVE Apart(k)  OBVIOUS
  <2>1. \A s \in Sessions : k \in Range(subs'[s]) => k \in Range(subs[s])  BY <1>3
  <2> QED  BY <1>1, <1>2, <2>1 DEF Apart
<1>7. Early(l)'  BY <1>0, <1>1, <1>2 DEF Early, Numbered
<1>8. ASSUME l \notin blurred PROVE Whole(l)'
  <2>1. inbox[l] = << >> /\ leg[l].got = written[l] /\ Numbered(l, written[l])
    BY <1>0, <1>1, <1>8 DEF Whole, Early
  <2>2. Follows(l)'
    <3>1. Len(inbox[l]) = 0 /\ Len(written[l]) \in Nat  BY <1>0, <2>1
    <3> QED  BY <1>1, <1>2, <2>1, <3>1 DEF Follows, Ended, Numbered
  <2> QED  BY <1>2, <2>2 DEF Whole
<1> QED  BY <1>0, <1>1, <1>4, <1>5, <1>6, <1>7, <1>8, AloneKeeps

LEMMA StopIs ==
    ASSUME LegsConstants, LegTypes, NEW l \in Legs, StopWaiting(l)
    PROVE  /\ subs' \in [Sessions -> Seq(Legs \cup Viewers)]
           /\ \A s \in Sessions : Range(subs'[s]) \subseteq Range(subs[s])
           /\ inbox' \in [Legs -> Seq(LegEvents)] /\ \A k \in Legs : Len(inbox'[k]) <= Buffer
           /\ \A k \in Legs \ {l} : inbox'[k] = inbox[k]
<1> DEFINE s == SessionOf[l]
<1>1. /\ s \in Sessions /\ subs \in [Sessions -> Seq(Legs \cup Viewers)]
      /\ subs' = [subs EXCEPT ![s] = Unsub(subs[s], l)] /\ inbox' = [inbox EXCEPT ![l] = << >>]
      /\ inbox \in [Legs -> Seq(LegEvents)] /\ \A k \in Legs : Len(inbox[k]) <= Buffer
      /\ << >> \in Seq(LegEvents) /\ Len(<< >>) <= Buffer
  BY DEF StopWaiting, LegTypes, LegsConstants
<1>2. Unsub(subs[s], l) \in Seq(Legs \cup Viewers) /\ Range(Unsub(subs[s], l)) \subseteq Range(subs[s])
  BY <1>1, UnsubStays
<1>3. \A r \in Sessions : subs'[r] = IF r = s THEN Unsub(subs[s], l) ELSE subs[r]  BY <1>1
<1>4. \A k \in Legs : inbox'[k] = IF k = l THEN << >> ELSE inbox[k]  BY <1>1
<1>5. \A k \in Legs : Len(inbox'[k]) <= Buffer  BY <1>1, <1>4
<1>6. inbox' \in [Legs -> Seq(LegEvents)]  BY <1>1
<1>7. subs' \in [Sessions -> Seq(Legs \cup Viewers)]  BY <1>1, <1>2
<1> QED  BY <1>2, <1>3, <1>4, <1>5, <1>6, <1>7

(* The wait ends, with a report or without one. *)
LEMMA StopsKeep ==
    ASSUME LegsConstants, LegsInv, NEW l \in Legs, leg[l].pc = "wait", NEW to \in {"failed", "result"},
           Goto(l, to), StopWaiting(l), UNCHANGED << run, onFile, saved, written, blurred >>,
           to = "result" /\ l \notin blurred =>
               leg[l].got = written[l] /\ run[l] = "none" /\ onFile[l] # "asks"
    PROVE  LegsInv'
<1>0. /\ LegTypes /\ NameInv /\ Early(l) /\ leg[l] \in LegStates
      /\ leg[l].got \in Seq(Legs \X Nat) /\ written[l] \in Seq(Legs \X Nat)
  BY LegFacts
<1>1. to \in LegPCs  BY DEF LegPCs
<1>2. /\ leg' \in [Legs -> LegStates] /\ leg'[l].pc = to /\ leg'[l].got = leg[l].got
      /\ leg'[l].path = leg[l].path /\ \A k \in Legs \ {l} : leg'[k] = leg[k]
  BY <1>0, <1>1, GotoIs
<1>3. /\ subs' \in [Sessions -> Seq(Legs \cup Viewers)]
      /\ \A s \in Sessions : Range(subs'[s]) \subseteq Range(subs[s])
      /\ inbox' \in [Legs -> Seq(LegEvents)] /\ \A k \in Legs : Len(inbox'[k]) <= Buffer
      /\ \A k \in Legs \ {l} : inbox'[k] = inbox[k]
  BY <1>0, StopIs
<1>4. LegTypes'  BY <1>0, <1>2, <1>3 DEF LegTypes
<1>5. NameInv'
  <2>1. \A k \in Legs : \/ leg'[k].pc \notin {"save", "report"}
                        \/ leg'[k].pc = leg[k].pc /\ leg'[k].path = leg[k].path
    BY <1>2
  <2> QED  BY <1>0, <2>1, NamesStay
<1>6. \A k \in Legs \ {l} : Apart(k)  BY <1>2, <1>3 DEF Apart
<1>7. Early(l)'  BY <1>0, <1>2 DEF Early, Numbered
<1>8. l \notin blurred => Whole(l)'  BY <1>2 DEF Whole
<1> QED  BY <1>4, <1>5, <1>6, <1>7, <1>8, AloneKeeps

LEMMA Sums ==
    ASSUME NEW n \in Nat \ {0}, NEW m \in Nat
    PROVE  /\ n = 1 \/ n > 1
           /\ n > 1 => n - 1 \in 1 .. n - 1 /\ (n - 1) + 1 = n /\ n - 1 # 0
           /\ m + n - 1 = (m + 1) + (n - 1) - 1 /\ m + n - 0 = (m + 1) + (n - 1) - 0
OBVIOUS

LEMMA HearsKeep ==
    ASSUME LegsConstants, LegsInv, NEW l \in Legs, Hear(l) \/ WaitExpires(l)
    PROVE  LegsInv'
<1>0. /\ LegTypes /\ NameInv /\ Early(l) /\ (l \notin blurred => Whole(l))
      /\ leg[l] \in LegStates /\ leg[l].pc \in LegPCs /\ leg[l].got \in Seq(Legs \X Nat)
      /\ inbox[l] \in Seq(LegEvents) /\ written[l] \in Seq(Legs \X Nat)
      /\ leg \in [Legs -> LegStates] /\ inbox \in [Legs -> Seq(LegEvents)]
      /\ \A k \in Legs : Len(inbox[k]) <= Buffer
  BY LegFacts DEF LegTypes
<1>1. CASE WaitExpires(l)  BY <1>1, StopsKeep DEF WaitExpires
<1> DEFINE e == inbox[l][1]
           n == Len(inbox[l])
           m == Len(leg[l].got)
<1>2. ASSUME Hear(l) PROVE n \in Nat \ {0} /\ e \in LegEvents /\ leg[l].pc = "wait" /\ m \in Nat
  BY <1>0, <1>2 DEF Hear
<1>3. CASE Hear(l) /\ e.kind # "text"
  <2>1. ASSUME l \notin blurred
        PROVE  leg[l].got = written[l] /\ run[l] = "none" /\ onFile[l] # "asks"
    <3>1. Follows(l) /\ Numbered(l, written[l])  BY <1>0, <1>2, <1>3, <2>1 DEF Whole, Early
    <3>2. n = 1
      <4>1. 1 \in 1 .. n  BY <1>2, <1>3
      <4> QED  BY <1>3, <3>1, <4>1 DEF Follows
    <3>3. Ended(l)
      <4>1. inbox[l] # << >>  BY <1>3 DEF Hear
      <4> QED  BY <1>3, <3>2, <4>1 DEF Ended
    <3>4. Len(written[l]) = m  BY <1>2, <3>1, <3>2, <3>3 DEF Follows
    <3>5. leg[l].got = written[l]  BY <3>1, <3>4 DEF Follows, Numbered
    <3> QED  BY <3>1, <3>3, <3>5 DEF Follows
  <2>2. /\ Goto(l, IF leg[l].got = << >> THEN "failed" ELSE "result") /\ StopWaiting(l)
        /\ UNCHANGED << run, onFile, saved, written, blurred >>
    BY <1>3 DEF Hear
  <2> QED  BY <1>2, <1>3, <2>1, <2>2, StopsKeep
<1>4. CASE Hear(l) /\ e.kind = "text"
  <2>1. /\ leg' = [leg EXCEPT ![l].got = Append(leg[l].got, << e.of, e.n >>)]
        /\ inbox' = [inbox EXCEPT ![l] = Tail(inbox[l])]
        /\ UNCHANGED << run, onFile, subs, saved, written, blurred >>
    BY <1>4 DEF Hear
  <2>s. /\ n \in Nat \ {0} /\ m \in Nat /\ (n = 1 \/ n > 1)
        /\ n > 1 => n - 1 \in 1 .. n - 1 /\ (n - 1) + 1 = n /\ n - 1 # 0
        /\ m + n - 1 = (m + 1) + (n - 1) - 1 /\ m + n - 0 = (m + 1) + (n - 1) - 0
    <3>1. n \in Nat \ {0} /\ m \in Nat  BY <1>2, <1>4
    <3> HIDE DEF n, m
    <3> QED  BY <3>1, Sums
  <2> DEFINE more == Append(leg[l].got, << e.of, e.n >>)
  <2>2. << e.of, e.n >> \in Legs \X Nat  BY <1>2, <1>4 DEF LegEvents
  <2>3. more \in Seq(Legs \X Nat) /\ Len(more) = m + 1
        /\ (\A i \in 1 .. m : more[i] = leg[l].got[i]) /\ more[m + 1] = << e.of, e.n >>
    BY <1>0, <2>2
  <2> HIDE DEF more
  <2>4. /\ leg' \in [Legs -> LegStates] /\ leg'[l].pc = "wait" /\ leg'[l].got = more
        /\ leg'[l].path = leg[l].path /\ \A k \in Legs \ {l} : leg'[k] = leg[k]
    <3>1. leg' = [leg EXCEPT ![l] = [leg[l] EXCEPT !.got = more]]  BY <2>1 DEF more
    <3>2. [leg[l] EXCEPT !.got = more] \in LegStates  BY <1>0, <2>3 DEF LegStates
    <3> QED  BY <1>0, <1>2, <1>4, <3>1, <3>2 DEF LegStates
  <2>5. /\ Tail(inbox[l]) \in Seq(LegEvents) /\ Len(Tail(inbox[l])) = n - 1
        /\ \A i \in 1 .. n - 1 : Tail(inbox[l])[i] = inbox[l][i + 1]
    BY <1>0, <1>2, <1>4
  <2>6. /\ inbox' \in [Legs -> Seq(LegEvents)] /\ inbox'[l] = Tail(inbox[l])
        /\ \A k \in Legs \ {l} : inbox'[k] = inbox[k]
    BY <1>0, <2>1, <2>5
  <2>7. \A k \in Legs : Len(inbox'[k]) <= Buffer
    <3>1. Len(inbox'[l]) <= Buffer  BY <1>0, <1>2, <1>4, <2>5, <2>6 DEF LegsConstants
    <3> QED  BY <1>0, <2>6, <3>1
  <2>8. LegTypes'  BY <1>0, <2>1, <2>4, <2>6, <2>7 DEF LegTypes
  <2>9. NameInv'
    <3>1. \A k \in Legs : \/ leg'[k].pc \notin {"save", "report"}
                          \/ leg'[k].pc = leg[k].pc /\ leg'[k].path = leg[k].path
      BY <2>4
    <3> QED  BY <1>0, <2>1, <3>1, NamesStay
  <2>10. \A k \in Legs \ {l} : Apart(k)  BY <2>1, <2>4, <2>6 DEF Apart
  <2>11. Early(l)'  BY <1>0, <1>2, <1>4, <2>1, <2>4 DEF Early, Numbered
  <2>12. ASSUME l \notin blurred PROVE Whole(l)'
    <3>1. Follows(l)  BY <1>0, <1>2, <1>4, <2>12 DEF Whole
    <3>2. e.of = l /\ e.n = m + 1  BY <1>2, <1>4, <3>1 DEF Follows
    <3>3. Numbered(l, more)
      <4>1. \A i \in 1 .. m : leg[l].got[i] = << l, i >>  BY <3>1 DEF Follows, Numbered
      <4>2. \A i \in 1 .. m + 1 : more[i] = << l, i >>
        <5> SUFFICES ASSUME NEW i \in 1 .. m + 1 PROVE more[i] = << l, i >>  OBVIOUS
        <5>1. i = m + 1 \/ i \in 1 .. m  BY <1>2, <1>4
        <5> QED  BY <2>3, <3>2, <4>1, <5>1
      <4>3. more = [i \in 1 .. m + 1 |-> more[i]]  BY <2>3
      <4>4. [i \in 1 .. m + 1 |-> more[i]] = [i \in 1 .. m + 1 |-> << l, i >>]  BY <4>2
      <4> QED  BY <2>3, <4>3, <4>4 DEF Numbered
    <3>4. Ended(l)' <=> Ended(l)
      <4>1. CASE n = 1
        <5>1. inbox'[l] = << >>  BY <2>5, <2>6, <4>1
        <5> QED  BY <1>4, <4>1, <5>1 DEF Ended
      <4>2. CASE n > 1
        <5>1. Tail(inbox[l])[n - 1] = inbox[l][n] /\ Tail(inbox[l]) # << >>
          <6>1. n - 1 \in 1 .. n - 1 /\ (n - 1) + 1 = n /\ n - 1 # 0  BY <2>s, <4>2
          <6>2. Tail(inbox[l]) # << >>  BY <2>5, <6>1
          <6> QED  BY <2>5, <6>1, <6>2
        <5> QED  BY <2>5, <2>6, <4>2, <5>1 DEF Ended
      <4>3. n = 1 \/ n > 1  BY <2>s
      <4> QED  BY <4>1, <4>2, <4>3
    <3>5. \A i \in 1 .. Len(inbox'[l]) :
              /\ inbox'[l][i].of = l
              /\ inbox'[l][i].kind = "text" => inbox'[l][i].n = Len(more) + i
              /\ inbox'[l][i].kind # "text" => i = Len(inbox'[l])
      <4> SUFFICES ASSUME NEW i \in 1 .. n - 1
                   PROVE  /\ inbox[l][i + 1].of = l
                          /\ inbox[l][i + 1].kind = "text" => inbox[l][i + 1].n = Len(more) + i
                          /\ inbox[l][i + 1].kind # "text" => i = n - 1
        BY <2>5, <2>6
      <4>1. i + 1 \in 1 .. n  BY <1>2, <1>4
      <4> QED  BY <1>2, <1>4, <2>3, <3>1, <4>1 DEF Follows
    <3>6. Len(written[l]) = Len(more) + Len(inbox'[l]) - (IF Ended(l) THEN 1 ELSE 0)
      <4>1. CASE Ended(l)
        <5>1. Len(written[l]) = m + n - 1  BY <3>1, <4>1 DEF Follows
        <5>2. m + n - 1 = (m + 1) + (n - 1) - 1  BY <2>s
        <5>3. Len(inbox'[l]) = n - 1  BY <2>5, <2>6
        <5> QED  BY <2>3, <4>1, <5>1, <5>2, <5>3
      <4>2. CASE ~ Ended(l)
        <5>1. Len(written[l]) = m + n - 0  BY <3>1, <4>2 DEF Follows
        <5>2. m + n - 0 = (m + 1) + (n - 1) - 0  BY <2>s
        <5>3. Len(inbox'[l]) = n - 1  BY <2>5, <2>6
        <5> QED  BY <2>3, <4>2, <5>1, <5>2, <5>3
      <4> QED  BY <4>1, <4>2
    <3>7. Follows(l)'  BY <2>1, <2>4, <3>1, <3>3, <3>4, <3>5, <3>6 DEF Follows
    <3> QED  BY <2>4, <3>7 DEF Whole
  <2> QED  BY <2>1, <2>8, <2>9, <2>10, <2>11, <2>12, AloneKeeps
<1> QED  BY <1>1, <1>3, <1>4

LEMMA ViewsKeep ==
    ASSUME LegsConstants, LegsInv, NEW v \in Viewers, NEW s \in Sessions, View(v, s) \/ CloseView(v, s)
    PROVE  LegsInv'
<1>0. LegTypes /\ NameInv /\ v \notin Legs  BY DEF LegsInv, LegsConstants
<1>1. /\ UNCHANGED << leg, run, onFile, inbox, saved, written, blurred >>
      /\ subs' \in [Sessions -> Seq(Legs \cup Viewers)]
      /\ \A r \in Sessions : Range(subs'[r]) \subseteq Range(subs[r]) \cup {v}
  <2>1. CASE View(v, s)  BY <1>0, <2>1, SubIs DEF View
  <2>2. CASE CloseView(v, s)
    <3>1. /\ UNCHANGED << leg, run, onFile, inbox, saved, written, blurred >>
          /\ subs' = [subs EXCEPT ![s] = Unsub(subs[s], v)]
          /\ subs \in [Sessions -> Seq(Legs \cup Viewers)]
      BY <1>0, <2>2 DEF CloseView, LegTypes
    <3>2. /\ Unsub(subs[s], v) \in Seq(Legs \cup Viewers)
          /\ Range(Unsub(subs[s], v)) \subseteq Range(subs[s])
      BY <3>1, UnsubStays
    <3>3. \A r \in Sessions : subs'[r] = IF r = s THEN Unsub(subs[s], v) ELSE subs[r]  BY <3>1
    <3>4. subs' \in [Sessions -> Seq(Legs \cup Viewers)]  BY <3>1, <3>2
    <3> QED  BY <3>1, <3>2, <3>3, <3>4
  <2> QED  BY <2>1, <2>2
<1>2. LegTypes'  BY <1>0, <1>1 DEF LegTypes
<1>3. NameInv'
  <2>1. \A k \in Legs : \/ leg'[k].pc \notin {"save", "report"}
                        \/ leg'[k].pc = leg[k].pc /\ leg'[k].path = leg[k].path
    BY <1>1
  <2> QED  BY <1>0, <1>1, <2>1, NamesStay
<1>4. ASSUME NEW k \in Legs PROVE Early(k)' /\ (k \notin blurred' => Whole(k)')
  <2>1. Apart(k)
    <3>1. \A r \in Sessions : k \in Range(subs'[r]) => k \in Range(subs[r])  BY <1>0, <1>1
    <3> QED  BY <1>1, <3>1 DEF Apart
  <2>2. Early(k) /\ (k \notin blurred => Whole(k))  BY DEF LegsInv
  <2> QED  BY <2>1, <2>2, ApartKeeps
<1> QED  BY <1>2, <1>3, <1>4 DEF LegsInv

-----------------------------------------------------------------------------
(* A run publishes. *)

(* The session hears of leg l's own event e; l writes and moves on. *)
LEMMA PubKeeps ==
    ASSUME LegsConstants, LegsInv, NEW l \in Legs, NEW e \in LegEvents, Pub(e), e.of = l,
           leg' \in [Legs -> LegStates], run' \in [Legs -> {"none", "on", "resumed"}],
           onFile' \in [Legs -> {"none", "open", "asks"}], written' \in [Legs -> Seq(Legs \X Nat)],
           saved' = saved, leg'[l].path = leg[l].path,
           leg'[l].pc \notin {"save", "report"} \/ leg'[l].pc = leg[l].pc,
           \A k \in Legs \ {l} : /\ leg'[k] = leg[k] /\ run'[k] = run[k]
                                 /\ onFile'[k] = onFile[k] /\ written'[k] = written[k],
           Early(l)', l \notin blurred' => Whole(l)'
    PROVE  LegsInv'
<1>0. LegTypes /\ NameInv  BY DEF LegsInv
<1>1. /\ inbox' \in [Legs -> Seq(LegEvents)] /\ \A k \in Legs : Len(inbox'[k]) <= Buffer
      /\ subs' \in [Sessions -> Seq(Legs \cup Viewers)]
      /\ \A s \in Sessions : Range(subs'[s]) \subseteq Range(subs[s])
      /\ blurred \subseteq blurred'
      /\ \A k \in Legs : (\A s \in Sessions : k \notin Range(subs[s])) => inbox'[k] = inbox[k]
      /\ \A k \in Legs : Awaits(k) /\ k \notin blurred' =>
            inbox'[k] = IF k = e.of THEN Append(inbox[k], e) ELSE inbox[k]
  BY <1>0, PubStep
<1>2. LegTypes'  BY <1>0, <1>1 DEF LegTypes
<1>3. NameInv'
  <2>1. \A k \in Legs : \/ leg'[k].pc \notin {"save", "report"}
                        \/ leg'[k].pc = leg[k].pc /\ leg'[k].path = leg[k].path
    OBVIOUS
  <2> QED  BY <1>0, <1>1, <2>1, NamesStay
<1>4. ASSUME NEW k \in Legs \ {l} PROVE Apart(k)
  <2>1. leg[k].pc = "wait" /\ k \notin blurred' => inbox'[k] = inbox[k]
    <3>1. leg[k].pc = "wait" => Awaits(k)  BY DEF Awaits
    <3> QED  BY <1>1, <3>1
  <2> QED  BY <1>1, <2>1 DEF Apart
<1> QED  BY <1>2, <1>3, <1>4, AloneKeeps

LEMMA NumberedMore ==
    ASSUME NEW l \in Legs, NEW texts \in Seq(Legs \X Nat), Numbered(l, texts)
    PROVE  LET more == Append(texts, << l, Len(texts) + 1 >>) IN
           more \in Seq(Legs \X Nat) /\ Numbered(l, more) /\ Len(more) = Len(texts) + 1
<1> DEFINE n == Len(texts)
           x == << l, n + 1 >>
           more == Append(texts, x)
<1>1. n \in Nat /\ x \in Legs \X Nat  OBVIOUS
<1>2. /\ more \in Seq(Legs \X Nat) /\ Len(more) = n + 1 /\ more[n + 1] = x
      /\ \A i \in 1 .. n : more[i] = texts[i]
  BY <1>1
<1>3. \A i \in 1 .. n : texts[i] = << l, i >>  BY DEF Numbered
<1>4. \A i \in 1 .. n + 1 : more[i] = << l, i >>
  <2> SUFFICES ASSUME NEW i \in 1 .. n + 1 PROVE more[i] = << l, i >>  OBVIOUS
  <2>1. i = n + 1 \/ i \in 1 .. n  BY <1>1
  <2> QED  BY <1>2, <1>3, <2>1
<1>5. more = [i \in 1 .. n + 1 |-> more[i]]  BY <1>2
<1>6. [i \in 1 .. n + 1 |-> more[i]] = [i \in 1 .. n + 1 |-> << l, i >>]  BY <1>4
<1> QED  BY <1>2, <1>5, <1>6 DEF Numbered

LEMMA OneMore ==
    ASSUME NEW n \in Nat, NEW m \in Nat
    PROVE  /\ (m + n) + 1 = m + (n + 1) /\ m + n + 1 = m + (n + 1) - 0
           /\ m + n = m + (n + 1) - 1
OBVIOUS

(* What a waiting leg has been told stays a part of what was written. *)
LEMMA FollowsMore ==
    ASSUME LegsInv, NEW l \in Legs, NEW e \in LegEvents, e.of = l, e.n = Len(written[l]) + 1,
           Follows(l), run[l] = "resumed", inbox'[l] = Append(inbox[l], e), leg'[l] = leg[l],
           \/ e.kind = "text" /\ Len(written'[l]) = Len(written[l]) + 1
           \/ e.kind # "text" /\ Len(written'[l]) = Len(written[l])
              /\ run'[l] = "none" /\ onFile'[l] # "asks"
    PROVE  Follows(l)'
<1> DEFINE n == Len(inbox[l])
           m == Len(leg[l].got)
<1>0. /\ n \in Nat /\ m \in Nat /\ inbox[l] \in Seq(LegEvents) /\ Len(written[l]) \in Nat
  <2>1. /\ inbox[l] \in Seq(LegEvents) /\ leg[l].got \in Seq(Legs \X Nat)
        /\ written[l] \in Seq(Legs \X Nat)
    BY LegFacts
  <2> QED  BY <2>1
<1>s. /\ (m + n) + 1 = m + (n + 1) /\ m + n + 1 = m + (n + 1) - 0
      /\ m + n = m + (n + 1) - 1
  <2>1. n \in Nat /\ m \in Nat  BY <1>0
  <2> HIDE DEF n, m
  <2> QED  BY <2>1, OneMore
<1>1. ~ Ended(l)  BY DEF Follows
<1>2. Len(written[l]) = m + n  BY <1>0, <1>1 DEF Follows
<1>3. /\ Len(inbox'[l]) = n + 1 /\ inbox'[l][n + 1] = e /\ inbox'[l] # << >>
      /\ \A i \in 1 .. n : inbox'[l][i] = inbox[l][i]
  BY <1>0
<1>4. Ended(l)' <=> e.kind # "text"  BY <1>3 DEF Ended
<1>5. \A i \in 1 .. n : inbox[l][i].kind = "text"
  <2> SUFFICES ASSUME NEW i \in 1 .. n, inbox[l][i].kind # "text" PROVE FALSE  OBVIOUS
  <2>1. i = n  BY DEF Follows
  <2>2. inbox[l] # << >>  BY <1>0
  <2> QED  BY <1>1, <2>1, <2>2 DEF Ended
<1>6. \A i \in 1 .. n + 1 :
          /\ inbox'[l][i].of = l
          /\ inbox'[l][i].kind = "text" => inbox'[l][i].n = m + i
          /\ inbox'[l][i].kind # "text" => i = n + 1
  <2> SUFFICES ASSUME NEW i \in 1 .. n + 1
               PROVE  /\ inbox'[l][i].of = l
                      /\ inbox'[l][i].kind = "text" => inbox'[l][i].n = m + i
                      /\ inbox'[l][i].kind # "text" => i = n + 1
    OBVIOUS
  <2>1. CASE i = n + 1
    <3>1. inbox'[l][i] = e  BY <1>3, <2>1
    <3>2. e.n = (m + n) + 1 /\ (m + n) + 1 = m + (n + 1)  BY <1>2, <1>s
    <3>3. e.n = m + i  BY <2>1, <3>2
    <3> QED  BY <2>1, <3>1, <3>3
  <2>2. CASE i \in 1 .. n  BY <1>3, <1>5, <2>2 DEF Follows
  <2>3. i = n + 1 \/ i \in 1 .. n  BY <1>0
  <2> QED  BY <2>1, <2>2, <2>3
<1>7. Len(written'[l]) = m + Len(inbox'[l]) - (IF Ended(l)' THEN 1 ELSE 0)
  <2>1. CASE e.kind = "text"
    <3>1. Len(written'[l]) = Len(written[l]) + 1  BY <2>1
    <3>2. m + n + 1 = m + (n + 1) - 0  BY <1>s
    <3> QED  BY <1>2, <1>3, <1>4, <2>1, <3>1, <3>2
  <2>2. CASE e.kind # "text"
    <3>1. Len(written'[l]) = Len(written[l])  BY <2>2
    <3>2. m + n = m + (n + 1) - 1  BY <1>s
    <3> QED  BY <1>2, <1>3, <1>4, <2>2, <3>1, <3>2
  <2> QED  BY <2>1, <2>2
<1>8. Numbered(l, leg[l].got)'
  <2>1. Numbered(l, leg'[l].got)  BY DEF Follows
  <2> QED  BY <2>1 DEF Numbered
<1>9. (Len(written[l]) = Len(leg[l].got) + Len(inbox[l]) - (IF Ended(l) THEN 1 ELSE 0))'
  BY <1>7
<1>10. (\A i \in 1 .. Len(inbox[l]) :
           /\ inbox[l][i].of = l
           /\ inbox[l][i].kind = "text" => inbox[l][i].n = Len(leg[l].got) + i
           /\ inbox[l][i].kind # "text" => i = Len(inbox[l]))'
  BY <1>3, <1>6
<1>11. (Ended(l) => run[l] = "none" /\ onFile[l] # "asks")'  BY <1>4
<1> QED  BY <1>8, <1>9, <1>10, <1>11 DEF Follows

LEMMA EventIs ==
    ASSUME LegsInv, NEW l \in Legs, NEW what \in {"text", "done", "error"}
    PROVE  /\ Event(l, what) \in LegEvents /\ Event(l, what).of = l
           /\ Event(l, what).kind = what /\ Event(l, what).n = Len(written[l]) + 1
<1>1. written[l] \in Seq(Legs \X Nat)  BY LegFacts
<1>2. Len(written[l]) + 1 \in Nat  BY <1>1
<1> QED  BY <1>2 DEF Event, LegEvents

(* The leg's run writes a line or is done. *)
LEMMA CollectsKeep ==
    ASSUME LegsConstants, LegsInv, NEW l \in Legs, CollectText(l) \/ RunDone(l)
    PROVE  LegsInv'
<1>0. /\ LegTypes /\ NameInv /\ Early(l) /\ (l \notin blurred => Whole(l))
      /\ leg[l] \in LegStates /\ leg[l].got \in Seq(Legs \X Nat)
      /\ written[l] \in Seq(Legs \X Nat) /\ leg \in [Legs -> LegStates]
      /\ written \in [Legs -> Seq(Legs \X Nat)]
      /\ run \in [Legs -> {"none", "on", "resumed"}]
      /\ onFile \in [Legs -> {"none", "open", "asks"}]
  BY LegFacts DEF LegTypes
<1>1. run[l] = "on" /\ leg[l].pc = "run" /\ leg[l].got = written[l] /\ onFile[l] # "asks"
      /\ Numbered(l, written[l]) /\ inbox[l] = << >>
      /\ \A s \in Sessions : l \notin Range(subs[s])
  BY <1>0 DEF CollectText, RunDone, Early
<1>2. ASSUME NEW e \in LegEvents, Pub(e)
      PROVE  inbox'[l] = << >> /\ (\A s \in Sessions : l \notin Range(subs'[s]))
             /\ blurred \subseteq blurred'
  BY <1>0, <1>1, <1>2, PubStep
<1>3. CASE CollectText(l)
  <2> DEFINE e == Event(l, "text")
             more == Append(written[l], << l, Len(written[l]) + 1 >>)
  <2>1. e \in LegEvents /\ e.of = l  BY EventIs
  <2>2. /\ Pub(e) /\ written' = [written EXCEPT ![l] = more]
        /\ leg' = [leg EXCEPT ![l].got = Append(leg[l].got, << l, Len(written[l]) + 1 >>)]
        /\ UNCHANGED << run, onFile, saved >>
    BY <1>3 DEF CollectText
  <2>3. more \in Seq(Legs \X Nat) /\ Numbered(l, more)  BY <1>0, <1>1, NumberedMore
  <2>4. inbox'[l] = << >> /\ \A s \in Sessions : l \notin Range(subs'[s])
    BY <1>2, <2>1, <2>2
  <2> HIDE DEF e, more
  <2>5. written' \in [Legs -> Seq(Legs \X Nat)] /\ written'[l] = more
        /\ \A k \in Legs \ {l} : written'[k] = written[k]
    BY <1>0, <2>2, <2>3
  <2>6. /\ leg' \in [Legs -> LegStates] /\ leg'[l].pc = "run" /\ leg'[l].got = more
        /\ leg'[l].path = leg[l].path /\ \A k \in Legs \ {l} : leg'[k] = leg[k]
    <3>1. leg' = [leg EXCEPT ![l] = [leg[l] EXCEPT !.got = more]]
      BY <1>1, <2>2 DEF more
    <3>2. [leg[l] EXCEPT !.got = more] \in LegStates  BY <1>0, <2>3 DEF LegStates
    <3> QED  BY <1>0, <1>1, <3>1, <3>2 DEF LegStates
  <2>7. Early(l)'  BY <1>1, <2>2, <2>3, <2>4, <2>5, <2>6 DEF Early, Numbered
  <2>8. Whole(l)'  BY <2>6 DEF Whole
  <2>9. run' \in [Legs -> {"none", "on", "resumed"}] /\ onFile' \in [Legs -> {"none", "open", "asks"}]
    BY <1>0, <2>2
  <2> QED  BY <2>1, <2>2, <2>5, <2>6, <2>7, <2>8, <2>9, PubKeeps
<1>4. CASE RunDone(l)
  <2> DEFINE e == Event(l, "done")
  <2>1. e \in LegEvents /\ e.of = l  BY EventIs
  <2>2. /\ Pub(e) /\ run' = [run EXCEPT ![l] = "none"] /\ Goto(l, "collected")
        /\ UNCHANGED << onFile, saved, written >>
    BY <1>4 DEF RunDone
  <2>3. /\ leg' \in [Legs -> LegStates] /\ leg'[l].pc = "collected" /\ leg'[l].got = leg[l].got
        /\ leg'[l].path = leg[l].path /\ \A k \in Legs \ {l} : leg'[k] = leg[k]
    BY <1>0, <2>2, GotoIs DEF LegPCs
  <2>4. /\ run' \in [Legs -> {"none", "on", "resumed"}] /\ run'[l] = "none"
        /\ \A k \in Legs \ {l} : run'[k] = run[k]
    BY <1>0, <2>2
  <2>5. inbox'[l] = << >> /\ \A s \in Sessions : l \notin Range(subs'[s])
    BY <1>2, <2>1, <2>2
  <2> HIDE DEF e
  <2>6. Early(l)'  BY <1>1, <2>2, <2>3, <2>4, <2>5 DEF Early, Numbered
  <2>7. Whole(l)'  BY <1>1, <2>2, <2>3, <2>4 DEF Whole
  <2>8. onFile' \in [Legs -> {"none", "open", "asks"}] /\ written' \in [Legs -> Seq(Legs \X Nat)]
    BY <1>0, <2>2
  <2> QED  BY <2>1, <2>2, <2>3, <2>4, <2>6, <2>7, <2>8, PubKeeps
<1> QED  BY <1>3, <1>4

(* The run that the answers started writes a line or is over. *)
LEMMA StreamsKeep ==
    ASSUME LegsConstants, LegsInv, NEW l \in Legs, StreamText(l) \/ StreamEnds(l)
    PROVE  LegsInv'
<1>0. /\ LegTypes /\ NameInv /\ Early(l) /\ (l \notin blurred => Whole(l))
      /\ leg[l] \in LegStates /\ leg[l].got \in Seq(Legs \X Nat)
      /\ inbox[l] \in Seq(LegEvents) /\ written[l] \in Seq(Legs \X Nat)
      /\ leg \in [Legs -> LegStates] /\ written \in [Legs -> Seq(Legs \X Nat)]
      /\ run \in [Legs -> {"none", "on", "resumed"}]
      /\ onFile \in [Legs -> {"none", "open", "asks"}]
  BY LegFacts DEF LegTypes
<1>1. PICK what \in {"text", "done", "error"}, more \in Seq(Legs \X Nat), r \in {"none", "resumed"},
           f \in {"none", "open", "asks"} :
          /\ Pub(Event(l, what)) /\ Numbered(l, more)
          /\ written' = [written EXCEPT ![l] = more] /\ run' = [run EXCEPT ![l] = r]
          /\ onFile' = [onFile EXCEPT ![l] = f] /\ UNCHANGED << leg, saved >>
          /\ \/ what = "text" /\ Len(more) = Len(written[l]) + 1 /\ r = "resumed" /\ f = onFile[l]
             \/ what # "text" /\ Len(more) = Len(written[l]) /\ r = "none"
                /\ f \in {"none", onFile[l]}
  <2>1. CASE StreamText(l)
    <3> DEFINE texts == Append(written[l], << l, Len(written[l]) + 1 >>)
    <3>1. /\ run[l] = "resumed" /\ Pub(Event(l, "text")) /\ written' = [written EXCEPT ![l] = texts]
          /\ UNCHANGED << leg, run, onFile, saved >>
      BY <2>1 DEF StreamText
    <3>2. texts \in Seq(Legs \X Nat) /\ Numbered(l, texts) /\ Len(texts) = Len(written[l]) + 1
      BY <1>0, NumberedMore DEF Early
    <3> HIDE DEF texts
    <3>3. run' = [run EXCEPT ![l] = "resumed"] /\ onFile' = [onFile EXCEPT ![l] = onFile[l]]
      BY <1>0, <3>1
    <3> QED  BY <1>0, <3>1, <3>2, <3>3
  <2>2. CASE StreamEnds(l)
    <3>1. PICK kind \in {"done", "error"} :
              /\ Pub(Event(l, kind))
              /\ onFile' = [onFile EXCEPT ![l] = IF kind = "done" THEN "none" ELSE onFile[l]]
              /\ run' = [run EXCEPT ![l] = "none"] /\ UNCHANGED << leg, saved, written >>
      BY <2>2 DEF StreamEnds
    <3>2. written' = [written EXCEPT ![l] = written[l]] /\ Numbered(l, written[l])
      BY <1>0, <3>1 DEF Early
    <3>3. PICK f : f = IF kind = "done" THEN "none" ELSE onFile[l]  OBVIOUS
    <3>4. f \in {"none", onFile[l]} /\ onFile' = [onFile EXCEPT ![l] = f]  BY <3>1, <3>3
    <3> QED  BY <1>0, <3>1, <3>2, <3>4
  <2> QED  BY <2>1, <2>2
<1> DEFINE e == Event(l, what)
<1>2. e \in LegEvents /\ e.of = l /\ e.kind = what /\ e.n = Len(written[l]) + 1  BY EventIs
<1>3. /\ run[l] = "resumed" /\ onFile[l] # "asks" /\ leg[l].pc \notin {"off", "slot", "run"}
  <2>1. run[l] = "resumed"  BY DEF StreamText, StreamEnds
  <2> QED  BY <1>0, <2>1 DEF Early
<1>4. Pub(e)  BY <1>1
<1> HIDE DEF e
<1>5. /\ blurred \subseteq blurred'
      /\ \A s \in Sessions : Range(subs'[s]) \subseteq Range(subs[s])
      /\ (\A s \in Sessions : l \notin Range(subs[s])) => inbox'[l] = inbox[l]
      /\ Awaits(l) /\ l \notin blurred' => inbox'[l] = Append(inbox[l], e)
  BY <1>0, <1>2, <1>4, PubStep
<1>6. /\ written' \in [Legs -> Seq(Legs \X Nat)] /\ written'[l] = more
      /\ run' \in [Legs -> {"none", "on", "resumed"}] /\ run'[l] = r /\ r # "on"
      /\ onFile' \in [Legs -> {"none", "open", "asks"}] /\ onFile'[l] = f /\ f # "asks"
      /\ \A k \in Legs \ {l} : /\ written'[k] = written[k] /\ run'[k] = run[k]
                               /\ onFile'[k] = onFile[k]
      /\ leg' = leg
  <2>1. f \in {"none", "open", "asks"} /\ f # "asks" /\ r \in {"none", "resumed"}  BY <1>0, <1>1, <1>3
  <2> QED  BY <1>0, <1>1, <2>1
<1>7. Early(l)'
  <2>1. leg[l].pc \in {"collected", "subscribe"} =>
            inbox'[l] = << >> /\ \A s \in Sessions : l \notin Range(subs'[s])
    BY <1>0, <1>5 DEF Early
  <2> QED  BY <1>0, <1>1, <1>3, <1>6, <2>1 DEF Early, Numbered
<1>8. ASSUME l \notin blurred' PROVE Whole(l)'
  <2>1. Whole(l)  BY <1>0, <1>5, <1>8
  <2>2. leg[l].pc \notin {"collected", "subscribe"}
    <3> SUFFICES ASSUME leg[l].pc \in {"collected", "subscribe"} PROVE FALSE  OBVIOUS
    <3>1. inbox[l] = << >> /\ inbox'[l] = inbox[l]  BY <1>0, <1>5 DEF Early
    <3>2. inbox'[l] = Append(inbox[l], e)  BY <1>5, <1>8 DEF Awaits
    <3>3. Append(inbox[l], e) # inbox[l]
      <4>1. Len(Append(inbox[l], e)) = Len(inbox[l]) + 1  BY <1>0
      <4>2. Len(inbox[l]) \in Nat  BY <1>0
      <4> QED  BY <4>1, <4>2
    <3> QED  BY <3>1, <3>2, <3>3
  <2>3. leg[l].pc \notin {"result", "save", "report"}  BY <1>3, <2>1 DEF Whole
  <2>4. leg[l].pc = "wait" => Follows(l)'
    <3> SUFFICES ASSUME leg[l].pc = "wait" PROVE Follows(l)'  OBVIOUS
    <3>1. inbox'[l] = Append(inbox[l], e)  BY <1>5, <1>8 DEF Awaits
    <3>2. Follows(l)  BY <2>1 DEF Whole
    <3>3. \/ e.kind = "text" /\ Len(written'[l]) = Len(written[l]) + 1
          \/ e.kind # "text" /\ Len(written'[l]) = Len(written[l])
             /\ run'[l] = "none" /\ onFile'[l] # "asks"
      BY <1>1, <1>2, <1>6
    <3>4. leg'[l] = leg[l]  BY <1>6
    <3> QED  BY <1>2, <1>3, <3>1, <3>2, <3>3, <3>4, FollowsMore
  <2> QED  BY <1>6, <2>2, <2>3, <2>4 DEF Whole
<1>9. leg'[l].path = leg[l].path /\ leg'[l].pc = leg[l].pc /\ \A k \in Legs \ {l} : leg'[k] = leg[k]
  BY <1>6
<1>10. leg' \in [Legs -> LegStates] /\ saved' = saved  BY <1>0, <1>1, <1>6
<1> QED  BY <1>2, <1>4, <1>6, <1>7, <1>8, <1>9, <1>10, PubKeeps

-----------------------------------------------------------------------------
(* The report. *)

LEMMA ReportsKeep ==
    ASSUME LegsInv, NEW l \in Legs, Report(l)
    PROVE  LegsInv'
<1>0. /\ LegTypes /\ NameInv /\ Early(l) /\ (l \notin blurred => Whole(l))
      /\ leg[l] \in LegStates /\ leg \in [Legs -> LegStates]
      /\ onFile \in [Legs -> {"none", "open", "asks"}]
  BY LegFacts DEF LegTypes
<1>1. PICK p : p = IF saved[<< NameOf[l] >>] = << >> THEN << NameOf[l] >> ELSE << NameOf[l], l >>
  OBVIOUS
<1>2. /\ leg[l].pc = "result" /\ onFile' = [onFile EXCEPT ![l] = "none"]
      /\ leg' = [leg EXCEPT ![l].pc = "save", ![l].path = p]
      /\ UNCHANGED << run, subs, inbox, saved, written, blurred >>
  BY <1>1 DEF Report
<1>3. p \in Paths /\ p \in {<< NameOf[l] >>, << NameOf[l], l >>}  BY <1>1 DEF Paths
<1>4. leg' = [leg EXCEPT ![l] = [leg[l] EXCEPT !.pc = "save", !.path = p]]
  BY <1>2
<1>5. /\ leg' \in [Legs -> LegStates] /\ leg'[l].pc = "save" /\ leg'[l].got = leg[l].got
      /\ leg'[l].path = p /\ \A k \in Legs \ {l} : leg'[k] = leg[k]
  <2>1. [leg[l] EXCEPT !.pc = "save", !.path = p] \in LegStates
    BY <1>0, <1>3 DEF LegStates, LegPCs
  <2> QED  BY <1>0, <1>4, <2>1 DEF LegStates
<1>6. onFile' \in [Legs -> {"none", "open", "asks"}] /\ onFile'[l] = "none"
      /\ \A k \in Legs \ {l} : onFile'[k] = onFile[k]
  BY <1>0, <1>2
<1>7. LegTypes'  BY <1>0, <1>2, <1>5, <1>6 DEF LegTypes
<1>8. Early(l)'  BY <1>0, <1>2, <1>5, <1>6 DEF Early, Numbered
<1>9. l \notin blurred => Whole(l)'  BY <1>0, <1>2, <1>5, <1>6 DEF Whole
<1>10. \A k \in Legs \ {l} : Apart(k)  BY <1>2, <1>5, <1>6 DEF Apart
<1>11. NameInv'
  <2> SUFFICES ASSUME NEW k \in Legs
               PROVE  /\ leg'[k].pc \in {"save", "report"} =>
                            leg'[k].path \in {<< NameOf[k] >>, << NameOf[k], k >>}
                      /\ leg'[k].pc = "report" /\ k \notin blurred =>
                            /\ saved[leg'[k].path] = << k >>
                            /\ \A j \in Legs \ {k} : leg'[j].pc = "save" => leg'[j].path # leg'[k].path
    BY <1>2 DEF NameInv
  <2>1. CASE k = l  BY <1>3, <1>5, <2>1
  <2>2. CASE k # l
    <3>1. leg'[k] = leg[k]  BY <1>5, <2>2
    <3>2. ASSUME leg[k].pc = "report", k \notin blurred PROVE p # leg[k].path
      <4>1. /\ saved[leg[k].path] = << k >> /\ leg[k].path \in {<< NameOf[k] >>, << NameOf[k], k >>}
        BY <1>0, <3>2 DEF NameInv
      <4>2. CASE p = << NameOf[l] >>
        <5>1. saved[p] = << >>  BY <1>1, <4>2
        <5>2. << k >> # << >>  OBVIOUS
        <5> QED  BY <4>1, <5>1, <5>2
      <4>3. CASE p = << NameOf[l], l >>
        <5>1. << NameOf[l], l >> # << NameOf[k] >>  OBVIOUS
        <5>2. << NameOf[l], l >> # << NameOf[k], k >>  BY <2>2
        <5> QED  BY <4>1, <4>3, <5>1, <5>2
      <4> QED  BY <1>3, <4>2, <4>3
    <3>3. \A j \in Legs \ {k} : leg[k].pc = "report" /\ k \notin blurred /\ leg'[j].pc = "save" =>
              leg'[j].path # leg[k].path
      <4> SUFFICES ASSUME NEW j \in Legs \ {k}, leg[k].pc = "report", k \notin blurred,
                          leg'[j].pc = "save"
                   PROVE  leg'[j].path # leg[k].path
        OBVIOUS
      <4>1. CASE j = l  BY <1>5, <3>2, <4>1
      <4>2. CASE j # l
        <5>1. leg'[j] = leg[j]  BY <1>5, <4>2
        <5> QED  BY <1>0, <5>1 DEF NameInv
      <4> QED  BY <4>1, <4>2
    <3> QED  BY <1>0, <3>1, <3>3 DEF NameInv
  <2> QED  BY <2>1, <2>2
<1> QED  BY <1>2, <1>7, <1>8, <1>9, <1>10, <1>11, AloneKeeps

LEMMA SavesKeep ==
    ASSUME LegsInv, NEW l \in Legs, SaveReport(l)
    PROVE  LegsInv'
<1>0. /\ LegTypes /\ NameInv /\ Early(l) /\ (l \notin blurred => Whole(l))
      /\ leg[l] \in LegStates /\ leg \in [Legs -> LegStates]
      /\ saved \in [Paths -> {<< >>} \cup {<< k >> : k \in Legs}]
  BY LegFacts DEF LegTypes
<1>1. /\ leg[l].pc = "save" /\ saved' = [saved EXCEPT ![leg[l].path] = << l >>]
      /\ blurred' = IF \E k \in Legs \ {l} : leg[k].pc = "save" /\ leg[k].path = leg[l].path
                    THEN blurred \cup {l} ELSE blurred
      /\ Goto(l, "report") /\ UNCHANGED << run, onFile, subs, inbox, written >>
  BY DEF SaveReport
<1>2. /\ leg' \in [Legs -> LegStates] /\ leg'[l].pc = "report" /\ leg'[l].got = leg[l].got
      /\ leg'[l].path = leg[l].path /\ \A k \in Legs \ {l} : leg'[k] = leg[k]
  BY <1>0, <1>1, GotoIs DEF LegPCs
<1>3. leg[l].path \in {<< NameOf[l] >>, << NameOf[l], l >>} /\ leg[l].path \in Paths
  <2>1. leg[l].path \in {<< NameOf[l] >>, << NameOf[l], l >>}  BY <1>0, <1>1 DEF NameInv
  <2>2. << NameOf[l] >> \in Paths /\ << NameOf[l], l >> \in Paths  BY DEF Paths
  <2> QED  BY <2>1, <2>2
<1>4. /\ saved' \in [Paths -> {<< >>} \cup {<< k >> : k \in Legs}] /\ saved'[leg[l].path] = << l >>
      /\ \A p \in Paths : p # leg[l].path => saved'[p] = saved[p]
  BY <1>0, <1>1, <1>3
<1>5. /\ blurred \subseteq blurred'
      /\ l \notin blurred' => \A k \in Legs \ {l} : leg[k].pc = "save" => leg[k].path # leg[l].path
  BY <1>1
<1>6. LegTypes'  BY <1>0, <1>1, <1>2, <1>4 DEF LegTypes
<1>7. Early(l)'  BY <1>0, <1>1, <1>2 DEF Early, Numbered
<1>8. l \notin blurred' => Whole(l)'  BY <1>0, <1>1, <1>2, <1>5 DEF Whole
<1>9. \A k \in Legs \ {l} : Apart(k)  BY <1>1, <1>2, <1>5 DEF Apart
<1>10. NameInv'
  <2> SUFFICES ASSUME NEW k \in Legs
               PROVE  /\ leg'[k].pc \in {"save", "report"} =>
                            leg'[k].path \in {<< NameOf[k] >>, << NameOf[k], k >>}
                      /\ leg'[k].pc = "report" /\ k \notin blurred' =>
                            /\ saved'[leg'[k].path] = << k >>
                            /\ \A j \in Legs \ {k} : leg'[j].pc = "save" => leg'[j].path # leg'[k].path
    BY DEF NameInv
  <2>0. \A j \in Legs \ {l} : leg'[j] = leg[j]  BY <1>2
  <2>1. CASE k = l
    <3>1. \A j \in Legs \ {l} : l \notin blurred' /\ leg'[j].pc = "save" => leg'[j].path # leg[l].path
      BY <1>5, <2>0
    <3> QED  BY <1>2, <1>3, <1>4, <2>1, <3>1
  <2>2. CASE k # l
    <3>1. leg'[k] = leg[k]  BY <2>0, <2>2
    <3>2. ASSUME leg[k].pc = "report", k \notin blurred'
          PROVE  /\ saved'[leg[k].path] = << k >>
                 /\ \A j \in Legs \ {k} : leg'[j].pc = "save" => leg'[j].path # leg[k].path
      <4>1. /\ saved[leg[k].path] = << k >> /\ leg[k].path \in {<< NameOf[k] >>, << NameOf[k], k >>}
            /\ \A j \in Legs \ {k} : leg[j].pc = "save" => leg[j].path # leg[k].path
        BY <1>0, <1>5, <3>2 DEF NameInv
      <4>2. leg[k].path \in Paths
        <5>1. << NameOf[k] >> \in Paths /\ << NameOf[k], k >> \in Paths  BY DEF Paths
        <5> QED  BY <4>1, <5>1
      <4>3. leg[k].path # leg[l].path  BY <1>1, <2>2, <4>1
      <4>4. ASSUME NEW j \in Legs \ {k}, leg'[j].pc = "save" PROVE leg'[j].path # leg[k].path
        <5>1. j # l  BY <1>2, <4>4
        <5>2. leg'[j] = leg[j]  BY <2>0, <5>1
        <5> QED  BY <4>1, <4>4, <5>2
      <4> QED  BY <1>4, <4>1, <4>2, <4>3, <4>4
    <3> QED  BY <1>0, <3>1, <3>2 DEF NameInv
  <2> QED  BY <2>1, <2>2
<1> QED  BY <1>6, <1>7, <1>8, <1>9, <1>10, AloneKeeps

LEMMA LegsStart == ASSUME LegsConstants, LegsInit PROVE LegsInv
<1> PICK empty : empty = << >>  OBVIOUS
<1>1. /\ \A l \in Legs : leg[l] = [pc |-> "off", got |-> empty, path |-> empty]
      /\ \A l \in Legs : /\ run[l] = "none" /\ onFile[l] = "none" /\ inbox[l] = empty
                         /\ written[l] = empty
      /\ \A s \in Sessions : subs[s] = empty
      /\ \A p \in Paths : saved[p] = empty
      /\ leg = [l \in Legs |-> [pc |-> "off", got |-> empty, path |-> empty]]
      /\ run = [l \in Legs |-> "none"] /\ onFile = [l \in Legs |-> "none"]
      /\ subs = [s \in Sessions |-> empty] /\ inbox = [l \in Legs |-> empty]
      /\ saved = [p \in Paths |-> empty] /\ written = [l \in Legs |-> empty]
  BY DEF LegsInit, Idle
<1>2. /\ empty \in Seq(Legs \X Nat) /\ empty \in Seq(LegEvents) /\ empty \in Seq(Legs \cup Viewers)
      /\ Len(empty) = 0 /\ Range(empty) = {} /\ DOMAIN empty = {}
  BY DEF Range
<1>3. LegTypes
  <2>1. [pc |-> "off", got |-> empty, path |-> empty] \in LegStates  BY <1>2 DEF LegStates, LegPCs
  <2>2. \A l \in Legs : Len(inbox[l]) <= Buffer  BY <1>1, <1>2 DEF LegsConstants
  <2> QED  BY <1>1, <1>2, <2>1, <2>2 DEF LegTypes
<1>4. ASSUME NEW l \in Legs PROVE Early(l) /\ Whole(l)
  <2>1. leg[l].pc = "off" /\ leg[l].got = empty  BY <1>1
  <2>2. Numbered(l, empty)
    <3>1. [i \in 1 .. 0 |-> << l, i >>] = << >>  OBVIOUS
    <3> QED  BY <1>2, <3>1 DEF Numbered
  <2>3. \A s \in Sessions : Range(subs[s]) = {}  BY <1>1, <1>2
  <2>4. Early(l)  BY <1>1, <2>1, <2>2, <2>3 DEF Early
  <2> QED  BY <2>1, <2>4 DEF Whole
<1>5. NameInv  BY <1>1 DEF NameInv
<1> QED  BY <1>3, <1>4, <1>5 DEF LegsInv

LEMMA LegsStill == LegsInv /\ UNCHANGED legsVars => LegsInv'
<1> SUFFICES ASSUME LegsInv, UNCHANGED legsVars PROVE LegsInv'  OBVIOUS
<1>1. UNCHANGED << leg, run, onFile, subs, inbox, saved, written, blurred >>  BY DEF legsVars
<1>2. LegTypes'  BY <1>1 DEF LegsInv, LegTypes
<1>3. NameInv'
  <2>1. LegTypes /\ NameInv  BY DEF LegsInv
  <2> QED  BY <1>1, <2>1, NamesStay
<1>4. ASSUME NEW k \in Legs PROVE Early(k)' /\ (k \notin blurred' => Whole(k)')
  <2>1. Early(k) /\ (k \notin blurred => Whole(k)) /\ Apart(k)  BY <1>1 DEF LegsInv, Apart
  <2> QED  BY <2>1, ApartKeeps
<1> QED  BY <1>2, <1>3, <1>4 DEF LegsInv

LEMMA LegsStep ==
    ASSUME LegsConstants, LegsInv, LegsNext
    PROVE  LegsInv'
<1>1. ASSUME NEW l \in Legs,
             \/ InvokeSubagent(l) \/ Exec(l) \/ SlotsFull(l)
             \/ CollectText(l) \/ RunDone(l) \/ RunAsks(l) \/ RunFails(l)
             \/ Collected(l) \/ WaitResume(l) \/ Hear(l) \/ WaitExpires(l)
             \/ ResumeSessionPending(l) \/ StreamText(l) \/ StreamEnds(l) \/ StreamAsks(l)
             \/ Report(l) \/ SaveReport(l)
      PROVE  LegsInv'
  <2>1. CASE InvokeSubagent(l) \/ Exec(l) \/ SlotsFull(l)  BY <2>1, StartsKeep
  <2>2. CASE CollectText(l) \/ RunDone(l)  BY <2>2, CollectsKeep
  <2>3. CASE RunAsks(l) \/ RunFails(l) \/ Collected(l)  BY <2>3, RunsKeep
  <2>4. CASE WaitResume(l)  BY <2>4, WaitsKeep
  <2>5. CASE Hear(l) \/ WaitExpires(l)  BY <2>5, HearsKeep
  <2>6. CASE ResumeSessionPending(l) \/ StreamAsks(l)  BY <2>6, ResumesKeep
  <2>7. CASE StreamText(l) \/ StreamEnds(l)  BY <2>7, StreamsKeep
  <2>8. CASE Report(l)  BY <2>8, ReportsKeep
  <2>9. CASE SaveReport(l)  BY <2>9, SavesKeep
  <2> QED  BY <1>1, <2>1, <2>2, <2>3, <2>4, <2>5, <2>6, <2>7, <2>8, <2>9
<1>2. ASSUME NEW v \in Viewers, NEW s \in Sessions, View(v, s) \/ CloseView(v, s) PROVE LegsInv'
  BY <1>2, ViewsKeep
<1> QED  BY <1>1, <1>2 DEF LegsNext

(* A leg's report is what its own task has written, all of it and in order, *)
(* and the file the leg names holds it, unless the leg has missed an event  *)
(* of its task or heard one twice, had written before it asked the user, or *)
(* took a name that another was about to use (Exec, waitResume and          *)
(* saveReport of internal/agents/exec/subagent).                            *)
THEOREM ReportsAreWhole == ASSUME LegsConstants PROVE LegsSpec => []ReportIsWhole
<1>1. LegsInit => LegsInv  BY LegsStart
<1>2. LegsInv /\ [LegsNext]_legsVars => LegsInv'  BY LegsStep, LegsStill
<1>3. LegsInv => ReportIsWhole
  <2> SUFFICES ASSUME LegsInv, NEW l \in Legs, leg[l].pc = "report", l \notin blurred
               PROVE  leg[l].got = written[l] /\ saved[leg[l].path] = << l >>
    BY DEF ReportIsWhole
  <2>1. NameInv /\ Whole(l)  BY DEF LegsInv
  <2> QED  BY <2>1 DEF NameInv, Whole
<1> QED  BY <1>1, <1>2, <1>3, PTL DEF LegsSpec
=============================================================================
