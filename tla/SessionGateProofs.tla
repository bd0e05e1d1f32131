--------------------------- MODULE SessionGateProofs ---------------------------
(***************************************************************************)
(* Theorems about SessionGate, for every finite set of runs and any number  *)
(* of sessions, slots, turns and messages: the slots of a session are       *)
(* accounted for, and runs wait only while all of them are taken.  And      *)
(* about ToolBatch, for any allow lists and replies: a call runs only with  *)
(* the leave it needs, and nothing is said after the end of the events.     *)
(* And about StreamText, for any answers: however an answer is cut into     *)
(* pieces, the screen is given what it is given of the whole.               *)
(***************************************************************************)
EXTENDS SessionGate, ToolBatch, StreamText, SublistsProofs

\* A run that has found its session works on one.
Placed == \A r \in Runs : pc[r] \notin {"idle", "scan"} => sess[r] \in Sessions

TypeInv == TypeOK /\ Placed

\* The queue of a session holds runs of it that wait, each once.
InQueue ==
    \A s \in Sessions : \A i \in DOMAIN waitq[s] :
        /\ pc[waitq[s][i]] = "queued"
        /\ sess[waitq[s][i]] = s
        /\ \A j \in DOMAIN waitq[s] : waitq[s][i] = waitq[s][j] => i = j

LEMMA TypeInit == Init => TypeInv
<1> QED
  BY GateAssumption, EmptySeq DEF Init, TypeInv, TypeOK, Placed, RunPCs

LEMMA DroppedType ==
    ASSUME NEW q \in Seq(Runs), NEW i \in DOMAIN q
    PROVE  /\ Dropped(q, i) \in Seq(Runs)
           /\ Len(Dropped(q, i)) = Len(q) - 1
           /\ \A j \in 1..(Len(q) - 1) :
                 Dropped(q, i)[j] = q[IF j < i THEN j ELSE j + 1]
<1> DEFINE d == Dropped(q, i)
<1>1. Len(q) \in Nat /\ DOMAIN q = 1..Len(q) /\ \A j \in 1..Len(q) : q[j] \in Runs
  BY LenProperties, ElementOfSeq
<1>2. Len(q) - 1 \in Nat  BY <1>1
<1>3. \A j \in 1..(Len(q) - 1) : (IF j < i THEN j ELSE j + 1) \in 1..Len(q)
  BY <1>1
<1>4. d = [j \in 1..(Len(q) - 1) |-> q[IF j < i THEN j ELSE j + 1]]
  BY DEF Dropped
<1>5. d \in [1..(Len(q) - 1) -> Runs]
  BY <1>1, <1>3, <1>4
<1>6. d \in Seq(Runs)  BY <1>2, <1>5, IsASeq
<1>7. DOMAIN d = 1..(Len(q) - 1) /\ DOMAIN d = 1..Len(d) /\ Len(d) \in Nat
  BY <1>5, <1>6, LenProperties
<1>8. Len(d) = Len(q) - 1  BY <1>2, <1>7
<1> QED  BY <1>4, <1>6, <1>8

LEMMA TakeSteerType ==
    ASSUME TypeInv, NEW r \in Runs, sess[r] \in Sessions, TakeSteer(r)
    PROVE  /\ UNCHANGED <<steerMap, tpc, tentry>>
           /\ list' \in [Texts -> Seq(Texts)]
           /\ history' \in [Runs -> Seq(Texts)]
<1> DEFINE e == steerMap[sess[r]]
<1>1. e \in Texts \cup {None}  BY DEF TypeInv, TypeOK
<1>2. CASE e = None  BY <1>2 DEF TakeSteer, TypeInv, TypeOK
<1>3. CASE e \in Texts
  <2>1. history[r] \o list[e] \in Seq(Texts)
    BY <1>3, ConcatProperties DEF TypeInv, TypeOK
  <2>2. e # None  BY <1>3, GateAssumption
  <2> QED  BY <1>3, <2>1, <2>2, EmptySeq DEF TakeSteer, TypeInv, TypeOK
<1> QED  BY <1>1, <1>2, <1>3

LEMMA RunStepType ==
    ASSUME TypeInv, InQueue, NEW r \in Runs, RunStep(r)
    PROVE  TypeInv'
<1> USE GateAssumption DEF TypeInv, TypeOK, Placed, slotVars, runVars, steerVars, Go, RunPCs
<1>1. CASE TryEnter(r)
  <2>1. sess[r] \in Sessions  BY <1>1 DEF TryEnter
  <2>2. CASE slot[sess[r]] < MaxTasks
    <3>1. /\ slot' = [slot EXCEPT ![sess[r]] = @ + 1]
          /\ pc' = [pc EXCEPT ![r] = "admitted"]
      BY <1>1, <2>2 DEF TryEnter
    <3>2. slot' \in [Sessions -> 0..MaxTasks]  BY <2>1, <2>2, <3>1
    <3> QED  BY <1>1, <2>1, <2>2, <3>1, <3>2 DEF TryEnter
  <2>3. CASE ~(slot[sess[r]] < MaxTasks)
    BY <1>1, <2>1, <2>3 DEF TryEnter
  <2> QED  BY <2>2, <2>3
<1>2. CASE EnterOrWait(r)
  <2>1. sess[r] \in Sessions  BY <1>2 DEF EnterOrWait
  <2>2. Append(waitq[sess[r]], r) \in Seq(Runs)  BY <2>1, AppendProperties
  <2>3. CASE slot[sess[r]] < MaxTasks
    <3>1. /\ slot' = [slot EXCEPT ![sess[r]] = @ + 1]
          /\ pc' = [pc EXCEPT ![r] = "granted"]
          /\ waitq' = waitq
      BY <1>2, <2>3 DEF EnterOrWait
    <3>2. slot' \in [Sessions -> 0..MaxTasks]  BY <2>1, <2>3, <3>1
    <3> QED  BY <1>2, <2>1, <3>1, <3>2 DEF EnterOrWait
  <2>4. CASE ~(slot[sess[r]] < MaxTasks)
    <3>1. /\ waitq' = [waitq EXCEPT ![sess[r]] = Append(@, r)]
          /\ pc' = [pc EXCEPT ![r] = "queued"]
          /\ slot' = slot
      BY <1>2, <2>4 DEF EnterOrWait
    <3>2. waitq' \in [Sessions -> Seq(Runs)]  BY <2>1, <2>2, <3>1
    <3> QED  BY <1>2, <2>1, <3>1, <3>2 DEF EnterOrWait
  <2> QED  BY <2>3, <2>4
<1>3. CASE GiveUp(r)
  <2>1. waitq' \in [Sessions -> Seq(Runs)]
    <3>1. CASE UNCHANGED waitq  BY <3>1
    <3>2. CASE ~UNCHANGED waitq
      <4>1. pc[r] = "queued" /\ sess[r] \in Sessions  BY <1>3, <3>2 DEF GiveUp
      <4>2. PICK i \in DOMAIN waitq[sess[r]] :
                   waitq' = [waitq EXCEPT ![sess[r]] = Dropped(@, i)]
        BY <1>3, <3>2 DEF GiveUp
      <4>3. Dropped(waitq[sess[r]], i) \in Seq(Runs)  BY <4>1, DroppedType
      <4> QED  BY <4>2, <4>3
    <3> QED  BY <3>1, <3>2
  <2> QED  BY <1>3, <2>1 DEF GiveUp
<1>4. CASE Granted(r)  BY <1>4 DEF Granted
<1>5. CASE Denied(r)  BY <1>5 DEF Denied
<1>6. CASE LoadMark(r)  BY <1>6 DEF LoadMark
<1>7. CASE CountUp(r)
  <2>1. count' \in [Runs -> Int]
    <3>1. CASE mine[r] \in Runs  BY <1>7, <3>1 DEF CountUp
    <3>2. CASE mine[r] \notin Runs
      <4>1. count' = count  BY <1>7, <3>2 DEF CountUp
      <4> QED  BY <4>1
    <3> QED  BY <3>1, <3>2
  <2>2. pc' \in [Runs -> RunPCs] /\ Placed'  BY <1>7 DEF CountUp
  <2> QED  BY <1>7, <2>1, <2>2 DEF CountUp
<1>8. CASE Turn(r)
  <2>1. sess[r] \in Sessions  BY <1>8 DEF Turn
  <2>2. turns' \in [Runs -> 0..MaxTurns]  BY <1>8 DEF Turn
  <2> QED  BY <1>8, <2>1, <2>2, TakeSteerType DEF Turn
<1>9. CASE Reply(r)  BY <1>9 DEF Reply
<1>10. CASE LastSteer(r)
  <2>1. sess[r] \in Sessions  BY <1>10 DEF LastSteer
  <2> QED  BY <1>10, <2>1, TakeSteerType DEF LastSteer
<1>11. CASE EndLoop(r)  BY <1>11 DEF EndLoop
<1>12. CASE ClearSteer(r)  BY <1>12 DEF ClearSteer
<1>13. CASE CountDown(r)
  <2>1. count' \in [Runs -> Int]
    <3>1. CASE mine[r] \in Runs  BY <1>13, <3>1 DEF CountDown
    <3>2. CASE mine[r] \notin Runs
      <4>1. count' = count  BY <1>13, <3>2 DEF CountDown
      <4> QED  BY <4>1
    <3> QED  BY <3>1, <3>2
  <2>2. pc' \in [Runs -> RunPCs] /\ Placed'  BY <1>13 DEF CountDown
  <2> QED  BY <1>13, <2>1, <2>2 DEF CountDown
<1>14. CASE DeleteMark(r)  BY <1>14 DEF DeleteMark
<1>15. CASE Release(r)  BY <1>15 DEF Release
<1>16. CASE Receive(r)
  <2> DEFINE s == sess[r]
  <2>1. s \in Sessions /\ waitq[s] \in Seq(Runs)  BY <1>16 DEF Receive
  <2>2. waitq[s] # <<>> => Tail(waitq[s]) \in Seq(Runs) /\ Head(waitq[s]) \in Runs
    BY <2>1, HeadTailProperties
  <2>3. CASE waitq[s] # <<>>
    <3> DEFINE w == Head(waitq[s])
    <3>1. waitq' = [waitq EXCEPT ![s] = Tail(@)] /\ slot' = slot
      BY <1>16, <2>3 DEF Receive
    <3>2. waitq' \in [Sessions -> Seq(Runs)]  BY <2>2, <2>3, <3>1
    <3>3. pc' = [pc EXCEPT ![r] = "done", ![w] = "granted"]
      BY <1>16, <2>3 DEF Receive
    <3>4. pc' \in [Runs -> RunPCs]  BY <3>3
    <3>5. Placed'
      <4>1. w \in Runs /\ waitq[s][1] = w /\ 1 \in DOMAIN waitq[s]
        BY <2>1, <2>3, HeadTailProperties, LenProperties
      <4>2. pc[w] = "queued" /\ sess[w] = s  BY <2>1, <4>1 DEF InQueue
      <4> QED  BY <1>16, <2>1, <3>3, <4>1, <4>2 DEF Receive
    <3> QED  BY <1>16, <3>1, <3>2, <3>4, <3>5 DEF Receive
  <2>4. CASE waitq[s] = <<>>
    <3>1. slot' = [slot EXCEPT ![s] = IF @ > 0 THEN @ - 1 ELSE 0]
      BY <1>16, <2>4 DEF Receive
    <3>2. slot[s] \in 0..MaxTasks  BY <2>1
    <3>3. (IF slot[s] > 0 THEN slot[s] - 1 ELSE 0) \in 0..MaxTasks  BY <3>2
    <3>4. slot' \in [Sessions -> 0..MaxTasks]  BY <2>1, <3>1, <3>3
    <3>5. pc' = [pc EXCEPT ![r] = "done"] /\ waitq' = waitq
      BY <1>16, <2>4 DEF Receive
    <3>6. pc' \in [Runs -> RunPCs] /\ Placed'  BY <1>16, <2>1, <3>5 DEF Receive
    <3> QED  BY <1>16, <3>4, <3>5, <3>6 DEF Receive
  <2> QED  BY <2>3, <2>4
<1> QED
  BY <1>1, <1>2, <1>3, <1>4, <1>5, <1>6, <1>7, <1>8, <1>9, <1>10, <1>11, <1>12,
     <1>13, <1>14, <1>15, <1>16 DEF RunStep

LEMMA TypeStep ==
    ASSUME TypeInv, InQueue, [Next]_vars
    PROVE  TypeInv'
<1> USE GateAssumption DEF TypeInv, TypeOK, Placed, slotVars, runVars, steerVars, Go,
                           GoText, RunPCs
<1>1. ASSUME NEW r \in Runs, RunStep(r) PROVE TypeInv'
  BY <1>1, RunStepType
<1>2. ASSUME NEW r \in Runs, Join(r) PROVE TypeInv'
  BY <1>2 DEF Join
<1>3. ASSUME NEW r \in Runs, ListTemps(r) PROVE TypeInv'
  BY <1>3 DEF ListTemps
<1>4. ASSUME NEW r \in Runs, TryClaim(r) PROVE TypeInv'
  <2>1. r \in Runs /\ UNCHANGED <<dirs, slot, waitq, canceled, runVars, steerVars>>
    BY <1>4 DEF TryClaim
  <2>2. ASSUME NEW s \in todo[r],
               claim' = claim \cup {s},
               sess' = [sess EXCEPT ![r] = s],
               pc' = [pc EXCEPT ![r] = "prepare"],
               UNCHANGED todo
        PROVE  TypeInv'
    <3>1. s \in Sessions  BY <2>1
    <3> QED  BY <2>1, <2>2, <3>1
  <2>3. ASSUME NEW s \in todo[r],
               todo' = [todo EXCEPT ![r] = @ \ {s}],
               UNCHANGED <<claim, sess, pc>>
        PROVE  TypeInv'
    BY <2>1, <2>3
  <2> QED  BY <1>4, <2>2, <2>3 DEF TryClaim
<1>5. ASSUME NEW r \in Runs, NewTemp(r) PROVE TypeInv'
  BY <1>5 DEF NewTemp
<1>6. ASSUME NEW r \in Runs, FailEarly(r) \/ Cancel(r) PROVE TypeInv'
  <2>1. CASE FailEarly(r)  BY <2>1 DEF FailEarly
  <2>2. CASE Cancel(r)  BY <2>2 DEF Cancel
  <2> QED  BY <1>6, <2>1, <2>2
<1>7. ASSUME NEW t \in Texts, TextStep(t) PROVE TypeInv'
  <2>1. CASE LoadRunning(t)  BY <2>1 DEF LoadRunning
  <2>2. CASE ReadCount(t)  BY <2>2 DEF ReadCount
  <2>3. CASE LoadSteer(t)  BY <2>3 DEF LoadSteer
  <2>4. CASE AppendSteer(t)
    <3>1. tentry[t] \in Texts => Append(list[tentry[t]], t) \in Seq(Texts)
      BY AppendProperties
    <3> QED  BY <2>4, <3>1 DEF AppendSteer
  <2> QED  BY <1>7, <2>1, <2>2, <2>3, <2>4 DEF TextStep
<1>8. CASE UNCHANGED vars  BY <1>8 DEF vars
<1> QED  BY <1>1, <1>2, <1>3, <1>4, <1>5, <1>6, <1>7, <1>8 DEF Next


LEMMA QueueInit == Init => InQueue
<1> QED
  BY EmptySeq, LenProperties DEF Init, InQueue

\* A step that leaves the queues alone, and leaves or moves no queued run,
\* keeps them.
LEMMA QueueKept ==
    ASSUME TypeInv, InQueue, waitq' = waitq,
           \A r \in Runs : pc[r] = "queued" => pc'[r] = "queued" /\ sess'[r] = sess[r]
    PROVE  InQueue'
<1>1. ASSUME NEW s \in Sessions, NEW i \in DOMAIN waitq[s] PROVE waitq[s][i] \in Runs
  BY ElementOfSeq, LenProperties DEF TypeInv, TypeOK
<1> QED  BY <1>1 DEF InQueue

LEMMA QueueMembers ==
    ASSUME TypeInv, NEW s \in Sessions
    PROVE  /\ waitq[s] \in Seq(Runs) /\ Len(waitq[s]) \in Nat
           /\ DOMAIN waitq[s] = 1..Len(waitq[s])
           /\ \A i \in DOMAIN waitq[s] : waitq[s][i] \in Runs
<1> QED  BY ElementOfSeq, LenProperties DEF TypeInv, TypeOK

\* A run joins the queue of its session, or takes a slot.
LEMMA QueueJoin ==
    ASSUME TypeInv, InQueue, NEW r \in Runs, EnterOrWait(r)
    PROVE  InQueue'
<1> DEFINE s == sess[r]
<1>1. pc[r] = "full" /\ s \in Sessions /\ sess' = sess
  BY DEF EnterOrWait, TypeInv, Placed
<1>2. CASE waitq' = waitq
  <2>1. \A q \in Runs \ {r} : pc'[q] = pc[q]
    BY DEF EnterOrWait, TypeInv, TypeOK
  <2> QED  BY <1>1, <1>2, <2>1, QueueKept
<1>3. CASE waitq' # waitq
  <2>1. /\ waitq' = [waitq EXCEPT ![s] = Append(@, r)]
        /\ pc' = [pc EXCEPT ![r] = "queued"]
    BY <1>3 DEF EnterOrWait
  <2>2. waitq \in [Sessions -> Seq(Runs)] /\ pc \in [Runs -> RunPCs]
    BY DEF TypeInv, TypeOK
  <2> SUFFICES ASSUME NEW t \in Sessions, NEW i \in DOMAIN waitq'[t]
               PROVE  /\ pc'[waitq'[t][i]] = "queued"
                      /\ sess[waitq'[t][i]] = t
                      /\ \A j \in DOMAIN waitq'[t] :
                            waitq'[t][i] = waitq'[t][j] => i = j
    BY <1>1 DEF InQueue
  <2>3. \A j \in DOMAIN waitq[t] : waitq[t][j] # r /\ waitq[t][j] \in Runs
    BY <1>1, QueueMembers DEF InQueue
  <2>4. CASE t # s
    BY <2>1, <2>2, <2>3, <2>4 DEF InQueue
  <2>5. CASE t = s
    <3> DEFINE n == Len(waitq[s])
    <3>1. n \in Nat /\ DOMAIN waitq[s] = 1..n  BY <1>1, QueueMembers
    <3>2. /\ DOMAIN waitq'[s] = 1..(n + 1)
          /\ \A j \in 1..n : waitq'[s][j] = waitq[s][j]
          /\ waitq'[s][n + 1] = r
      BY <1>1, <2>1, <2>2, AppendProperties, LenProperties
    <3> HIDE DEF n
    <3>3. CASE i \in 1..n
      BY <1>1, <2>1, <2>2, <2>3, <2>5, <3>1, <3>2, <3>3 DEF InQueue
    <3>4. CASE i = n + 1
      BY <1>1, <2>1, <2>2, <2>3, <2>5, <3>1, <3>2, <3>4
    <3> QED  BY <2>5, <3>1, <3>2, <3>3, <3>4
  <2> QED  BY <2>4, <2>5
<1> QED  BY <1>2, <1>3

\* A canceled run leaves its place in the queue.
LEMMA QueueLeave ==
    ASSUME TypeInv, InQueue, NEW r \in Runs, GiveUp(r)
    PROVE  InQueue'
<1> DEFINE s == sess[r]
<1>1. /\ pc[r] \in {"full", "queued"} /\ s \in Sessions /\ sess' = sess
      /\ pc' = [pc EXCEPT ![r] = "denied"]
  BY DEF GiveUp, TypeInv, Placed
<1>2. pc \in [Runs -> RunPCs]  BY DEF TypeInv, TypeOK
<1>3. CASE pc[r] = "full"
  BY <1>1, <1>2, <1>3, QueueKept DEF GiveUp
<1>4. CASE pc[r] = "queued"
  <2>1. PICK k \in DOMAIN waitq[s] :
               waitq[s][k] = r /\ waitq' = [waitq EXCEPT ![s] = Dropped(@, k)]
    BY <1>4 DEF GiveUp
  <2>2. waitq \in [Sessions -> Seq(Runs)]  BY DEF TypeInv, TypeOK
  <2> SUFFICES ASSUME NEW t \in Sessions, NEW i \in DOMAIN waitq'[t]
               PROVE  /\ pc'[waitq'[t][i]] = "queued"
                      /\ sess[waitq'[t][i]] = t
                      /\ \A j \in DOMAIN waitq'[t] :
                            waitq'[t][i] = waitq'[t][j] => i = j
    BY <1>1 DEF InQueue
  <2>3. CASE t # s
    <3>1. waitq'[t] = waitq[t]  BY <2>1, <2>2, <2>3
    <3>2. \A j \in DOMAIN waitq[t] : waitq[t][j] \in Runs /\ waitq[t][j] # r
      BY <2>3, QueueMembers DEF InQueue
    <3> QED  BY <1>1, <1>2, <3>1, <3>2 DEF InQueue
  <2>4. CASE t = s
    <3> DEFINE n == Len(waitq[s])
               old(j) == IF j < k THEN j ELSE j + 1
    <3>1. n \in Nat /\ DOMAIN waitq[s] = 1..n  BY <1>1, QueueMembers
    <3>2. waitq'[s] = Dropped(waitq[s], k)  BY <1>1, <2>1, <2>2
    <3>3. DOMAIN waitq'[s] = 1..(n - 1)
      BY <1>1, <2>2, <3>1, <3>2, DroppedType, LenProperties
    <3>4. \A j \in 1..(n - 1) : waitq'[s][j] = waitq[s][old(j)]
      BY <1>1, <2>2, <3>2, DroppedType
    <3> HIDE DEF n
    <3>5. \A j \in 1..(n - 1) : old(j) \in 1..n /\ old(j) # k
      BY <3>1
    <3>6. \A j, m \in 1..(n - 1) : old(j) = old(m) => j = m
      BY <3>1
    <3> HIDE DEF old
    <3>7. \A j \in 1..(n - 1) : waitq'[s][j] \in Runs \ {r}
      BY <1>1, <2>1, <3>1, <3>4, <3>5, QueueMembers DEF InQueue
    <3>8. pc'[waitq'[s][i]] = "queued" /\ sess[waitq'[s][i]] = s
      BY <1>1, <1>2, <2>4, <3>1, <3>3, <3>4, <3>5, <3>7 DEF InQueue
    <3>9. \A j \in DOMAIN waitq'[s] : waitq'[s][i] = waitq'[s][j] => i = j
      <4>1. \A a, b \in 1..n : waitq[s][a] = waitq[s][b] => a = b
        BY <1>1, <3>1 DEF InQueue
      <4>2. i \in 1..(n - 1)  BY <2>4, <3>3
      <4> HIDE DEF s
      <4> SUFFICES ASSUME NEW j \in 1..(n - 1), waitq'[s][i] = waitq'[s][j] PROVE i = j
        BY <3>3
      <4>3. old(i) = old(j)  BY <3>4, <3>5, <4>1, <4>2
      <4> QED  BY <3>6, <4>2, <4>3
    <3> QED  BY <2>4, <3>8, <3>9
  <2> QED  BY <2>3, <2>4
<1> QED  BY <1>1, <1>3, <1>4

\* A freed slot is handed to the first in the queue.
LEMMA QueueHandOff ==
    ASSUME TypeInv, InQueue, NEW r \in Runs, Receive(r)
    PROVE  InQueue'
<1> DEFINE s == sess[r]
<1>1. pc[r] = "receive" /\ s \in Sessions /\ sess' = sess
  BY DEF Receive, TypeInv, Placed
<1>2. pc \in [Runs -> RunPCs] /\ waitq \in [Sessions -> Seq(Runs)]
  BY DEF TypeInv, TypeOK
<1>3. CASE waitq[s] = <<>>
  <2>1. waitq' = waitq /\ pc' = [pc EXCEPT ![r] = "done"]  BY <1>3 DEF Receive
  <2> QED  BY <1>1, <1>2, <2>1, QueueKept
<1>4. CASE waitq[s] # <<>>
  <2> DEFINE w == Head(waitq[s])  n == Len(waitq[s])
  <2>1. /\ waitq' = [waitq EXCEPT ![s] = Tail(@)]
        /\ pc' = [pc EXCEPT ![r] = "done", ![w] = "granted"]
    BY <1>4 DEF Receive
  <2>2. n \in Nat /\ DOMAIN waitq[s] = 1..n  BY <1>1, QueueMembers
  <2>3. /\ waitq'[s] = Tail(waitq[s])
        /\ DOMAIN waitq'[s] = 1..(n - 1) /\ n >= 1
        /\ \A j \in 1..(n - 1) : waitq'[s][j] = waitq[s][j + 1]
    BY <1>1, <1>2, <1>4, <2>1, <2>2, HeadTailProperties, LenProperties
  <2>4. w = waitq[s][1]  BY <1>1, <1>2, <1>4, HeadTailProperties
  <2> HIDE DEF n, w
  <2> SUFFICES ASSUME NEW t \in Sessions, NEW i \in DOMAIN waitq'[t]
               PROVE  /\ pc'[waitq'[t][i]] = "queued"
                      /\ sess[waitq'[t][i]] = t
                      /\ \A j \in DOMAIN waitq'[t] :
                            waitq'[t][i] = waitq'[t][j] => i = j
    BY <1>1 DEF InQueue
  <2>5. w \in Runs /\ sess[w] = s  BY <1>1, <2>2, <2>3, <2>4, QueueMembers DEF InQueue
  <2>6. CASE t # s
    <3>1. waitq'[t] = waitq[t]  BY <1>2, <2>1, <2>6
    <3>2. \A j \in DOMAIN waitq[t] : waitq[t][j] \in Runs \ {r, w}
      BY <1>1, <2>5, <2>6, QueueMembers DEF InQueue
    <3> QED  BY <1>1, <1>2, <2>1, <3>1, <3>2 DEF InQueue
  <2>7. CASE t = s
    <3>1. \A j \in 1..(n - 1) : waitq'[s][j] \in Runs \ {r, w}
      BY <1>1, <2>2, <2>3, <2>4, QueueMembers DEF InQueue
    <3>2. pc'[waitq'[s][i]] = "queued" /\ sess[waitq'[s][i]] = s
      BY <1>1, <1>2, <2>1, <2>2, <2>3, <2>7, <3>1 DEF InQueue
    <3>3. \A j \in DOMAIN waitq'[s] : waitq'[s][i] = waitq'[s][j] => i = j
      <4>1. SUFFICES ASSUME NEW j \in 1..(n - 1), waitq'[s][i] = waitq'[s][j]
                     PROVE  i = j
        BY <2>3
      <4>2. i \in 1..(n - 1)  BY <2>3, <2>7
      <4>3. i + 1 \in 1..n /\ j + 1 \in 1..n  BY <2>2, <4>2
      <4>4. waitq[s][i + 1] = waitq[s][j + 1]  BY <2>3, <4>1, <4>2
      <4>5. i + 1 = j + 1  BY <1>1, <2>2, <4>3, <4>4 DEF InQueue
      <4> QED  BY <2>2, <4>2, <4>5
    <3> QED  BY <2>7, <3>2, <3>3
  <2> QED  BY <2>6, <2>7
<1> QED  BY <1>3, <1>4

LEMMA QueueStep ==
    ASSUME TypeInv, InQueue, [Next]_vars
    PROVE  InQueue'
<1>1. ASSUME NEW r \in Runs, EnterOrWait(r) \/ GiveUp(r) \/ Receive(r)
      PROVE  InQueue'
  BY <1>1, QueueJoin, QueueLeave, QueueHandOff
<1>2. ASSUME NEW r \in Runs, RunStep(r), ~EnterOrWait(r), ~GiveUp(r), ~Receive(r)
      PROVE  InQueue'
  <2>1. waitq' = waitq /\ sess' = sess
    BY <1>2 DEF RunStep, TryEnter, Granted, Denied, LoadMark, CountUp, Turn, Reply,
                LastSteer, EndLoop, ClearSteer, CountDown, DeleteMark, Release, slotVars
  <2>2. pc[r] # "queued" /\ \A q \in Runs \ {r} : pc'[q] = pc[q]
    BY <1>2 DEF RunStep, TryEnter, Granted, Denied, LoadMark, CountUp, Turn, Reply,
                LastSteer, EndLoop, ClearSteer, CountDown, DeleteMark, Release, Go,
                TypeInv, TypeOK
  <2> QED  BY <2>1, <2>2, QueueKept
<1>3. ASSUME NEW r \in Runs,
             Join(r) \/ ListTemps(r) \/ TryClaim(r) \/ NewTemp(r) \/ FailEarly(r) \/ Cancel(r)
      PROVE  InQueue'
  <2>1. waitq' = waitq
    BY <1>3 DEF Join, ListTemps, TryClaim, NewTemp, FailEarly, Cancel, slotVars
  <2>2. \A q \in Runs : pc[q] = "queued" => pc'[q] = "queued" /\ sess'[q] = sess[q]
    BY <1>3 DEF Join, ListTemps, TryClaim, NewTemp, FailEarly, Cancel, slotVars, Go,
                TypeInv, TypeOK
  <2> QED  BY <2>1, <2>2, QueueKept
<1>4. ASSUME NEW t \in Texts, TextStep(t) PROVE InQueue'
  BY <1>4, QueueKept DEF TextStep, LoadRunning, ReadCount, LoadSteer, AppendSteer, slotVars
<1>5. CASE UNCHANGED vars
  BY <1>5, QueueKept DEF vars, slotVars
<1> QED  BY <1>1, <1>2, <1>3, <1>4, <1>5 DEF Next

\* Every variable keeps its type: a slot count stays between 0 and
\* MAX_SESSION_TASKS, and the queues hold runs.
THEOREM GateTypeCorrect == Spec => []TypeOK
<1>1. Init => TypeInv /\ InQueue  BY TypeInit, QueueInit
<1>2. TypeInv /\ InQueue /\ [Next]_vars => (TypeInv /\ InQueue)'
  BY TypeStep, QueueStep
<1>3. TypeInv => TypeOK  BY DEF TypeInv
<1> QED  BY <1>1, <1>2, <1>3, PTL DEF Spec

-----------------------------------------------------------------------------
\* The runs that hold a slot of each session, before and after a step.
LEMMA HoldersFinite ==
    ASSUME NEW s
    PROVE  IsFiniteSet(Holders(s)) /\ Cardinality(Holders(s)) \in Nat
<1>1. Holders(s) \subseteq Runs  BY DEF Holders
<1> QED  BY <1>1, GateAssumption, FS_Subset, FS_CardinalityType

\* One run takes a slot of its session.
LEMMA HolderJoins ==
    ASSUME NEW r \in Runs, sess' = sess, pc[r] \notin Holding, pc'[r] \in Holding,
           \A q \in Runs \ {r} : pc'[q] \in Holding <=> pc[q] \in Holding,
           NEW s
    PROVE  Cardinality(Holders(s)') =
               IF s = sess[r] THEN Cardinality(Holders(s)) + 1 ELSE Cardinality(Holders(s))
<1>1. CASE s = sess[r]
  <2>1. Holders(s)' = Holders(s) \cup {r} /\ r \notin Holders(s)
    BY <1>1 DEF Holders
  <2> QED  BY <1>1, <2>1, HoldersFinite, FS_AddElement
<1>2. CASE s # sess[r]
  <2>1. Holders(s)' = Holders(s)  BY <1>2 DEF Holders
  <2> QED  BY <1>2, <2>1
<1> QED  BY <1>1, <1>2

\* One run leaves its slot, which nobody takes over.
LEMMA HolderLeaves ==
    ASSUME NEW r \in Runs, sess' = sess, pc[r] \in Holding, pc'[r] \notin Holding,
           \A q \in Runs \ {r} : pc'[q] \in Holding <=> pc[q] \in Holding,
           NEW s
    PROVE  Cardinality(Holders(s)') =
               IF s = sess[r] THEN Cardinality(Holders(s)) - 1 ELSE Cardinality(Holders(s))
<1>1. CASE s = sess[r]
  <2>1. Holders(s)' = Holders(s) \ {r} /\ r \in Holders(s)
    BY <1>1 DEF Holders
  <2> QED  BY <1>1, <2>1, HoldersFinite, FS_RemoveElement
<1>2. CASE s # sess[r]
  <2>1. Holders(s)' = Holders(s)  BY <1>2 DEF Holders
  <2> QED  BY <1>2, <2>1
<1> QED  BY <1>1, <1>2

\* The slots of a session are those of its holders, and runs wait only while
\* there is none free.
SlotInv == SlotsAccounted /\ WaitOnlyWhenFull

LEMMA SlotInit == Init => SlotInv
<1> SUFFICES ASSUME Init PROVE SlotInv
  OBVIOUS
<1>1. \A s \in Sessions : Holders(s) = {}  BY DEF Init, Holders, Holding
<1> QED  BY <1>1, FS_EmptySet DEF Init, SlotInv, SlotsAccounted, WaitOnlyWhenFull

\* A step that neither moves a run in or out of Holding nor touches the channel.
LEMMA SlotKept ==
    ASSUME TypeInv, SlotInv, slot' = slot, waitq' = waitq,
           \A q \in Runs, s \in Sessions :
               pc'[q] \in Holding /\ sess'[q] = s <=> pc[q] \in Holding /\ sess[q] = s
    PROVE  SlotInv'
<1>1. \A s \in Sessions : Holders(s)' = Holders(s)  BY DEF Holders
<1> QED  BY <1>1 DEF SlotInv, SlotsAccounted, WaitOnlyWhenFull

\* The try and the blocking select when the channel has room.
LEMMA SlotTaken ==
    ASSUME TypeInv, SlotInv, NEW r \in Runs,
           pc[r] \in {"prepare", "full"}, pc'[r] \in Holding, sess' = sess,
           \A q \in Runs \ {r} : pc'[q] = pc[q],
           slot[sess[r]] < MaxTasks, slot' = [slot EXCEPT ![sess[r]] = @ + 1],
           waitq' = waitq
    PROVE  SlotInv'
<1>1. sess[r] \in Sessions /\ pc[r] \notin Holding
  BY DEF TypeInv, Placed, Holding
<1>2. \A s \in Sessions : Cardinality(Holders(s)') =
          IF s = sess[r] THEN Cardinality(Holders(s)) + 1 ELSE Cardinality(Holders(s))
  BY <1>1, HolderJoins
<1>3. slot \in [Sessions -> 0..MaxTasks]  BY DEF TypeInv, TypeOK
<1>4. SlotsAccounted'
  BY <1>1, <1>2, <1>3 DEF SlotInv, SlotsAccounted
<1>5. waitq[sess[r]] = <<>>
  BY <1>1, <1>3, GateAssumption DEF SlotInv, WaitOnlyWhenFull
<1>6. WaitOnlyWhenFull'
  BY <1>1, <1>3, <1>5 DEF SlotInv, WaitOnlyWhenFull
<1> QED  BY <1>4, <1>6 DEF SlotInv

\* RemoveConcurrent's receive: the slot is freed or handed to a waiting run.
LEMMA SlotFreed ==
    ASSUME TypeInv, InQueue, SlotInv, NEW r \in Runs, Receive(r)
    PROVE  SlotInv'
<1> DEFINE s == sess[r]
<1>1. /\ pc[r] = "receive" /\ pc[r] \in Holding /\ sess' = sess /\ s \in Sessions
      /\ slot \in [Sessions -> 0..MaxTasks] /\ pc \in [Runs -> RunPCs]
      /\ waitq \in [Sessions -> Seq(Runs)] /\ MaxTasks \in Nat
  BY GateAssumption DEF Receive, Holding, TypeInv, TypeOK, Placed
<1>2. \A t \in Sessions : Cardinality(Holders(t)) \in Nat  BY HoldersFinite
<1>3. CASE waitq[s] = <<>>
  <2>1. /\ pc' = [pc EXCEPT ![r] = "done"] /\ waitq' = waitq
        /\ slot' = [slot EXCEPT ![s] = IF @ > 0 THEN @ - 1 ELSE 0]
    BY <1>3 DEF Receive
  <2>2. pc'[r] \notin Holding /\ \A q \in Runs \ {r} : pc'[q] = pc[q]
    BY <1>1, <2>1 DEF Holding
  <2>3. \A t \in Sessions : Cardinality(Holders(t)') =
            IF t = s THEN Cardinality(Holders(t)) - 1 ELSE Cardinality(Holders(t))
    BY <1>1, <2>2, HolderLeaves
  <2>4. r \in Holders(s)  BY <1>1 DEF Holders
  <2>5. slot[s] # 0
    BY <1>1, <2>4, HoldersFinite, FS_EmptySet DEF SlotInv, SlotsAccounted
  <2>6. SlotsAccounted'
    BY <1>1, <1>2, <2>1, <2>3, <2>5 DEF SlotInv, SlotsAccounted
  <2>7. WaitOnlyWhenFull'
    BY <1>1, <1>3, <2>1 DEF SlotInv, WaitOnlyWhenFull
  <2> QED  BY <2>6, <2>7 DEF SlotInv
<1>4. CASE waitq[s] # <<>>
  <2> DEFINE w == Head(waitq[s])
  <2>1. /\ pc' = [pc EXCEPT ![r] = "done", ![w] = "granted"]
        /\ slot' = slot /\ waitq' = [waitq EXCEPT ![s] = Tail(@)]
    BY <1>4 DEF Receive
  <2>2. w \in Runs /\ pc[w] = "queued" /\ sess[w] = s
    <3>1. 1 \in DOMAIN waitq[s] /\ w = waitq[s][1] /\ w \in Runs
      BY <1>1, <1>4, HeadTailProperties, LenProperties
    <3> QED  BY <1>1, <3>1 DEF InQueue
  <2> HIDE DEF w
  <2>3. /\ pc'[r] = "done" /\ pc'[w] = "granted" /\ w # r
        /\ \A q \in Runs \ {r, w} : pc'[q] = pc[q]
    BY <1>1, <2>1, <2>2
  <2>4. Holders(s)' = (Holders(s) \ {r}) \cup {w}
    BY <1>1, <2>2, <2>3 DEF Holders, Holding
  <2>5. r \in Holders(s) /\ w \notin Holders(s) \ {r}
    BY <1>1, <2>2 DEF Holders, Holding
  <2>6. Cardinality(Holders(s)') = Cardinality(Holders(s))
    <3>1. /\ IsFiniteSet(Holders(s) \ {r})
          /\ Cardinality(Holders(s) \ {r}) = Cardinality(Holders(s)) - 1
      BY <2>5, HoldersFinite, FS_RemoveElement
    <3>2. Cardinality((Holders(s) \ {r}) \cup {w}) = Cardinality(Holders(s) \ {r}) + 1
      BY <2>5, <3>1, FS_AddElement
    <3> QED  BY <1>1, <1>2, <2>4, <3>1, <3>2
  <2>7. \A t \in Sessions \ {s} : Holders(t)' = Holders(t)
    BY <1>1, <2>2, <2>3 DEF Holders
  <2>8. SlotsAccounted'
    BY <1>1, <2>1, <2>6, <2>7 DEF SlotInv, SlotsAccounted
  <2>9. WaitOnlyWhenFull'
    BY <1>1, <1>4, <2>1 DEF SlotInv, WaitOnlyWhenFull
  <2> QED  BY <2>8, <2>9 DEF SlotInv
<1> QED  BY <1>3, <1>4

LEMMA SlotStep ==
    ASSUME TypeInv, InQueue, SlotInv, [Next]_vars
    PROVE  SlotInv'
<1>0. pc \in [Runs -> RunPCs] /\ slot \in [Sessions -> 0..MaxTasks]
      /\ waitq \in [Sessions -> Seq(Runs)] /\ MaxTasks \in Nat
  BY GateAssumption DEF TypeInv, TypeOK
<1>1. ASSUME NEW r \in Runs, TryEnter(r) PROVE SlotInv'
  <2>1. CASE slot[sess[r]] < MaxTasks
    BY <1>0, <1>1, <2>1, SlotTaken DEF TryEnter, Holding
  <2>2. CASE ~(slot[sess[r]] < MaxTasks)
    <3>1. pc[r] = "prepare" /\ pc' = [pc EXCEPT ![r] = "full"] /\ slot' = slot
          /\ waitq' = waitq /\ sess' = sess
      BY <1>1, <2>2 DEF TryEnter
    <3> QED  BY <1>0, <3>1, SlotKept DEF Holding
  <2> QED  BY <2>1, <2>2
<1>2. ASSUME NEW r \in Runs, EnterOrWait(r) PROVE SlotInv'
  <2>1. CASE slot[sess[r]] < MaxTasks
    BY <1>0, <1>2, <2>1, SlotTaken DEF EnterOrWait, Holding
  <2>2. CASE ~(slot[sess[r]] < MaxTasks)
    <3>1. /\ pc[r] = "full" /\ pc' = [pc EXCEPT ![r] = "queued"] /\ slot' = slot
          /\ waitq' = [waitq EXCEPT ![sess[r]] = Append(@, r)] /\ sess' = sess
      BY <1>2, <2>2 DEF EnterOrWait
    <3>2. sess[r] \in Sessions  BY <3>1 DEF TypeInv, Placed
    <3>3. \A s \in Sessions : Holders(s)' = Holders(s)
      BY <1>0, <3>1 DEF Holders, Holding
    <3>4. SlotsAccounted'  BY <3>1, <3>3 DEF SlotInv, SlotsAccounted
    <3>5. slot[sess[r]] = MaxTasks  BY <1>0, <2>2, <3>2
    <3>6. WaitOnlyWhenFull'  BY <1>0, <3>1, <3>5 DEF SlotInv, WaitOnlyWhenFull
    <3> QED  BY <3>4, <3>6 DEF SlotInv
  <2> QED  BY <2>1, <2>2
<1>3. ASSUME NEW r \in Runs, GiveUp(r) PROVE SlotInv'
  <2>1. /\ pc[r] \in {"full", "queued"} /\ pc' = [pc EXCEPT ![r] = "denied"]
        /\ slot' = slot /\ sess' = sess
    BY <1>3 DEF GiveUp
  <2>2. \A s \in Sessions : Holders(s)' = Holders(s)
    BY <1>0, <2>1 DEF Holders, Holding
  <2>3. SlotsAccounted'  BY <2>1, <2>2 DEF SlotInv, SlotsAccounted
  <2>4. \A s \in Sessions : waitq'[s] # <<>> => waitq[s] # <<>>
    <3>1. CASE UNCHANGED waitq  BY <3>1
    <3>2. CASE ~UNCHANGED waitq
      <4>1. PICK i \in DOMAIN waitq[sess[r]] :
                   waitq' = [waitq EXCEPT ![sess[r]] = Dropped(@, i)]
        BY <1>3, <3>2 DEF GiveUp
      <4>2. sess[r] \in Sessions  BY <2>1 DEF TypeInv, Placed
      <4>3. waitq[sess[r]] # <<>>  BY <1>0, <4>1, <4>2, EmptySeq, LenProperties
      <4> QED  BY <1>0, <4>1, <4>3
    <3> QED  BY <3>1, <3>2
  <2>5. WaitOnlyWhenFull'  BY <2>1, <2>4 DEF SlotInv, WaitOnlyWhenFull
  <2> QED  BY <2>3, <2>5 DEF SlotInv
<1>4. ASSUME NEW r \in Runs, Receive(r) PROVE SlotInv'
  BY <1>4, SlotFreed
<1>5. ASSUME NEW r \in Runs, RunStep(r), ~TryEnter(r), ~EnterOrWait(r), ~GiveUp(r),
             ~Receive(r)
      PROVE  SlotInv'
  <2>1. slot' = slot /\ waitq' = waitq /\ sess' = sess
    BY <1>5 DEF RunStep, Granted, Denied, LoadMark, CountUp, Turn, Reply, LastSteer,
                EndLoop, ClearSteer, CountDown, DeleteMark, Release, slotVars
  <2>2. /\ \A q \in Runs \ {r} : pc'[q] = pc[q]
        /\ pc'[r] \in Holding <=> pc[r] \in Holding
    BY <1>0, <1>5 DEF RunStep, Granted, Denied, LoadMark, CountUp, Turn, Reply,
                      LastSteer, EndLoop, ClearSteer, CountDown, DeleteMark, Release,
                      Go, Holding
  <2> QED  BY <2>1, <2>2, SlotKept
<1>6. ASSUME NEW r \in Runs,
             Join(r) \/ ListTemps(r) \/ TryClaim(r) \/ NewTemp(r) \/ FailEarly(r) \/ Cancel(r)
      PROVE  SlotInv'
  <2>1. slot' = slot /\ waitq' = waitq
    BY <1>6 DEF Join, ListTemps, TryClaim, NewTemp, FailEarly, Cancel, slotVars
  <2>2. /\ \A q \in Runs \ {r} : pc'[q] = pc[q] /\ sess'[q] = sess[q]
        /\ pc'[r] \in Holding <=> pc[r] \in Holding
        /\ pc[r] \in Holding => sess'[r] = sess[r]
    BY <1>0, <1>6 DEF Join, ListTemps, TryClaim, NewTemp, FailEarly, Cancel, slotVars,
                      Go, Holding, TypeInv, TypeOK
  <2> QED  BY <2>1, <2>2, SlotKept
<1>7. ASSUME NEW t \in Texts, TextStep(t) PROVE SlotInv'
  BY <1>7, SlotKept DEF TextStep, LoadRunning, ReadCount, LoadSteer, AppendSteer, slotVars
<1>8. CASE UNCHANGED vars
  BY <1>8, SlotKept DEF vars, slotVars
<1> QED  BY <1>1, <1>2, <1>3, <1>4, <1>5, <1>6, <1>7, <1>8 DEF Next

LEMMA SlotInvariant == Spec => []SlotInv
<1>1. Init => TypeInv /\ InQueue /\ SlotInv  BY TypeInit, QueueInit, SlotInit
<1>2. TypeInv /\ InQueue /\ SlotInv /\ [Next]_vars => (TypeInv /\ InQueue /\ SlotInv)'
  BY TypeStep, QueueStep, SlotStep
<1> QED  BY <1>1, <1>2, PTL DEF Spec

\* No slot of a session leaks or is freed twice, with any number of runs that
\* start, wait, are canceled and end.
THEOREM SlotsMatchHolders == Spec => []SlotsAccounted
<1>1. SlotInv => SlotsAccounted  BY DEF SlotInv
<1> QED  BY <1>1, SlotInvariant, PTL

\* A run waits only while every slot of its session is taken.
THEOREM WaitersHaveCause == Spec => []WaitOnlyWhenFull
<1>1. SlotInv => WaitOnlyWhenFull  BY DEF SlotInv
<1> QED  BY <1>1, SlotInvariant, PTL

-----------------------------------------------------------------------------
(* The steer messages: each is in one place. *)

Single(x) == \A i, j \in DOMAIN x : x[i] = x[j] => i = j
Apart(x, y) == \A i \in DOMAIN x, j \in DOMAIN y : x[i] # y[j]
AllQueued(x) == \A i \in DOMAIN x : tpc[x[i]] = "queued"

\* The messages in the lists and the histories are all different, and their senders have
\* done with them.
SteerInv ==
    /\ \A e \in Texts : Single(list[e]) /\ AllQueued(list[e])
    /\ \A r \in Runs : Single(history[r]) /\ AllQueued(history[r])
    /\ \A e, f \in Texts : e # f => Apart(list[e], list[f])
    /\ \A r, q \in Runs : r # q => Apart(history[r], history[q])
    /\ \A e \in Texts, r \in Runs : Apart(list[e], history[r])

LEMMA ConcatOnce ==
    ASSUME NEW S, NEW x \in Seq(S), NEW y \in Seq(S)
    PROVE  /\ Single(x) /\ Single(y) /\ Apart(x, y) => Single(x \o y)
           /\ \A z : Apart(x, z) /\ Apart(y, z) => Apart(x \o y, z) /\ Apart(z, x \o y)
           /\ AllQueued(x) /\ AllQueued(y) => AllQueued(x \o y)
           /\ Apart(x, y) => Apart(y, x)
<1> DEFINE c == x \o y
<1>1. /\ c \in Seq(S) /\ DOMAIN c = 1..(Len(x) + Len(y))
      /\ DOMAIN x = 1..Len(x) /\ DOMAIN y = 1..Len(y) /\ Len(x) \in Nat /\ Len(y) \in Nat
      /\ \A i \in 1..(Len(x) + Len(y)) : c[i] = IF i <= Len(x) THEN x[i] ELSE y[i - Len(x)]
  BY ConcatProperties, LenProperties
<1>2. \A i \in DOMAIN c : \/ i \in DOMAIN x /\ c[i] = x[i]
                          \/ i - Len(x) \in DOMAIN y /\ c[i] = y[i - Len(x)] /\ i \notin DOMAIN x
  BY <1>1
<1>3. DOMAIN c \subseteq Int /\ Len(x) \in Int  BY <1>1
<1> HIDE DEF c
<1>4. ASSUME Single(x), Single(y), Apart(x, y) PROVE Single(c)
  <2> SUFFICES ASSUME NEW i \in DOMAIN c, NEW j \in DOMAIN c, c[i] = c[j] PROVE i = j
    BY DEF Single
  <2>1. CASE i \in DOMAIN x /\ j \in DOMAIN x  BY <1>2, <1>4, <2>1 DEF Single
  <2>2. CASE i \notin DOMAIN x /\ j \notin DOMAIN x
    <3>1. i - Len(x) = j - Len(x)  BY <1>2, <1>4, <2>2 DEF Single
    <3> QED  BY <3>1, <1>3
  <2>3. CASE i \in DOMAIN x /\ j \notin DOMAIN x  BY <1>2, <1>4, <2>3 DEF Apart
  <2>4. CASE i \notin DOMAIN x /\ j \in DOMAIN x  BY <1>2, <1>4, <2>4 DEF Apart
  <2> QED  BY <2>1, <2>2, <2>3, <2>4
<1>5. ASSUME NEW z, Apart(x, z), Apart(y, z) PROVE Apart(c, z) /\ Apart(z, c)
  BY <1>2, <1>5 DEF Apart
<1>6. AllQueued(x) /\ AllQueued(y) => AllQueued(c)  BY <1>2 DEF AllQueued
<1>7. Apart(x, y) => Apart(y, x)  BY DEF Apart
<1> QED  BY <1>4, <1>5, <1>6, <1>7 DEF c

LEMMA EmptyOnce ==
    Single(<<>>) /\ AllQueued(<<>>) /\ \A z : Apart(<<>>, z) /\ Apart(z, <<>>)
BY DEF Single, AllQueued, Apart

LEMMA SteerInit == Init => SteerInv
BY EmptyOnce DEF Init, SteerInv

LEMMA SteerTaken ==
    ASSUME TypeInv, SteerInv, NEW r \in Runs, sess[r] \in Sessions, TakeSteer(r)
    PROVE  SteerInv'
<1> DEFINE e == steerMap[sess[r]]
<1>1. e \in Texts \cup {None}  BY DEF TypeInv, TypeOK
<1>2. CASE e = None
  <2>1. history' = history /\ list' = list /\ tpc' = tpc
    BY <1>2 DEF TakeSteer, TypeInv, TypeOK
  <2> QED  BY <2>1 DEF SteerInv, AllQueued
<1>3. CASE e \in Texts
  <2> DEFINE h == history[r] \o list[e]
  <2>1. e # None  BY <1>3, GateAssumption
  <2>2. /\ list' = [list EXCEPT ![e] = <<>>] /\ tpc' = tpc
        /\ history' = [history EXCEPT ![r] = h]
        /\ history[r] \in Seq(Texts) /\ list[e] \in Seq(Texts)
        /\ DOMAIN list = Texts /\ DOMAIN history = Runs
    BY <1>3, <2>1 DEF TakeSteer, TypeInv, TypeOK
  <2>3. /\ Single(history[r]) /\ Single(list[e]) /\ AllQueued(history[r]) /\ AllQueued(list[e])
        /\ Apart(list[e], history[r]) /\ Apart(history[r], list[e])
    BY <1>3 DEF SteerInv, Apart
  <2>4. Single(h) /\ AllQueued(h)  BY <2>2, <2>3, ConcatOnce
  <2>5. \A f \in Texts \ {e} : Apart(list[f], h)
    <3> SUFFICES ASSUME NEW f \in Texts \ {e} PROVE Apart(list[f], h)  OBVIOUS
    <3>1. Apart(history[r], list[f]) /\ Apart(list[e], list[f])  BY <1>3 DEF SteerInv, Apart
    <3> QED  BY <2>2, <3>1, ConcatOnce
  <2>6. \A q \in Runs \ {r} : Apart(history[q], h) /\ Apart(h, history[q])
    <3> SUFFICES ASSUME NEW q \in Runs \ {r} PROVE Apart(history[q], h) /\ Apart(h, history[q])
      OBVIOUS
    <3>1. Apart(history[r], history[q]) /\ Apart(list[e], history[q])
      BY <1>3 DEF SteerInv
    <3> QED  BY <2>2, <3>1, ConcatOnce
  <2>7. /\ \A f \in Texts : list'[f] = IF f = e THEN <<>> ELSE list[f]
        /\ \A q \in Runs : history'[q] = IF q = r THEN h ELSE history[q]
    BY <2>2
  <2> HIDE DEF h
  <2>8. \A f \in Texts : Single(list'[f]) /\ AllQueued(list'[f])
    BY <2>7, EmptyOnce DEF SteerInv
  <2>9. \A q \in Runs : Single(history'[q]) /\ AllQueued(history'[q])
    BY <2>4, <2>7 DEF SteerInv
  <2>10. \A f, g \in Texts : f # g => Apart(list'[f], list'[g])
    BY <2>7, EmptyOnce DEF SteerInv
  <2>11. \A p, q \in Runs : p # q => Apart(history'[p], history'[q])
    BY <2>6, <2>7 DEF SteerInv
  <2>12. \A f \in Texts, q \in Runs : Apart(list'[f], history'[q])
    BY <2>5, <2>7, EmptyOnce DEF SteerInv
  <2> QED  BY <2>2, <2>8, <2>9, <2>10, <2>11, <2>12 DEF SteerInv, AllQueued
<1> QED  BY <1>1, <1>2, <1>3

LEMMA SteerAppended ==
    ASSUME TypeInv, SteerInv, NEW t \in Texts, AppendSteer(t)
    PROVE  SteerInv'
<1> DEFINE e == tentry[t]
<1>1. /\ tpc[t] = "append" /\ tpc' = [tpc EXCEPT ![t] = "queued"]
      /\ list' = [list EXCEPT ![e] = Append(@, t)] /\ history' = history
      /\ DOMAIN list = Texts /\ DOMAIN tpc = Texts
  BY DEF AppendSteer, GoText, TypeInv, TypeOK
<1>2. \A x : AllQueued(x) => \A i \in DOMAIN x : x[i] # t  BY <1>1 DEF AllQueued
<1>3. \A x : (\A i \in DOMAIN x : x[i] \in Texts) /\ AllQueued(x) => AllQueued(x)'
  BY <1>1 DEF AllQueued
<1>4. /\ \A f \in Texts : list[f] \in Seq(Texts) /\ \A i \in DOMAIN list[f] : list[f][i] \in Texts
      /\ \A q \in Runs : \A i \in DOMAIN history[q] : history[q][i] \in Texts
  BY ElementOfSeq, LenProperties DEF TypeInv, TypeOK
<1>5. /\ \A f \in Texts : AllQueued(list[f]) /\ \A i \in DOMAIN list[f] : list[f][i] # t
      /\ \A q \in Runs : AllQueued(history[q]) /\ \A i \in DOMAIN history[q] : history[q][i] # t
  BY <1>2 DEF SteerInv
<1>6. /\ \A f \in Texts : \A i \in DOMAIN list[f] : tpc'[list[f][i]] = "queued"
      /\ \A q \in Runs : \A i \in DOMAIN history[q] : tpc'[history[q][i]] = "queued"
  BY <1>1, <1>4, <1>5 DEF AllQueued
<1>7. CASE e \notin Texts
  <2>1. list' = list  BY <1>1, <1>7 DEF TypeInv, TypeOK
  <2> QED  BY <1>1, <1>6, <2>1 DEF SteerInv, AllQueued
<1>8. CASE e \in Texts
  <2> DEFINE l == Append(list[e], t)
             one == <<t>>
  <2>1. /\ one \in Seq(Texts) /\ DOMAIN one = {1} /\ one[1] = t
        /\ l = list[e] \o one /\ list[e] \in Seq(Texts)
    BY <1>4, <1>8, AppendIsConcat
  <2>2. /\ Single(one)
        /\ \A f \in Texts : Apart(list[f], one) /\ Apart(one, list[f])
        /\ \A q \in Runs : Apart(one, history[q])
    BY <1>5, <2>1 DEF Single, Apart
  <2>3. Single(l)
    <3>1. Single(list[e]) /\ Apart(list[e], one)  BY <1>8, <2>2 DEF SteerInv
    <3> HIDE DEF one
    <3> QED  BY <2>1, <2>2, <3>1, ConcatOnce
  <2>4. \A i \in DOMAIN l : tpc'[l[i]] = "queued"
    <3>1. \A i \in DOMAIN l : l[i] = t \/ \E j \in DOMAIN list[e] : l[i] = list[e][j]
      BY <1>8, <1>4, <2>1, AppendProperties, LenProperties
    <3> HIDE DEF l
    <3> QED  BY <1>1, <1>6, <1>8, <3>1
  <2>5. \A f \in Texts \ {e} : Apart(l, list[f]) /\ Apart(list[f], l)
    <3> SUFFICES ASSUME NEW f \in Texts \ {e} PROVE Apart(l, list[f]) /\ Apart(list[f], l)
      OBVIOUS
    <3>1. Apart(list[e], list[f]) /\ Apart(one, list[f])  BY <1>8, <2>2 DEF SteerInv
    <3> HIDE DEF one
    <3> QED  BY <2>1, <3>1, ConcatOnce
  <2>6. \A q \in Runs : Apart(l, history[q])
    <3> SUFFICES ASSUME NEW q \in Runs PROVE Apart(l, history[q])  OBVIOUS
    <3>1. Apart(list[e], history[q]) /\ Apart(one, history[q])  BY <1>8, <2>2 DEF SteerInv
    <3> HIDE DEF one
    <3> QED  BY <2>1, <3>1, ConcatOnce
  <2>7. \A f \in Texts : list'[f] = IF f = e THEN l ELSE list[f]  BY <1>1, <1>8
  <2> HIDE DEF l, one
  <2>8. \A f \in Texts : Single(list'[f]) /\ \A i \in DOMAIN list'[f] : tpc'[list'[f][i]] = "queued"
    BY <1>6, <2>3, <2>4, <2>7 DEF SteerInv
  <2>9. \A f, g \in Texts : f # g => Apart(list'[f], list'[g])
    BY <2>5, <2>7 DEF SteerInv
  <2>10. \A f \in Texts, q \in Runs : Apart(list'[f], history[q])
    BY <2>6, <2>7 DEF SteerInv
  <2> QED  BY <1>1, <1>6, <2>8, <2>9, <2>10 DEF SteerInv, AllQueued
<1> QED  BY <1>7, <1>8

\* A sender that has not appended its message yet moves: nothing else does.
LEMMA SteerMoved ==
    ASSUME TypeInv, SteerInv, NEW t \in Texts, tpc[t] # "queued",
           \A u \in Texts \ {t} : tpc'[u] = tpc[u],
           UNCHANGED <<list, history>>
    PROVE  SteerInv'
<1>1. /\ \A f \in Texts : \A i \in DOMAIN list[f] : list[f][i] \in Texts
      /\ \A q \in Runs : \A i \in DOMAIN history[q] : history[q][i] \in Texts
  BY ElementOfSeq, LenProperties DEF TypeInv, TypeOK
<1>2. /\ \A f \in Texts : AllQueued(list[f])'
      /\ \A q \in Runs : AllQueued(history[q])'
  BY <1>1 DEF SteerInv, AllQueued
<1> QED  BY <1>2 DEF SteerInv

LEMMA SteerStep ==
    ASSUME TypeInv, SteerInv, [Next]_vars
    PROVE  SteerInv'
<1>1. CASE UNCHANGED <<list, history, tpc>>  BY <1>1 DEF SteerInv, AllQueued
<1>2. ASSUME NEW r \in Runs, Turn(r) \/ LastSteer(r) PROVE SteerInv'
  <2>1. pc[r] \in {"turn", "last"} /\ TakeSteer(r)  BY <1>2 DEF Turn, LastSteer, Go
  <2>2. sess[r] \in Sessions  BY <2>1 DEF TypeInv, Placed
  <2> QED  BY <2>1, <2>2, SteerTaken
<1>3. ASSUME NEW r \in Runs, RunStep(r), ~Turn(r), ~LastSteer(r) PROVE SteerInv'
  <2>1. UNCHANGED <<list, history, tpc>>
    BY <1>3 DEF RunStep, TryEnter, EnterOrWait, GiveUp, Granted, Denied, LoadMark, CountUp,
                Reply, EndLoop, ClearSteer, CountDown, DeleteMark, Release, Receive, steerVars
  <2> QED  BY <1>1, <2>1
<1>4. ASSUME NEW r \in Runs, Join(r) \/ ListTemps(r) \/ TryClaim(r) \/ NewTemp(r)
                             \/ FailEarly(r) \/ Cancel(r)
      PROVE  SteerInv'
  <2>1. UNCHANGED <<list, history, tpc>>
    BY <1>4 DEF Join, ListTemps, TryClaim, NewTemp, FailEarly, Cancel, steerVars
  <2> QED  BY <1>1, <2>1
<1>5. ASSUME NEW t \in Texts, TextStep(t), ~AppendSteer(t) PROVE SteerInv'
  <2>1. /\ UNCHANGED <<list, history>> /\ tpc[t] # "queued"
        /\ \A u \in Texts \ {t} : tpc'[u] = tpc[u]
    BY <1>5 DEF TextStep, LoadRunning, ReadCount, LoadSteer, GoText, TypeInv, TypeOK
  <2> QED  BY <2>1, SteerMoved
<1>6. ASSUME NEW t \in Texts, AppendSteer(t) PROVE SteerInv'
  BY <1>6, SteerAppended
<1>7. CASE UNCHANGED vars  BY <1>1, <1>7 DEF vars, steerVars
<1> QED  BY <1>2, <1>3, <1>4, <1>5, <1>6, <1>7 DEF Next

\* A message sent to a session that runs is injected at most once, however many runs of
\* the session read the list (steerWait.go:80).
THEOREM SteerInjectedOnce == Spec => []InjectedOnce
<1>1. Init => TypeInv /\ InQueue /\ SteerInv  BY TypeInit, QueueInit, SteerInit
<1>2. TypeInv /\ InQueue /\ SteerInv /\ [Next]_vars => (TypeInv /\ InQueue /\ SteerInv)'
  BY TypeStep, QueueStep, SteerStep
<1>3. SteerInv => InjectedOnce
  <2> SUFFICES ASSUME SteerInv, NEW r \in Runs, NEW q \in Runs,
                      NEW i \in DOMAIN history[r], NEW j \in DOMAIN history[q],
                      history[r][i] = history[q][j]
               PROVE  r = q /\ i = j
    BY DEF InjectedOnce
  <2>1. r = q  BY DEF SteerInv, Apart
  <2> QED  BY <2>1 DEF SteerInv, Single
<1> QED  BY <1>1, <1>2, <1>3, PTL DEF Spec

-----------------------------------------------------------------------------
(* A session found idle has no run.                                         *)

\* A run has no session before it is given one.
Unplaced == \A r \in Runs : pc[r] \in {"idle", "scan"} => sess[r] = None

\* A run that waits stands in the queue of its session.
Listed(q) == \E i \in DOMAIN waitq[sess[q]] : waitq[sess[q]][i] = q
WaitersListed == \A q \in Runs : pc[q] = "queued" => Listed(q)

IdleInv == Unplaced /\ WaitersListed

LEMMA IdleInit == Init => IdleInv
BY DEF Init, IdleInv, Unplaced, WaitersListed

\* A step that leaves the queues and the sessions alone and makes no run wait.
LEMMA ListedKept ==
    ASSUME WaitersListed, UNCHANGED waitq,
           \A q \in Runs : pc'[q] = "queued" => pc[q] = "queued" /\ sess'[q] = sess[q]
    PROVE  WaitersListed'
BY DEF WaitersListed, Listed

LEMMA ListedJoins ==
    ASSUME TypeInv, WaitersListed, NEW r \in Runs, EnterOrWait(r)
    PROVE  WaitersListed'
<1> DEFINE s == sess[r]
<1>1. pc[r] = "full" /\ s \in Sessions /\ sess' = sess /\ pc \in [Runs -> RunPCs]
  BY DEF EnterOrWait, TypeInv, TypeOK, Placed
<1>2. CASE slot[s] < MaxTasks
  BY <1>1, <1>2, ListedKept DEF EnterOrWait
<1>3. CASE ~(slot[s] < MaxTasks)
  <2>1. /\ waitq' = [waitq EXCEPT ![s] = Append(@, r)]
        /\ pc' = [pc EXCEPT ![r] = "queued"]
    BY <1>3 DEF EnterOrWait
  <2>2. waitq \in [Sessions -> Seq(Runs)]  BY DEF TypeInv, TypeOK
  <2> DEFINE n == Len(waitq[s])
  <2>3. /\ n \in Nat /\ DOMAIN waitq[s] = 1..n /\ DOMAIN waitq'[s] = 1..(n + 1)
        /\ \A j \in 1..n : waitq'[s][j] = waitq[s][j]
        /\ waitq'[s][n + 1] = r
    BY <1>1, <2>1, <2>2, AppendProperties, LenProperties
  <2> HIDE DEF n
  <2>4. n + 1 \in 1..(n + 1) /\ 1..n \subseteq 1..(n + 1)  BY <2>3
  <2>5. \A i \in DOMAIN waitq[s] : i \in DOMAIN waitq'[s] /\ waitq'[s][i] = waitq[s][i]
    BY <2>3, <2>4
  <2>6. \A t \in Sessions \ {s} : waitq'[t] = waitq[t]  BY <2>1, <2>2
  <2>7. Listed(r)'  BY <1>1, <2>3, <2>4 DEF Listed
  <2>8. ASSUME NEW q \in Runs \ {r}, pc'[q] = "queued" PROVE Listed(q)'
    <3>1. pc[q] = "queued"  BY <1>1, <2>1, <2>8
    <3>2. sess[q] \in Sessions /\ Listed(q)
      BY <3>1 DEF TypeInv, Placed, WaitersListed
    <3> QED  BY <1>1, <2>5, <2>6, <3>2 DEF Listed
  <2> QED  BY <2>7, <2>8 DEF WaitersListed
<1> QED  BY <1>2, <1>3

LEMMA ListedLeaves ==
    ASSUME TypeInv, WaitersListed, NEW r \in Runs, GiveUp(r)
    PROVE  WaitersListed'
<1> DEFINE s == sess[r]
<1>1. /\ pc[r] \in {"full", "queued"} /\ s \in Sessions /\ sess' = sess
      /\ pc' = [pc EXCEPT ![r] = "denied"] /\ pc \in [Runs -> RunPCs]
  BY DEF GiveUp, TypeInv, TypeOK, Placed
<1>2. CASE pc[r] = "full"
  BY <1>1, <1>2, ListedKept DEF GiveUp
<1>3. CASE pc[r] = "queued"
  <2>1. PICK k \in DOMAIN waitq[s] :
               waitq[s][k] = r /\ waitq' = [waitq EXCEPT ![s] = Dropped(@, k)]
    BY <1>3 DEF GiveUp
  <2>2. waitq \in [Sessions -> Seq(Runs)]  BY DEF TypeInv, TypeOK
  <2> DEFINE n == Len(waitq[s])
  <2>3. n \in Nat /\ DOMAIN waitq[s] = 1..n  BY <1>1, QueueMembers
  <2>4. waitq'[s] = Dropped(waitq[s], k)  BY <1>1, <2>1, <2>2
  <2>5. DOMAIN waitq'[s] = 1..(n - 1)
    BY <1>1, <2>2, <2>3, <2>4, DroppedType, LenProperties
  <2>6. \A j \in 1..(n - 1) : waitq'[s][j] = waitq[s][IF j < k THEN j ELSE j + 1]
    BY <1>1, <2>2, <2>4, DroppedType
  <2> HIDE DEF n
  <2>7. \A i \in 1..n : i # k =>
           \E j \in 1..(n - 1) : i = IF j < k THEN j ELSE j + 1
    <3> SUFFICES ASSUME NEW i \in 1..n, i # k
                 PROVE  \E j \in 1..(n - 1) : i = IF j < k THEN j ELSE j + 1
      OBVIOUS
    <3>1. k \in 1..n  BY <2>3
    <3>2. CASE i < k
      <4>1. i \in 1..(n - 1)  BY <2>3, <3>1, <3>2
      <4> QED  BY <3>2, <4>1
    <3>3. CASE i > k
      <4>1. i - 1 \in 1..(n - 1) /\ ~(i - 1 < k) /\ i = (i - 1) + 1
        BY <2>3, <3>1, <3>3
      <4> QED  BY <4>1
    <3> QED  BY <2>3, <3>1, <3>2, <3>3
  <2>8. \A t \in Sessions \ {s} : waitq'[t] = waitq[t]  BY <2>1, <2>2
  <2>9. ASSUME NEW q \in Runs, pc'[q] = "queued" PROVE Listed(q)'
    <3>1. q # r /\ pc[q] = "queued"  BY <1>1, <2>9
    <3>2. sess[q] \in Sessions /\ Listed(q)
      BY <3>1 DEF TypeInv, Placed, WaitersListed
    <3>3. CASE sess[q] # s  BY <1>1, <2>8, <3>2, <3>3 DEF Listed
    <3>4. CASE sess[q] = s
      <4>1. PICK i \in 1..n : waitq[s][i] = q  BY <2>3, <3>2, <3>4 DEF Listed
      <4>2. i # k  BY <2>1, <3>1, <4>1
      <4>3. PICK j \in 1..(n - 1) : waitq'[s][j] = q  BY <2>6, <2>7, <4>1, <4>2
      <4> QED  BY <1>1, <2>5, <3>4, <4>3 DEF Listed
    <3> QED  BY <3>3, <3>4
  <2> QED  BY <2>9 DEF WaitersListed
<1> QED  BY <1>1, <1>2, <1>3

LEMMA ListedHandOff ==
    ASSUME TypeInv, InQueue, WaitersListed, NEW r \in Runs, Receive(r)
    PROVE  WaitersListed'
<1> DEFINE s == sess[r]
<1>1. /\ pc[r] = "receive" /\ s \in Sessions /\ sess' = sess /\ pc \in [Runs -> RunPCs]
      /\ waitq[s] \in Seq(Runs) /\ waitq \in [Sessions -> Seq(Runs)]
  BY DEF Receive, TypeInv, TypeOK, Placed
<1>2. CASE waitq[s] = <<>>
  <2>1. pc' = [pc EXCEPT ![r] = "done"] /\ UNCHANGED waitq  BY <1>2 DEF Receive
  <2> QED  BY <1>1, <2>1, ListedKept
<1>3. CASE waitq[s] # <<>>
  <2> DEFINE n == Len(waitq[s])
             w == Head(waitq[s])
  <2>1. /\ pc' = [pc EXCEPT ![r] = "done", ![w] = "granted"]
        /\ waitq' = [waitq EXCEPT ![s] = Tail(@)]
    BY <1>3 DEF Receive
  <2>2. /\ n \in Nat /\ DOMAIN waitq[s] = 1..n /\ w = waitq[s][1] /\ w \in Runs
        /\ Tail(waitq[s]) \in Seq(Runs) /\ Len(Tail(waitq[s])) = n - 1
        /\ \A j \in 1..(n - 1) : Tail(waitq[s])[j] = waitq[s][j + 1]
    BY <1>1, <1>3, HeadTailProperties, LenProperties
  <2>3. waitq'[s] = Tail(waitq[s]) /\ \A t \in Sessions \ {s} : waitq'[t] = waitq[t]
    BY <1>1, <2>1
  <2>4. DOMAIN waitq'[s] = 1..(n - 1) /\ \A j \in 1..(n - 1) : waitq'[s][j] = waitq[s][j + 1]
    BY <2>2, <2>3, LenProperties
  <2> HIDE DEF n, w
  <2>5. ASSUME NEW q \in Runs, pc'[q] = "queued" PROVE Listed(q)'
    <3>1. q # w /\ pc[q] = "queued"  BY <1>1, <2>1, <2>2, <2>5
    <3>2. sess[q] \in Sessions /\ Listed(q)
      BY <3>1 DEF TypeInv, Placed, WaitersListed
    <3>3. CASE sess[q] # s  BY <1>1, <2>3, <3>2, <3>3 DEF Listed
    <3>4. CASE sess[q] = s
      <4>1. PICK i \in 1..n : waitq[s][i] = q  BY <2>2, <3>2, <3>4 DEF Listed
      <4>2. i # 1  BY <2>2, <3>1, <4>1
      <4>3. i - 1 \in 1..(n - 1) /\ (i - 1) + 1 = i  BY <2>2, <4>1, <4>2
      <4>4. waitq'[s][i - 1] = q  BY <2>4, <4>1, <4>3
      <4> QED  BY <1>1, <2>4, <3>4, <4>3, <4>4 DEF Listed
    <3> QED  BY <3>3, <3>4
  <2> QED  BY <2>5 DEF WaitersListed
<1> QED  BY <1>2, <1>3

LEMMA IdleStep ==
    ASSUME TypeInv, InQueue, IdleInv, [Next]_vars
    PROVE  IdleInv'
<1>0. /\ sess \in [Runs -> Sessions \cup {None}] /\ pc \in [Runs -> RunPCs]
      /\ \A s \in Sessions : waitq[s] \in Seq(Runs)
  BY DEF TypeInv, TypeOK
<1>1. WaitersListed'
  <2>1. ASSUME NEW r \in Runs, EnterOrWait(r) \/ GiveUp(r) \/ Receive(r) PROVE WaitersListed'
    BY <2>1, ListedJoins, ListedLeaves, ListedHandOff DEF IdleInv
  <2>2. ASSUME NEW r \in Runs, RunStep(r), ~EnterOrWait(r), ~GiveUp(r), ~Receive(r)
        PROVE  WaitersListed'
    <3>1. UNCHANGED <<waitq, sess>>
      BY <2>2 DEF RunStep, TryEnter, Granted, Denied, LoadMark, CountUp, Turn, Reply,
                  LastSteer, EndLoop, ClearSteer, CountDown, DeleteMark, Release, slotVars
    <3>2. \A q \in Runs : pc'[q] = "queued" => pc[q] = "queued"
      BY <1>0, <2>2 DEF RunStep, TryEnter, Granted, Denied, LoadMark, CountUp, Turn, Reply,
                  LastSteer, EndLoop, ClearSteer, CountDown, DeleteMark, Release, Go
    <3> QED  BY <3>1, <3>2, ListedKept DEF IdleInv
  <2>3. ASSUME NEW r \in Runs, Join(r) \/ ListTemps(r) \/ TryClaim(r) \/ NewTemp(r)
                               \/ FailEarly(r) \/ Cancel(r)
        PROVE  WaitersListed'
    <3>1. UNCHANGED waitq
      BY <2>3 DEF Join, ListTemps, TryClaim, NewTemp, FailEarly, Cancel, slotVars
    <3>2. \A q \in Runs : pc'[q] = "queued" => pc[q] = "queued" /\ sess'[q] = sess[q]
      BY <1>0, <2>3 DEF Join, ListTemps, TryClaim, NewTemp, FailEarly, Cancel, slotVars, Go
    <3> QED  BY <3>1, <3>2, ListedKept DEF IdleInv
  <2>4. ASSUME NEW t \in Texts, TextStep(t) PROVE WaitersListed'
    BY <2>4, ListedKept DEF TextStep, LoadRunning, ReadCount, LoadSteer, AppendSteer,
                            slotVars, IdleInv
  <2>5. CASE UNCHANGED vars
    BY <2>5, ListedKept DEF vars, slotVars, IdleInv
  <2> QED  BY <2>1, <2>2, <2>3, <2>4, <2>5 DEF Next
<1>2. Unplaced'
  <2>1. ASSUME NEW r \in Runs, RunStep(r) PROVE Unplaced'
    <3>1. sess' = sess
      BY <2>1 DEF RunStep, TryEnter, EnterOrWait, GiveUp, Granted, Denied, LoadMark,
                  CountUp, Turn, Reply, LastSteer, EndLoop, ClearSteer, CountDown,
                  DeleteMark, Release, Receive, slotVars
    <3>2. \A q \in Runs : pc'[q] \in {"idle", "scan"} => pc[q] \in {"idle", "scan"}
      <4>1. CASE Receive(r)  BY <1>0, <4>1 DEF Receive
      <4>2. CASE ~Receive(r)
        BY <1>0, <2>1, <4>2 DEF RunStep, TryEnter, EnterOrWait, GiveUp, Granted, Denied,
                  LoadMark, CountUp, Turn, Reply, LastSteer, EndLoop, ClearSteer,
                  CountDown, DeleteMark, Release, Go
      <4> QED  BY <4>1, <4>2
    <3> QED  BY <3>1, <3>2 DEF IdleInv, Unplaced
  <2>2. ASSUME NEW r \in Runs, Join(r) \/ ListTemps(r) \/ TryClaim(r) \/ NewTemp(r)
                               \/ FailEarly(r) \/ Cancel(r)
        PROVE  Unplaced'
    BY <1>0, <2>2 DEF Join, ListTemps, TryClaim, NewTemp, FailEarly, Cancel, slotVars, Go,
                      IdleInv, Unplaced
  <2>3. ASSUME NEW t \in Texts, TextStep(t) PROVE Unplaced'
    BY <2>3 DEF TextStep, LoadRunning, ReadCount, LoadSteer, AppendSteer, slotVars,
                IdleInv, Unplaced
  <2>4. CASE UNCHANGED vars  BY <2>4 DEF vars, slotVars, IdleInv, Unplaced
  <2> QED  BY <2>1, <2>2, <2>3, <2>4 DEF Next
<1> QED  BY <1>1, <1>2 DEF IdleInv

\* A session that ClaimIdle grants has no run that holds or waits for a slot.
LEMMA ClaimableIsIdle ==
    ASSUME TypeInv, SlotInv, IdleInv, NEW s \in Sessions, slot[s] = 0
    PROVE  Holders(s) = {} /\ \A q \in Runs : sess[q] = s => pc[q] # "queued"
<1>1. Holders(s) = {}
  <2>1. IsFiniteSet(Holders(s))  BY HoldersFinite
  <2>2. Cardinality(Holders(s)) = 0  BY DEF SlotInv, SlotsAccounted
  <2> QED  BY <2>1, <2>2, FS_EmptySet
<1>2. waitq[s] = <<>>
  BY GateAssumption DEF SlotInv, WaitOnlyWhenFull
<1>3. ASSUME NEW q \in Runs, sess[q] = s, pc[q] = "queued" PROVE FALSE
  BY <1>2, <1>3 DEF IdleInv, WaitersListed, Listed
<1> QED  BY <1>1, <1>3

LEMMA FoundIdle ==
    ASSUME TypeInv, SlotInv, IdleInv, [Next]_vars, NEW r \in Subagents, NEW s \in Sessions,
           pc[r] = "scan", sess'[r] = s, s \in dirs
    PROVE  Holders(s) = {} /\ \A q \in Runs : sess[q] = s => pc[q] # "queued"
<1>1. r \in Runs /\ sess[r] = None /\ s # None
  BY GateAssumption DEF IdleInv, Unplaced
<1>2. sess \in [Runs -> Sessions \cup {None}]  BY DEF TypeInv, TypeOK
<1>3. sess' # sess  BY <1>1
<1>4. PICK q \in Runs : Join(q) \/ TryClaim(q) \/ NewTemp(q)
  BY <1>3 DEF Next, vars, slotVars, RunStep, TextStep, ListTemps, FailEarly, Cancel,
              TryEnter, EnterOrWait, GiveUp, Granted, Denied, LoadMark, CountUp, Turn, Reply,
              LastSteer, EndLoop, ClearSteer, CountDown, DeleteMark, Release, Receive,
              LoadRunning, ReadCount, LoadSteer, AppendSteer
<1>5. q = r  BY <1>1, <1>2, <1>4 DEF Join, TryClaim, NewTemp
<1>6. ~Join(r)  BY DEF Join
<1>7. ~NewTemp(r)  BY <1>1, <1>2 DEF NewTemp
<1>8. slot[s] = 0
  BY <1>1, <1>2, <1>4, <1>5, <1>6, <1>7 DEF TryClaim, Claimable
<1> QED  BY <1>8, ClaimableIsIdle

\* FindTemp gives a subagent only a session that no run holds or waits for a slot of
\* (concurrent.go:31): between the steps of the runs that leave a session there is no
\* moment at which ClaimIdle takes it for idle.
THEOREM FoundSessionIdle == Spec => FoundIsIdle
<1>1. Init => TypeInv /\ InQueue /\ SlotInv /\ IdleInv
  BY TypeInit, QueueInit, SlotInit, IdleInit
<1>2. TypeInv /\ InQueue /\ SlotInv /\ IdleInv /\ [Next]_vars
      => (TypeInv /\ InQueue /\ SlotInv /\ IdleInv)'
  BY TypeStep, QueueStep, SlotStep, IdleStep
<1>3. TypeInv /\ SlotInv /\ IdleInv /\ [Next]_vars
      => [\A r \in Subagents, s \in Sessions :
             pc[r] = "scan" /\ sess'[r] = s /\ s \in dirs
             => Holders(s) = {} /\ \A q \in Runs : sess[q] = s => pc[q] # "queued"]_vars
  BY FoundIdle
<1> QED  BY <1>1, <1>2, <1>3, PTL DEF Spec, FoundIsIdle

-----------------------------------------------------------------------------
(* A batch of tool calls.                                                   *)

\* A call is no allow list's entry for all tools of a server.
BatchConstants ==
    /\ Batches \subseteq Seq(Calls)
    /\ Shared \subseteq Calls /\ Server \subseteq Calls
    /\ EveryTool \notin Calls

SlotStates == {"cached", "marked", "failed", "ready", "skipped", "runs", "ends", "done"}
CallSlots == [call : Calls, state : SlotStates, handler : {"off", "on", "tells"}, silent : BOOLEAN]
Approvals == [at : Nat, verified : BOOLEAN, turn : BOOLEAN]

BatchShape ==
    /\ slots \in Seq(CallSlots) /\ batch \in Seq(Calls)
    /\ ran \subseteq DOMAIN slots /\ said \subseteq Approvals
    /\ from \in Nat /\ from <= Len(slots)
    /\ at \in {"ask", "read", "write", "settle"} => batch # << >>

\* What is on a list some user has asked for, one by one or all of a server's.
Known(S) == \A e \in S : (e # EveryTool => e \in wanted) /\ (e = EveryTool => Server \subseteq wanted)

ListsInv ==
    /\ allow = [l \in Lists |-> allow[l]] /\ held = [w \in Writers |-> held[w]]
    /\ \A l \in Lists : Known(allow[l])
    /\ \A w \in Writers : held[w] = Idle \/ held[w] = Later \/ Known(held[w][1])
    /\ at = "write" => Known(held["run"][1])

\* The user's reply, until it is settled, is an approval of the call in hand.
InHand(r) == \E s \in said :
    /\ s.at = Len(slots) + 1
    /\ r.verified => s.verified
    /\ r.kind = "turn" => s.turn

LeaveInv ==
    /\ RunsWithLeave
    /\ \A k \in DOMAIN slots : slots[k].state = "ready" => HadLeave(k)
    /\ turn => \E s \in said : s.turn /\ s.at <= Len(slots)
    /\ at \in {"read", "write", "settle"} /\ reply[1].kind # "no" => InHand(reply[1])

\* A handler tells only while its call is not over, and calls are not over only while the
\* batch runs.
SilentInv ==
    /\ \A k \in DOMAIN slots :
          /\ slots[k].state \in {"runs", "ends"} => at = "run" /\ k > from
          /\ slots[k].handler # "off" => slots[k].state \in {"runs", "ends", "done"}
          /\ slots[k].state = "done" => slots[k].handler # "tells" /\ slots[k].silent
    /\ ~open => at = "over"

BatchInv == BatchShape /\ ListsInv /\ LeaveInv /\ SilentInv

\* A step of a call of the batch moves its slot and nothing else: it goes on when the call
\* had leave to, and it is over before it is done.
SlotMove(k, v) ==
    /\ slots' = [slots EXCEPT ![k] = v]
    /\ v.call = slots[k].call /\ v.state # "ready"
    /\ ran' = ran \/ (ran' = ran \cup {k} /\ slots[k].state = "ready")
    /\ v.state \in {"runs", "ends"} =>
          slots[k].state \in {"runs", "ends"} \/ (at = "run" /\ k > from)
    /\ v.handler # "off" => v.state \in {"runs", "ends", "done"}
    /\ v.state = "done" => v.handler # "tells" /\ v.silent
SlotMoves(k) == (\E v \in CallSlots : SlotMove(k, v)) /\ UNCHANGED runsOnly

CallActs(k) ==
    StartTool(k) \/ Tell(k) \/ Told(k) \/ HandlerEnds(k) \/ Abandon(k) \/ ToolEnds(k)

LEMMA SlotActions ==
    ASSUME BatchShape, SilentInv, NEW k \in DOMAIN slots, CallActs(k)
    PROVE  SlotMoves(k)
<1> DEFINE b == slots[k]
<1>1. b \in CallSlots  BY DEF BatchShape
<1>2. /\ b.handler # "off" => b.state \in {"runs", "ends", "done"}
      /\ b.state = "done" => b.handler # "tells" /\ b.silent
  BY DEF SilentInv
<1>3. UNCHANGED runsOnly
  BY DEF CallActs, StartTool, Tell, Told, HandlerEnds, Abandon, ToolEnds
<1>4. CASE StartTool(k)
  <2> DEFINE v == [b EXCEPT !.state = "runs", !.handler = "on"]
  <2>1. v \in CallSlots /\ v.call = b.call /\ v.state = "runs" /\ v.handler = "on"
    BY <1>1 DEF CallSlots, SlotStates
  <2>2. slots' = [slots EXCEPT ![k] = v] /\ ran' = ran \cup {k} /\ at = "run"
        /\ b.state = "ready" /\ k > from
    <3>1. k \in In("ready") /\ ran' = ran \cup {k} /\ at = "run"  BY <1>4, Zenon DEF StartTool
    <3>2. slots' = [slots EXCEPT ![k].state = "runs", ![k].handler = "on"]
      BY <1>4, Zenon DEF StartTool
    <3>3. slots' = [slots EXCEPT ![k] = v]  BY <3>2
    <3>4. slots \in Seq(CallSlots) /\ from \in Nat  BY DEF BatchShape
    <3>5. b.state = "ready" /\ k > from  BY <3>1, <3>4 DEF In, Now
    <3> QED  BY <3>1, <3>3, <3>5
  <2> HIDE DEF v
  <2>3. SlotMove(k, v)  BY <2>1, <2>2 DEF SlotMove
  <2> QED  BY <1>3, <2>1, <2>3 DEF SlotMoves
<1>5. CASE Tell(k)
  <2> DEFINE v == [b EXCEPT !.handler = "tells"]
  <2>1. v \in CallSlots /\ v.call = b.call /\ v.state = b.state /\ v.handler = "tells" /\ v.silent = b.silent
    BY <1>1 DEF CallSlots
  <2>2. slots' = [slots EXCEPT ![k] = v] /\ ran' = ran /\ b.handler = "on" /\ ~b.silent
    BY <1>5 DEF Tell, Set
  <2> HIDE DEF v
  <2>3. SlotMove(k, v)  BY <1>2, <2>1, <2>2 DEF SlotMove
  <2> QED  BY <1>3, <2>1, <2>3 DEF SlotMoves
<1>6. CASE Told(k)
  <2> DEFINE v == [b EXCEPT !.handler = "on"]
  <2>1. v \in CallSlots /\ v.call = b.call /\ v.state = b.state /\ v.handler = "on" /\ v.silent = b.silent
    BY <1>1 DEF CallSlots
  <2>2. slots' = [slots EXCEPT ![k] = v] /\ ran' = ran /\ b.handler = "tells"
    BY <1>6 DEF Told, Set
  <2> HIDE DEF v
  <2>3. SlotMove(k, v)  BY <1>2, <2>1, <2>2 DEF SlotMove
  <2> QED  BY <1>3, <2>1, <2>3 DEF SlotMoves
<1>7. CASE HandlerEnds(k)
  <2> DEFINE v == [b EXCEPT !.state = "ends", !.handler = "off"]
  <2>1. v \in CallSlots /\ v.call = b.call /\ v.state = "ends" /\ v.handler = "off"
    BY <1>1 DEF CallSlots, SlotStates
  <2>2. slots' = [slots EXCEPT ![k] = v] /\ ran' = ran /\ b.state = "runs"
    BY <1>7 DEF HandlerEnds
  <2> HIDE DEF v
  <2>3. SlotMove(k, v)  BY <2>1, <2>2 DEF SlotMove
  <2> QED  BY <1>3, <2>1, <2>3 DEF SlotMoves
<1>8. CASE Abandon(k)
  <2> DEFINE v == [b EXCEPT !.state = "ends"]
  <2>1. v \in CallSlots /\ v.call = b.call /\ v.state = "ends"
    BY <1>1 DEF CallSlots, SlotStates
  <2>2. slots' = [slots EXCEPT ![k] = v] /\ ran' = ran /\ b.state = "runs"
    BY <1>8 DEF Abandon, Set
  <2> HIDE DEF v
  <2>3. SlotMove(k, v)  BY <2>1, <2>2 DEF SlotMove
  <2> QED  BY <1>3, <2>1, <2>3 DEF SlotMoves
<1>9. CASE ToolEnds(k)
  <2> DEFINE v == [b EXCEPT !.state = "done", !.silent = TRUE]
  <2>1. v \in CallSlots /\ v.call = b.call /\ v.state = "done" /\ v.silent /\ v.handler = b.handler
    BY <1>1 DEF CallSlots, SlotStates
  <2>2. slots' = [slots EXCEPT ![k] = v] /\ ran' = ran /\ b.handler # "tells"
    BY <1>9 DEF ToolEnds
  <2> HIDE DEF v
  <2>3. SlotMove(k, v)  BY <2>1, <2>2 DEF SlotMove
  <2> QED  BY <1>3, <2>1, <2>3 DEF SlotMoves
<1> QED  BY <1>4, <1>5, <1>6, <1>7, <1>8, <1>9 DEF CallActs

\* What a slot's step leaves of the batch.
LEMMA SlotsAfter ==
    ASSUME BatchShape, NEW k \in DOMAIN slots, NEW v \in CallSlots, slots' = [slots EXCEPT ![k] = v]
    PROVE  /\ slots' \in Seq(CallSlots) /\ DOMAIN slots' = DOMAIN slots /\ Len(slots') = Len(slots)
           /\ slots'[k] = v
           /\ \A j \in DOMAIN slots : j # k => slots'[j] = slots[j]
BY DEF BatchShape

\* A call that has been looked at gets the next slot.
Judged(c, state) == Judge(c, state) /\ batch # << >> /\ c = batch[1] /\ state \in SlotStates

LEMMA JudgeAfter ==
    ASSUME BatchShape, NEW c, NEW state, Judged(c, state)
    PROVE  LET n == Len(slots) IN
           /\ c \in Calls /\ batch' \in Seq(Calls)
           /\ slots' \in Seq(CallSlots) /\ Len(slots') = n + 1
           /\ DOMAIN slots = 1..n /\ DOMAIN slots' = 1..(n + 1) /\ n \in Nat
           /\ \A j \in 1..n : slots'[j] = slots[j]
           /\ slots'[n + 1].call = c /\ slots'[n + 1].state = state
           /\ slots'[n + 1].handler = "off"
<1> DEFINE new == Slot(c, state)
<1>1. c \in Calls /\ batch' \in Seq(Calls)  BY DEF Judged, Judge, BatchShape
<1>2. new \in CallSlots /\ new.call = c /\ new.state = state /\ new.handler = "off"
  BY <1>1 DEF Slot, CallSlots, Judged
<1>3. slots' = Append(slots, new)  BY DEF Judged, Judge
<1> HIDE DEF new
<1>4. slots \in Seq(CallSlots)  BY DEF BatchShape
<1> QED  BY <1>1, <1>2, <1>3, <1>4

Looks == LookAnswered \/ LookFree \/ LookRefused \/ Settle

\* Looking at a call gives it a slot; only a call that had leave may run.
LEMMA LookJudges ==
    ASSUME BatchShape, Looks
    PROVE  /\ at \in {"look", "settle"} /\ at' = "look"
           /\ batch # << >>
           /\ \E state \in SlotStates \ {"runs", "ends", "done"} : Judged(batch[1], state)
           /\ UNCHANGED << mode, from, open, batches, ran, said, wanted, allow, held >>
<1> USE DEF lookVars, looksOnly
<1>1. CASE LookAnswered
  <2>1. PICK state \in {"cached", "marked", "failed"} : Judge(batch[1], state)
    BY <1>1, Zenon DEF LookAnswered
  <2>2. Judged(batch[1], state)  BY <1>1, <2>1 DEF LookAnswered, Judged, SlotStates
  <2> QED  BY <1>1, <2>2 DEF LookAnswered, SlotStates
<1>2. CASE LookFree
  <2>1. PICK state \in {"skipped", "ready"} : Judge(batch[1], state)
    BY <1>2, Zenon DEF LookFree
  <2>2. Judged(batch[1], state)  BY <1>2, <2>1 DEF LookFree, Judged, SlotStates
  <2> QED  BY <1>2, <2>2 DEF LookFree, SlotStates
<1>3. CASE LookRefused
  <2>2. Judged(batch[1], "skipped")  BY <1>3 DEF LookRefused, Judged, SlotStates
  <2> QED  BY <1>3, <2>2 DEF LookRefused, SlotStates
<1>4. CASE Settle
  <2>1. PICK state \in {"skipped", "ready"} : Judge(batch[1], state)
    BY <1>4, Zenon DEF Settle
  <2>3. batch # << >>
    BY <1>4 DEF Settle, BatchShape
  <2>2. Judged(batch[1], state)  BY <1>4, <2>1, <2>3 DEF Settle, Judged, SlotStates
  <2> QED  BY <1>4, <2>2, <2>3 DEF Settle, SlotStates
<1> QED  BY <1>1, <1>2, <1>3, <1>4 DEF Looks

\* The other steps add no slot.
Frames == << slots, batch, ran, from >>

LEMMA BatchShapeNext ==
    ASSUME BatchConstants, BatchShape, SilentInv, [BatchNext]_batchVars
    PROVE  BatchShape'
<1> USE DEF lookVars, looksOnly, runsOnly
<1>1. ASSUME NEW b \in Batches, Answer(b) PROVE BatchShape'
  <2>1. b \in Seq(Calls) /\ slots \in Seq(CallSlots)  BY DEF BatchConstants, BatchShape
  <2> QED  BY <1>1, <2>1 DEF Answer, BatchShape
<1>2. CASE Looks
  <2>1. PICK state : Judged(batch[1], state)  BY <1>2, LookJudges
  <2>2. /\ batch' \in Seq(Calls)
        /\ slots' \in Seq(CallSlots) /\ Len(slots') = Len(slots) + 1
        /\ DOMAIN slots \subseteq DOMAIN slots' /\ Len(slots) \in Nat
    BY <2>1, JudgeAfter
  <2>3. at' = "look" /\ UNCHANGED << ran, said, from >>  BY <1>2, LookJudges
  <2> QED  BY <2>2, <2>3 DEF BatchShape
<1>3. CASE LookAsks  BY <1>3 DEF LookAsks, BatchShape
<1>4. ASSUME NEW kind \in Replies, NEW verified \in BOOLEAN, UserReplies(kind, verified)
      PROVE  BatchShape'
  <2>1. UNCHANGED Frames /\ at = "ask"  BY <1>4 DEF UserReplies, Frames
  <2>2. said' \subseteq Approvals
    <3> DEFINE new == [at |-> Len(slots) + 1, verified |-> verified, turn |-> kind = "turn"]
    <3>1. new \in Approvals  BY DEF Approvals, BatchShape
    <3>2. said' = said \/ said' = said \cup {new}  BY <1>4, Zenon DEF UserReplies
    <3> HIDE DEF new
    <3> QED  BY <3>1, <3>2 DEF BatchShape
  <2> QED  BY <2>1, <2>2 DEF BatchShape, Frames
<1>5. CASE Remember  BY <1>5 DEF Remember, BatchShape
<1>6. CASE Unanswered \/ AllLooked \/ Gather \/ Close
  <2>1. UNCHANGED Frames /\ said' = said
    BY <1>6 DEF Unanswered, AllLooked, Gather, Close, Frames
  <2>2. at' \in {"over", "run", "model"}
    BY <1>6 DEF Unanswered, AllLooked, Gather, Close
  <2> QED  BY <2>1, <2>2 DEF BatchShape, Frames
<1>7. ASSUME NEW k \in DOMAIN slots, CallActs(k) PROVE BatchShape'
  <2>1. SlotMoves(k)  BY <1>7, SlotActions
  <2>2. PICK v \in CallSlots : SlotMove(k, v)  BY <2>1 DEF SlotMoves
  <2>3. slots' \in Seq(CallSlots) /\ DOMAIN slots' = DOMAIN slots /\ Len(slots') = Len(slots)
    BY <2>2, SlotsAfter DEF SlotMove
  <2>4. ran' \subseteq DOMAIN slots  BY <2>2 DEF SlotMove, BatchShape
  <2>5. UNCHANGED << batch, said, from, at >>  BY <2>1 DEF SlotMoves
  <2> QED  BY <2>3, <2>4, <2>5 DEF BatchShape
<1>8. ASSUME NEW w \in Writers, OtherReads(w) PROVE BatchShape'
  BY <1>8 DEF OtherReads, BatchShape
<1>9. ASSUME NEW c, OtherWrites(c) PROVE BatchShape'
  BY <1>9 DEF OtherWrites, BatchShape
<1>10. ASSUME NEW S, SetAllowlist(S) PROVE BatchShape'
  BY <1>10 DEF SetAllowlist, BatchShape
<1>11. CASE UNCHANGED batchVars  BY <1>11 DEF batchVars, BatchShape
<1> QED  BY <1>1, <1>2, <1>3, <1>4, <1>5, <1>6, <1>7, <1>8, <1>9, <1>10, <1>11
         DEF BatchNext, Looks, CallActs

\* The lists' entries are known, and stay so, since only users add to them.
LEMMA KnownMore ==
    ASSUME NEW S, Known(S), wanted \subseteq wanted' PROVE Known(S)'
BY DEF Known

LEMMA ListsKeep ==
    ASSUME ListsInv, UNCHANGED << allow, held >>, wanted \subseteq wanted',
           at' = "write" => at = "write"
    PROVE  ListsInv'
BY DEF ListsInv, Known

\* What is written back was asked for by the time it is there.
Asked(S) == \A e \in S :
    (e # EveryTool => e \in wanted') /\ (e = EveryTool => Server \subseteq wanted')
WritesAsked(w) == \E wrote : WriteList(w, wrote) /\ Asked(wrote)

LEMMA ListsWritten ==
    ASSUME ListsInv, NEW w \in Writers, WritesAsked(w), wanted \subseteq wanted',
           at' = "write" => at = "write" /\ w # "run"
    PROVE  ListsInv'
<1>1. ListOf[w] \in Lists  BY DEF ListOf, Lists
<1>2. PICK wrote : WriteList(w, wrote) /\ Asked(wrote)  BY DEF WritesAsked
<1>3. allow' = [allow EXCEPT ![ListOf[w]] = wrote] /\ held' = [held EXCEPT ![w] = Idle]
  BY <1>2 DEF WriteList
<1>4. allow = [l \in Lists |-> allow[l]] /\ held = [x \in Writers |-> held[x]]
  BY DEF ListsInv
<1>5. allow' = [l \in Lists |-> allow'[l]] /\ held' = [x \in Writers |-> held'[x]]
  BY <1>3, <1>4, Zenon
<1>6. \A l \in Lists : allow'[l] = allow[l] \/ allow'[l] = wrote
  BY <1>1, <1>3, <1>4
<1>7. \A x \in Writers : held'[x] = held[x] \/ held'[x] = Idle
  BY <1>3, <1>4
<1>8. \A l \in Lists : Known(allow[l])'
  BY <1>2, <1>6 DEF ListsInv, Known, Asked
<1>9. \A x \in Writers : held'[x] = Idle \/ held'[x] = Later \/ Known(held[x][1])'
  BY <1>7 DEF ListsInv, Known
<1>10. at' = "write" => Known(held["run"][1])'
  <2>1. "run" \in Writers /\ (w # "run" => held'["run"] = held["run"])  BY <1>3, <1>4 DEF Writers
  <2> QED  BY <2>1 DEF ListsInv, Known
<1> QED  BY <1>5, <1>8, <1>9, <1>10 DEF ListsInv

LEMMA ListsRead ==
    ASSUME ListsInv, NEW w \in Writers, ReadList(w), UNCHANGED << allow, wanted >>,
           at' = "write" => at = "write" \/ w = "run"
    PROVE  ListsInv'
<1>1. ListOf[w] \in Lists  BY DEF ListOf, Lists
<1>2. held' = [held EXCEPT ![w] = << allow[ListOf[w]] >>]  BY DEF ReadList
<1>3. held = [x \in Writers |-> held[x]]  BY DEF ListsInv
<1>4. held' = [x \in Writers |-> held'[x]]  BY <1>2, <1>3, Zenon
<1>5. held'[w][1] = allow[ListOf[w]] /\ Known(allow[ListOf[w]])
  BY <1>1, <1>2, <1>3 DEF ListsInv
<1>6. \A x \in Writers : x # w => held'[x] = held[x]  BY <1>2, <1>3
<1>7. "run" \in Writers  BY DEF Writers
<1>8. \A l \in Lists : Known(allow[l])'  BY DEF ListsInv, Known
<1>9. \A x \in Writers : held'[x] = Idle \/ held'[x] = Later \/ Known(held[x][1])'
  BY <1>5, <1>6 DEF ListsInv, Known
<1>10. at' = "write" => Known(held["run"][1])'
  BY <1>5, <1>6, <1>7 DEF ListsInv, Known
<1> QED  BY <1>4, <1>8, <1>9, <1>10 DEF ListsInv

LEMMA ListsNext ==
    ASSUME BatchConstants, BatchShape, ListsInv, [BatchNext]_batchVars
    PROVE  ListsInv'
<1> USE DEF lookVars, looksOnly, runsOnly
<1>1. ASSUME NEW b \in Batches, Answer(b) PROVE ListsInv'
  BY <1>1, ListsKeep DEF Answer
<1>2. CASE Looks
  BY <1>2, ListsKeep, LookJudges
<1>3. CASE LookAsks \/ Unanswered \/ AllLooked \/ Gather \/ Close
  <2>1. UNCHANGED << allow, held, wanted >> /\ at' # "write"
    BY <1>3 DEF LookAsks, Unanswered, AllLooked, Gather, Close
  <2> QED  BY <2>1, ListsKeep
<1>4. ASSUME NEW kind \in Replies, NEW verified \in BOOLEAN, UserReplies(kind, verified)
      PROVE  ListsInv'
  <2>1. UNCHANGED << allow, held, wanted >> /\ at' # "write"  BY <1>4 DEF UserReplies
  <2> QED  BY <2>1, ListsKeep
<1>5. CASE Remember
  <2>1. "run" \in Writers  BY DEF Writers
  <2>2. CASE at = "read"
    BY <1>5, <2>1, <2>2, ListsRead DEF Remember
  <2>3. CASE at # "read"
    <3>1. /\ at = "write" /\ at' = "settle" /\ wanted' = wanted \cup {batch[1]}
          /\ WriteList("run", Toggle(held["run"][1], batch[1]))
      BY <1>5, <2>3 DEF Remember
    <3>2. Known(held["run"][1])  BY <3>1 DEF ListsInv
    <3>3. batch[1] \in Calls  BY <3>1 DEF BatchShape
    <3>4. Asked(Toggle(held["run"][1], batch[1]))
      BY <3>1, <3>2, <3>3 DEF Known, Asked, Toggle, BatchConstants
    <3>5. WritesAsked("run")  BY <3>1, <3>4 DEF WritesAsked
    <3> QED  BY <2>1, <3>1, <3>5, ListsWritten
  <2> QED  BY <2>2, <2>3
<1>7. ASSUME NEW k \in DOMAIN slots, CallActs(k) PROVE ListsInv'
  <2>1. UNCHANGED << allow, held, wanted, at >>
    BY <1>7 DEF CallActs, StartTool, Tell, Told, HandlerEnds, Abandon, ToolEnds
  <2> QED  BY <2>1, ListsKeep
<1>8. ASSUME NEW w \in Writers, OtherReads(w) PROVE ListsInv'
  BY <1>8, ListsRead DEF OtherReads
<1>9. ASSUME NEW c \in Shared, OtherWrites(c) PROVE ListsInv'
  <2>1. /\ "other" \in Writers /\ held["other"] # Idle /\ held["other"] # Later
        /\ at \notin {"run", "over"} /\ at' = at /\ wanted' = wanted \cup {c}
        /\ WriteList("other", Toggle(held["other"][1], c))
    BY <1>9 DEF OtherWrites, Writers
  <2>2. Known(held["other"][1])  BY <2>1 DEF ListsInv
  <2>3. Asked(Toggle(held["other"][1], c))
    BY <2>1, <2>2 DEF Known, Asked, Toggle, BatchConstants
  <2>4. WritesAsked("other")  BY <2>1, <2>3 DEF WritesAsked
  <2> QED  BY <2>1, <2>4, ListsWritten
<1>10. ASSUME NEW S \in SUBSET Server, SetAllowlist(S) PROVE ListsInv'
  <2>1. /\ "page" \in Writers /\ held["page"] # Idle /\ held["page"] # Later
        /\ at \notin {"run", "over"} /\ at' = at /\ wanted' = wanted \cup S
        /\ WriteList("page", ToggleMCP(held["page"][1], S))
    BY <1>10 DEF SetAllowlist, Writers
  <2>2. Known(held["page"][1])  BY <2>1 DEF ListsInv
  <2>3. Asked(ToggleMCP(held["page"][1], S))
    BY <2>1, <2>2 DEF Known, Asked, ToggleMCP, SyncAllRow, BatchConstants
  <2>4. WritesAsked("page")  BY <2>1, <2>3 DEF WritesAsked
  <2> QED  BY <2>1, <2>4, ListsWritten
<1>11. CASE UNCHANGED batchVars  BY <1>11, ListsKeep DEF batchVars
<1> QED  BY <1>1, <1>2, <1>3, <1>4, <1>5, <1>7, <1>8, <1>9, <1>10, <1>11
         DEF BatchNext, Looks, CallActs

\* Leave that was given stays given: calls keep their slots, and approvals are kept.
Grows ==
    /\ mode' = mode /\ said \subseteq said' /\ wanted \subseteq wanted'
    /\ \A j \in DOMAIN slots : j \in DOMAIN slots' /\ slots'[j].call = slots[j].call

LEMMA VerifiedStays ==
    ASSUME Grows, NEW c, Verified(c) PROVE Verified(c)'
BY DEF Grows, Verified

LEMMA LeaveStays ==
    ASSUME Grows, NEW k \in DOMAIN slots, HadLeave(k) PROVE HadLeave(k)'
<1> DEFINE c == slots[k].call
<1>1. slots'[k].call = c /\ mode' = mode /\ said \subseteq said' /\ wanted \subseteq wanted'
  BY DEF Grows
<1>2. c \in Unsandboxed => \E s \in said' : s.at = k /\ s.verified
  BY <1>1 DEF HadLeave
<1>3. Approved(k) => Approved(k)'  BY <1>1 DEF Approved
<1>4. Verified(c) => \E s \in said' : s.verified /\ s.at \in DOMAIN slots' /\ slots'[s.at].call = c
  BY DEF Grows, Verified
<1>5. (\E s \in said : s.turn /\ s.at < k) => \E s \in said' : s.turn /\ s.at < k
  BY <1>1
<1> QED  BY <1>1, <1>2, <1>3, <1>4, <1>5 DEF HadLeave, Approved, Verified

LEMMA LeaveKeep ==
    ASSUME LeaveInv, BatchShape, UNCHANGED << slots, ran, granted, turn, mode >>,
           said \subseteq said', wanted \subseteq wanted',
           at' \in {"read", "write", "settle"} => at \in {"read", "write", "settle"} /\ reply' = reply
    PROVE  LeaveInv'
<1>1. Grows  BY DEF Grows
<1>2. \A k \in DOMAIN slots : HadLeave(k) => HadLeave(k)'  BY <1>1, LeaveStays
<1>3. \A c : Verified(c) => Verified(c)'  BY <1>1, VerifiedStays
<1>4. RunsWithLeave'  BY <1>2, <1>3 DEF LeaveInv, RunsWithLeave, BatchShape
<1>5. \A k \in DOMAIN slots' : slots'[k].state = "ready" => HadLeave(k)'  BY <1>2 DEF LeaveInv
<1>6. turn' => \E s \in said' : s.turn /\ s.at <= Len(slots')  BY DEF LeaveInv
<1>7. at' \in {"read", "write", "settle"} /\ reply'[1].kind # "no" => InHand(reply[1])'
  <2>1. InHand(reply[1]) /\ reply' = reply => InHand(reply[1])'  BY DEF InHand
  <2> QED  BY <2>1 DEF LeaveInv
<1> QED  BY <1>4, <1>5, <1>6, <1>7 DEF LeaveInv

\* A call that need not ask runs with leave.
LEMMA FreeHasLeave ==
    ASSUME BatchConstants, BatchShape, ListsInv, LeaveInv, LookFree,
           NEW k, k = Len(slots) + 1, NEW c \in Calls, c = batch[1],
           ~(NeedsLeave(c) /\ c \in Unsandboxed), Judged(c, "ready")
    PROVE  HadLeave(k)'
<1> DEFINE n == Len(slots)
<1>1. slots'[k].call = c /\ n \in Nat  BY JudgeAfter
<1>2. mode' = mode /\ said' = said /\ wanted' = wanted /\ Grows
  <2>1. UNCHANGED << mode, said, wanted >>  BY DEF LookFree, looksOnly, lookVars
  <2>2. /\ DOMAIN slots = 1..n /\ DOMAIN slots' = 1..(n + 1)
        /\ \A j \in 1..n : slots'[j] = slots[j]
    BY JudgeAfter
  <2> QED  BY <2>1, <2>2, <1>1 DEF Grows
<1>3. c \notin Unsandboxed
  BY DEF NeedsLeave, Restricted, LookFree
<1>4. c \in granted => Verified(c)'
  BY <1>2, VerifiedStays DEF LeaveInv, RunsWithLeave
<1>5. Match(c) => c \in wanted
  BY DEF Match, Load, ListsInv, Known, Lists, BatchConstants
<1>6. turn => \E s \in said : s.turn /\ s.at < k
  BY <1>1 DEF LeaveInv, BatchShape, Approvals
<1>7. NeedsLeave(c) => mode.asks = "nobody"  BY DEF LookFree
<1>8. CASE mode.allowAll \/ mode.asks = "nobody"
  BY <1>1, <1>2, <1>3, <1>8 DEF HadLeave
<1>9. CASE ~(mode.allowAll \/ mode.asks = "nobody")
  <2>1. ~Restricted(c) /\ ~NeedsConfirmation(c)  BY <1>7, <1>9 DEF NeedsLeave
  <2>2. c \in Outside => Verified(c)'  BY <1>4, <2>1 DEF Restricted
  <2>3. c \notin Sensitive /\ (turn \/ (c \notin Destructive /\ (c \in ReadOnly \/ c \in wanted)))
    BY <1>5, <2>1 DEF NeedsConfirmation
  <2>4. CASE c \in Outside  BY <1>1, <1>3, <2>2, <2>4 DEF HadLeave
  <2>5. CASE c \notin Outside /\ turn
    <3>1. \E s \in said' : s.turn /\ s.at < k  BY <1>2, <1>6, <2>5
    <3> QED  BY <1>1, <1>3, <2>3, <2>5, <3>1 DEF HadLeave
  <2>6. CASE c \notin Outside /\ c \notin Destructive /\ c \in ReadOnly
    BY <1>1, <1>3, <2>3, <2>6 DEF HadLeave, Harmless
  <2>7. CASE c \notin Outside /\ c \notin Destructive /\ c \in wanted
    BY <1>1, <1>2, <1>3, <2>3, <2>7 DEF HadLeave
  <2> QED  BY <2>3, <2>4, <2>5, <2>6, <2>7
<1> QED  BY <1>8, <1>9

\* So does a call its user has just approved.
LEMMA ApprovedHasLeave ==
    ASSUME BatchShape, LeaveInv, Settle, reply[1].kind # "no",
           NEW k, k = Len(slots) + 1, NEW c \in Calls, c = batch[1],
           Restricted(c) => reply[1].verified, Judged(c, "ready")
    PROVE  HadLeave(k)' /\ \E s \in said' : s.at = k /\ (Restricted(c) => s.verified)
<1>1. slots'[k].call = c /\ said' = said
  BY JudgeAfter DEF Settle
<1>2. InHand(reply[1])  BY DEF LeaveInv, Settle
<1>3. PICK s \in said : s.at = k /\ (reply[1].verified => s.verified)  BY <1>2 DEF InHand
<1>4. c \in Unsandboxed => s.verified  BY <1>3 DEF Restricted
<1>5. HadLeave(k)'  BY <1>1, <1>3, <1>4 DEF HadLeave, Approved
<1> QED  BY <1>1, <1>3, <1>5

GrantsVerified == \A c \in granted : Verified(c)
TurnApproved == turn => \E s \in said : s.turn /\ s.at <= Len(slots)

LEMMA LeaveLooked ==
    ASSUME LeaveInv, BatchShape, NEW k, k = Len(slots) + 1, NEW c \in Calls, NEW state,
           Judged(c, state), state = "ready" => HadLeave(k)', at' = "look",
           UNCHANGED << mode, said, wanted, ran >>, GrantsVerified', TurnApproved'
    PROVE  LeaveInv'
<1> DEFINE n == Len(slots)
<1>1. /\ n \in Nat /\ k = n + 1 /\ DOMAIN slots = 1..n /\ DOMAIN slots' = 1..k
      /\ \A j \in 1..n : slots'[j] = slots[j]
      /\ slots'[k].state = state
  BY JudgeAfter
<1>2. Grows  BY <1>1 DEF Grows
<1>3. \A j \in DOMAIN slots : HadLeave(j) => HadLeave(j)'  BY <1>2, LeaveStays
<1>4. \A j \in DOMAIN slots' : slots'[j].state = "ready" => HadLeave(j)'
  <2>1. \A j \in DOMAIN slots' : j \in DOMAIN slots \/ j = k  BY <1>1
  <2> QED  BY <1>1, <1>3, <2>1 DEF LeaveInv
<1>5. RunsWithLeave'  BY <1>3 DEF LeaveInv, RunsWithLeave, BatchShape, GrantsVerified
<1> QED  BY <1>4, <1>5 DEF LeaveInv, TurnApproved

LEMMA LooksGrow ==
    ASSUME BatchShape, NEW c, NEW state, Judged(c, state), UNCHANGED << mode, said, wanted >>
    PROVE  Grows /\ Len(slots') = Len(slots) + 1 /\ Len(slots) \in Nat
<1>1. /\ DOMAIN slots = 1..Len(slots) /\ DOMAIN slots' = 1..(Len(slots) + 1)
      /\ \A j \in 1..Len(slots) : slots'[j] = slots[j]
      /\ Len(slots') = Len(slots) + 1 /\ Len(slots) \in Nat
  BY JudgeAfter
<1> QED  BY <1>1 DEF Grows

LEMMA TurnLater ==
    ASSUME BatchShape, TurnApproved, UNCHANGED << turn, said >>, Len(slots') = Len(slots) + 1
    PROVE  TurnApproved'
<1>1. \A s \in said : s.at <= Len(slots) => s.at <= Len(slots')  BY DEF BatchShape, Approvals
<1> QED  BY <1>1 DEF TurnApproved

LEMMA LeaveLooks ==
    ASSUME BatchConstants, BatchShape, ListsInv, LeaveInv, Looks
    PROVE  LeaveInv'
<1> USE DEF lookVars, looksOnly
<1>1. PICK k : k = Len(slots) + 1  OBVIOUS
<1>2. PICK c : c = batch[1]  OBVIOUS
<1>3. /\ at' = "look" /\ batch # << >> /\ UNCHANGED << mode, said, wanted, ran >>
      /\ \E state \in SlotStates \ {"runs", "ends", "done"} : Judged(batch[1], state)
  BY LookJudges
<1>4. c \in Calls  BY <1>2, <1>3, JudgeAfter
<1>5. Grows /\ Len(slots') = Len(slots) + 1  BY <1>3, LooksGrow
<1>6. GrantsVerified /\ TurnApproved  BY DEF LeaveInv, RunsWithLeave, GrantsVerified, TurnApproved
<1>7. CASE LookAnswered \/ LookRefused \/ LookFree
  <2>1. UNCHANGED << turn, said, granted >>  BY <1>7 DEF LookAnswered, LookRefused, LookFree
  <2>2. TurnApproved'  BY <1>5, <1>6, <2>1, TurnLater
  <2>3. GrantsVerified'  BY <1>5, <1>6, <2>1, VerifiedStays DEF GrantsVerified
  <2>4. CASE LookAnswered
    <3>1. PICK state \in {"cached", "marked", "failed"} : Judge(batch[1], state)
      BY <2>4, Zenon DEF LookAnswered
    <3>2. Judged(c, state)  BY <1>2, <1>3, <3>1 DEF Judged, SlotStates
    <3> QED  BY <1>1, <1>3, <1>4, <2>2, <2>3, <3>1, <3>2, LeaveLooked
  <2>5. CASE LookRefused
    <3>2. Judged(c, "skipped")  BY <1>2, <2>5 DEF LookRefused, Judged, SlotStates
    <3> QED  BY <1>1, <1>3, <1>4, <2>2, <2>3, <3>2, LeaveLooked
  <2>6. CASE LookFree
    <3>1. CASE NeedsLeave(c) /\ c \in Unsandboxed
      <4>2. Judged(c, "skipped")
        BY <1>2, <2>6, <3>1 DEF LookFree, Judged, SlotStates
      <4> QED  BY <1>1, <1>3, <1>4, <2>2, <2>3, <4>2, LeaveLooked
    <3>2. CASE ~(NeedsLeave(c) /\ c \in Unsandboxed)
      <4>1. Judged(c, "ready")
        BY <1>2, <2>6, <3>2 DEF LookFree, Judged, SlotStates
      <4>2. HadLeave(k)'  BY <1>1, <1>2, <1>4, <2>6, <3>2, <4>1, FreeHasLeave
      <4> QED  BY <1>1, <1>3, <1>4, <2>2, <2>3, <4>1, <4>2, LeaveLooked
    <3> QED  BY <3>1, <3>2
  <2> QED  BY <1>7, <2>4, <2>5, <2>6
<1>8. CASE Settle
  <2> DEFINE approved == reply[1].kind # "no" /\ (Restricted(c) => reply[1].verified)
  <2>1. /\ Judge(c, IF approved THEN "ready" ELSE "skipped")
        /\ granted' = IF approved THEN granted \cup ({c} \cap Outside) ELSE granted
        /\ turn' = (turn \/ reply[1].kind = "turn")
    BY <1>2, <1>8, Zenon DEF Settle
  <2>2. reply[1].kind # "no" => InHand(reply[1])  BY <1>8 DEF LeaveInv, Settle
  <2>3. TurnApproved'
    <3>1. CASE reply[1].kind = "turn"
      <4>1. PICK s \in said : s.at = Len(slots) + 1 /\ s.turn  BY <2>2, <3>1 DEF InHand
      <4>2. s.at <= Len(slots')  BY <1>5, <4>1 DEF BatchShape
      <4> QED  BY <1>3, <4>1, <4>2 DEF TurnApproved
    <3>2. CASE reply[1].kind # "turn"
      <4>1. turn' = TRUE => turn  BY <2>1, <3>2
      <4>2. \A s \in said : s.at <= Len(slots) => s.at <= Len(slots')
        BY <1>5 DEF BatchShape, Approvals
      <4> QED  BY <1>3, <1>6, <2>1, <3>2, <4>2 DEF TurnApproved
    <3> QED  BY <3>1, <3>2
  <2>4. CASE approved
    <3>1. Judged(c, "ready")  BY <1>2, <1>3, <2>1, <2>4 DEF Judged, SlotStates
    <3>2. HadLeave(k)' /\ \E s \in said' : s.at = k /\ (Restricted(c) => s.verified)
      BY <1>1, <1>2, <1>4, <1>8, <2>4, <3>1, ApprovedHasLeave
    <3>3. GrantsVerified'
      <4>1. \A x \in granted : Verified(x)'  BY <1>5, <1>6, VerifiedStays DEF GrantsVerified
      <4>2. c \in Outside => Verified(c)'
        <5>1. CASE c \in granted  BY <4>1, <5>1
        <5>2. CASE c \in Outside /\ c \notin granted
          <6>1. PICK s \in said' : s.at = k /\ s.verified  BY <3>2, <5>2 DEF Restricted
          <6>2. k \in DOMAIN slots' /\ slots'[k].call = c  BY <1>1, <3>1, JudgeAfter
          <6> QED  BY <6>1, <6>2 DEF Verified
        <5> QED  BY <5>1, <5>2
      <4>3. granted' = granted \cup ({c} \cap Outside)  BY <2>1, <2>4
      <4> QED  BY <4>1, <4>2, <4>3 DEF GrantsVerified
    <3> QED  BY <1>1, <1>3, <1>4, <2>3, <3>1, <3>2, <3>3, LeaveLooked
  <2>5. CASE ~approved
    <3>1. Judged(c, "skipped")  BY <1>2, <1>3, <2>1, <2>5 DEF Judged, SlotStates
    <3>2. GrantsVerified'
      BY <1>5, <1>6, <2>1, <2>5, VerifiedStays DEF GrantsVerified
    <3> QED  BY <1>1, <1>3, <1>4, <2>3, <3>1, <3>2, LeaveLooked
  <2> QED  BY <2>4, <2>5
<1> QED  BY <1>7, <1>8 DEF Looks

LEMMA LeaveNext ==
    ASSUME BatchConstants, BatchShape, ListsInv, LeaveInv, SilentInv, [BatchNext]_batchVars
    PROVE  LeaveInv'
<1> USE DEF lookVars, looksOnly, runsOnly
<1>1. ASSUME NEW b \in Batches, Answer(b) PROVE LeaveInv'
  BY <1>1, LeaveKeep DEF Answer
<1>2. CASE Looks  BY <1>2, LeaveLooks
<1>3. CASE LookAsks \/ Unanswered \/ AllLooked \/ Gather \/ Close
  <2>1. /\ UNCHANGED << slots, ran, granted, turn, mode, said, wanted >>
        /\ at' \notin {"read", "write", "settle"}
    BY <1>3 DEF LookAsks, Unanswered, AllLooked, Gather, Close
  <2> QED  BY <2>1, LeaveKeep
<1>4. ASSUME NEW kind \in Replies, NEW verified \in BOOLEAN, UserReplies(kind, verified)
      PROVE  LeaveInv'
  <2>1. UNCHANGED << slots, ran, granted, turn, mode, wanted >>
    BY <1>4 DEF UserReplies
  <2> DEFINE new == [at |-> Len(slots) + 1, verified |-> verified, turn |-> kind = "turn"]
             r == [kind |-> kind, verified |-> verified]
  <2>2. said' = IF kind = "no" THEN said ELSE said \cup {new}  BY <1>4, Zenon DEF UserReplies
  <2>3. reply' = << r >>  BY <1>4, Zenon DEF UserReplies
  <2>4. Grows  BY <2>1, <2>2 DEF Grows
  <2>5. \A k \in DOMAIN slots : HadLeave(k) => HadLeave(k)'  BY <2>4, LeaveStays
  <2>6. \A c : Verified(c) => Verified(c)'  BY <2>4, VerifiedStays
  <2>7. RunsWithLeave'  BY <2>1, <2>5, <2>6 DEF LeaveInv, RunsWithLeave, BatchShape
  <2>8. \A k \in DOMAIN slots' : slots'[k].state = "ready" => HadLeave(k)'
    BY <2>1, <2>5 DEF LeaveInv
  <2>9. turn' => \E s \in said' : s.turn /\ s.at <= Len(slots')  BY <2>1, <2>2 DEF LeaveInv
  <2>10. reply'[1].kind # "no" => InHand(reply[1])'
    <3>1. reply'[1] = r /\ r.kind = kind /\ r.verified = verified  BY <2>3
    <3>2. new.at = Len(slots) + 1 /\ new.verified = verified /\ new.turn = (kind = "turn")
      OBVIOUS
    <3> HIDE DEF new, r
    <3>3. kind # "no" => new \in said'  BY <2>2
    <3>4. /\ r.verified => new.verified
          /\ r.kind = "turn" => new.turn
      BY <3>1, <3>2
    <3>5. kind # "no" => InHand(reply[1])'  BY <2>1, <3>1, <3>2, <3>3, <3>4 DEF InHand
    <3> QED  BY <3>1, <3>5
  <2> QED  BY <2>7, <2>8, <2>9, <2>10 DEF LeaveInv
<1>5. CASE Remember
  <2>1. /\ UNCHANGED << slots, ran, granted, turn, mode, said, reply >>
        /\ wanted \subseteq wanted' /\ at \in {"read", "write"}
    BY <1>5 DEF Remember
  <2> QED  BY <2>1, LeaveKeep
<1>6. ASSUME NEW k \in DOMAIN slots, CallActs(k) PROVE LeaveInv'
  <2>1. SlotMoves(k)  BY <1>6, SlotActions
  <2>2. PICK v \in CallSlots : SlotMove(k, v)  BY <2>1 DEF SlotMoves
  <2>3. /\ DOMAIN slots' = DOMAIN slots /\ Len(slots') = Len(slots) /\ slots'[k] = v
        /\ \A j \in DOMAIN slots : j # k => slots'[j] = slots[j]
    BY <2>2, SlotsAfter DEF SlotMove
  <2>4. UNCHANGED << mode, said, wanted, granted, turn, at, reply >>  BY <2>1 DEF SlotMoves
  <2>5. Grows  BY <2>2, <2>3, <2>4 DEF Grows, SlotMove
  <2>6. \A j \in DOMAIN slots : HadLeave(j) => HadLeave(j)'  BY <2>5, LeaveStays
  <2>7. \A c : Verified(c) => Verified(c)'  BY <2>5, VerifiedStays
  <2>8. \A j \in ran' : HadLeave(j)  BY <2>2 DEF SlotMove, LeaveInv, RunsWithLeave
  <2>9. RunsWithLeave'
    BY <1>6, <2>2, <2>4, <2>6, <2>7, <2>8 DEF LeaveInv, RunsWithLeave, BatchShape, SlotMove
  <2>10. \A j \in DOMAIN slots' : slots'[j].state = "ready" => HadLeave(j)'
    BY <2>2, <2>3, <2>6 DEF LeaveInv, SlotMove
  <2>11. InHand(reply[1]) => InHand(reply[1])'  BY <2>3, <2>4 DEF InHand
  <2> QED  BY <2>3, <2>4, <2>9, <2>10, <2>11 DEF LeaveInv
<1>7. ASSUME NEW w \in Writers, OtherReads(w) PROVE LeaveInv'
  BY <1>7, LeaveKeep DEF OtherReads
<1>8. ASSUME NEW c, OtherWrites(c) PROVE LeaveInv'
  BY <1>8, LeaveKeep DEF OtherWrites
<1>9. ASSUME NEW S, SetAllowlist(S) PROVE LeaveInv'
  BY <1>9, LeaveKeep DEF SetAllowlist
<1>10. CASE UNCHANGED batchVars  BY <1>10, LeaveKeep DEF batchVars
<1> QED  BY <1>1, <1>2, <1>3, <1>4, <1>5, <1>6, <1>7, <1>8, <1>9, <1>10
         DEF BatchNext, Looks, CallActs

LEMMA SilentKeep ==
    ASSUME SilentInv, UNCHANGED << slots, open >>, at' = at, from' = from PROVE SilentInv'
BY DEF SilentInv

LEMMA SilentNext ==
    ASSUME BatchShape, SilentInv, [BatchNext]_batchVars PROVE SilentInv'
<1> USE DEF lookVars, looksOnly, runsOnly
<1>1. ASSUME NEW b \in Batches, Answer(b) PROVE SilentInv'
  BY <1>1 DEF Answer, SilentInv
<1>2. CASE Looks
  <2>1. PICK state \in SlotStates \ {"runs", "ends", "done"} : Judged(batch[1], state)
    BY <1>2, LookJudges
  <2>2. /\ at \in {"look", "settle"} /\ at' = "look" /\ UNCHANGED << from, open >>
    BY <1>2, LookJudges
  <2>3. /\ DOMAIN slots = 1..Len(slots) /\ DOMAIN slots' = 1..(Len(slots) + 1)
        /\ Len(slots) \in Nat
        /\ \A j \in 1..Len(slots) : slots'[j] = slots[j]
        /\ slots'[Len(slots) + 1].state = state /\ slots'[Len(slots) + 1].handler = "off"
    BY <2>1, JudgeAfter
  <2>4. \A j \in DOMAIN slots' : j \in DOMAIN slots \/ j = Len(slots) + 1  BY <2>3
  <2> QED  BY <2>1, <2>2, <2>3, <2>4 DEF SilentInv
<1>3. CASE LookAsks \/ Unanswered \/ AllLooked \/ Gather \/ Close
  <2>1. UNCHANGED << slots, from >>  BY <1>3 DEF LookAsks, Unanswered, AllLooked, Gather, Close
  <2>2. \A k \in DOMAIN slots : slots[k].state \notin {"runs", "ends"}
    <3>1. CASE Gather
      <4>1. In("runs") = {} /\ In("ends") = {}  BY <3>1 DEF Gather
      <4>2. DOMAIN slots = 1..Len(slots) /\ Len(slots) \in Nat  BY DEF BatchShape
      <4> QED  BY <4>1, <4>2 DEF In, Now, SilentInv, BatchShape
    <3>2. CASE ~Gather
      <4>1. at # "run"  BY <1>3, <3>2 DEF LookAsks, Unanswered, AllLooked, Close
      <4> QED  BY <4>1 DEF SilentInv
    <3> QED  BY <3>1, <3>2
  <2>3. ~open' => at' = "over"
    BY <1>3 DEF LookAsks, Unanswered, AllLooked, Gather, Close, SilentInv
  <2> QED  BY <2>1, <2>2, <2>3 DEF SilentInv
<1>4. ASSUME NEW kind \in Replies, NEW verified \in BOOLEAN, UserReplies(kind, verified)
      PROVE  SilentInv'
  <2>1. UNCHANGED << slots, from, open >> /\ at = "ask"  BY <1>4 DEF UserReplies
  <2> QED  BY <2>1 DEF SilentInv
<1>5. CASE Remember
  <2>1. UNCHANGED << slots, from, open >> /\ at \in {"read", "write"}  BY <1>5 DEF Remember
  <2> QED  BY <2>1 DEF SilentInv
<1>6. ASSUME NEW k \in DOMAIN slots, CallActs(k) PROVE SilentInv'
  <2>1. SlotMoves(k)  BY <1>6, SlotActions
  <2>2. PICK v \in CallSlots : SlotMove(k, v)  BY <2>1 DEF SlotMoves
  <2>3. /\ DOMAIN slots' = DOMAIN slots /\ slots'[k] = v
        /\ \A j \in DOMAIN slots : j # k => slots'[j] = slots[j]
    BY <2>2, SlotsAfter DEF SlotMove
  <2>4. UNCHANGED << from, at, open >>  BY <2>1 DEF SlotMoves
  <2> QED  BY <2>2, <2>3, <2>4 DEF SilentInv, SlotMove
<1>7. ASSUME NEW w \in Writers, OtherReads(w) PROVE SilentInv'
  BY <1>7, SilentKeep DEF OtherReads
<1>8. ASSUME NEW c, OtherWrites(c) PROVE SilentInv'
  BY <1>8, SilentKeep DEF OtherWrites
<1>9. ASSUME NEW S, SetAllowlist(S) PROVE SilentInv'
  BY <1>9, SilentKeep DEF SetAllowlist
<1>10. CASE UNCHANGED batchVars  BY <1>10, SilentKeep DEF batchVars
<1> QED  BY <1>1, <1>2, <1>3, <1>4, <1>5, <1>6, <1>7, <1>8, <1>9, <1>10
         DEF BatchNext, Looks, CallActs

LEMMA BatchStart ==
    ASSUME NEW listed, NEW others, BatchInit(listed, others) PROVE BatchInv
<1>1. slots = << >> /\ batch = << >> /\ DOMAIN slots = {} /\ Len(slots) = 0
  BY DEF BatchInit
<1>2. BatchShape  BY <1>1 DEF BatchInit, BatchShape
<1>3. ListsInv  BY DEF BatchInit, ListsInv, Known, Lists
<1>4. LeaveInv  BY <1>1 DEF BatchInit, LeaveInv, RunsWithLeave
<1>5. SilentInv  BY <1>1 DEF BatchInit, SilentInv
<1> QED  BY <1>2, <1>3, <1>4, <1>5 DEF BatchInv

LEMMA BatchKeeps ==
    ASSUME BatchConstants, BatchInv, [BatchNext]_batchVars PROVE BatchInv'
BY BatchShapeNext, ListsNext, LeaveNext, SilentNext DEF BatchInv

\* Whatever was on the allow lists, whoever rewrites them meanwhile, and whatever the user
\* replies: a call out of the sandbox runs only with a password verified for it, and one
\* that changes something, reads what is sensitive or leaves the home directory only with
\* the leave RunsWithLeave names (toolCall.go).
THEOREM CallsHaveLeave ==
    ASSUME BatchConstants, NEW listed, NEW others
    PROVE  BatchSpec(listed, others) => []RunsWithLeave
<1>1. BatchInit(listed, others) => BatchInv  BY BatchStart
<1>2. BatchInv /\ [BatchNext]_batchVars => BatchInv'  BY BatchKeeps
<1>3. BatchInv => RunsWithLeave  BY DEF BatchInv, LeaveInv
<1> QED  BY <1>1, <1>2, <1>3, PTL DEF BatchSpec

\* A handler that outlives its call, or its run, sends nothing on the channel of events once
\* that is closed (toolCall.go).
THEOREM ClosedIsSilent ==
    ASSUME BatchConstants, NEW listed, NEW others
    PROVE  BatchSpec(listed, others) => []NothingAfterClose
<1>1. BatchInit(listed, others) => BatchInv  BY BatchStart
<1>2. BatchInv /\ [BatchNext]_batchVars => BatchInv'  BY BatchKeeps
<1>3. BatchInv => NothingAfterClose
  BY DEF BatchInv, SilentInv, NothingAfterClose, BatchShape, CallSlots
<1> QED  BY <1>1, <1>2, <1>3, PTL DEF BatchSpec

-----------------------------------------------------------------------------
(* The text of an answer (StreamText).                                      *)

-----------------------------------------------------------------------------
(* Folds.  FoldLeft goes down the sets of positions, from the last one; the *)
(* function it recurs with exists, since the sets up to n + 1 are those up  *)
(* to n with or without n + 1.                                              *)

Folds(f, n, e, s) ==
    f = [t \in SUBSET (1 .. n) |-> IF t = {} THEN e ELSE TakeAtom(f[t \ {Max(t)}], s[Max(t)])]

LEMMA MaxOfPositions ==
    ASSUME NEW n \in Nat, NEW t, t \subseteq 1 .. n, t # {}
    PROVE  /\ Max(t) \in t /\ \A y \in t : y <= Max(t)
           /\ n \in t => Max(t) = n
           /\ t \ {Max(t)} \subseteq 1 .. n
<1>1. \E x \in t : \A y \in t : x >= y
  <2>1. PICK x \in t : \A y \in t : y <= x
    <3>1. t \subseteq 0 .. n  OBVIOUS
    <3> QED  BY <3>1, Greatest
  <2>2. t \subseteq Int  OBVIOUS
  <2> QED  BY <2>1, <2>2
<1> DEFINE m == Max(t)
<1>2. m \in t /\ \A y \in t : m >= y  BY <1>1 DEF Max
<1> HIDE DEF m
<1>3. \A y \in t : y \in Int /\ y <= n  OBVIOUS
<1>4. \A y \in t : y <= m  BY <1>2, <1>3
<1>5. n \in t => m = n  BY <1>2, <1>3
<1>6. t \ {m} \subseteq 1 .. n  OBVIOUS
<1> QED  BY <1>2, <1>4, <1>5, <1>6 DEF m

LEMMA FoldExists ==
    ASSUME NEW e, NEW s
    PROVE  \A n \in Nat : \E f : Folds(f, n, e, s)
<1> DEFINE S == {n \in Nat : \E f : Folds(f, n, e, s)}
<1>1. 0 \in S
  <2> DEFINE f == [t \in SUBSET (1 .. 0) |-> e]
  <2>1. \A t \in SUBSET (1 .. 0) : t = {}  OBVIOUS
  <2>2. f = [t \in SUBSET (1 .. 0) |->
                IF t = {} THEN e ELSE TakeAtom(f[t \ {Max(t)}], s[Max(t)])]
    BY <2>1
  <2>3. Folds(f, 0, e, s)
    <3> HIDE DEF f
    <3> QED  BY <2>2 DEF Folds
  <2> QED  BY <2>3
<1>2. ASSUME NEW n \in Nat, n \in S PROVE n + 1 \in S
  <2>1. PICK f : Folds(f, n, e, s)  BY <1>2
  <2> DEFINE g == [t \in SUBSET (1 .. n + 1) |->
                      IF n + 1 \in t THEN TakeAtom(f[t \ {n + 1}], s[n + 1]) ELSE f[t]]
             G(t) == IF t = {} THEN e ELSE TakeAtom(g[t \ {Max(t)}], s[Max(t)])
  <2>2. ASSUME NEW t \in SUBSET (1 .. n + 1) PROVE g[t] = G(t)
    <3>1. CASE n + 1 \in t
      <4>1. Max(t) = n + 1
        <5>1. n + 1 \in Nat /\ t # {} /\ t \subseteq 1 .. n + 1  BY <3>1
        <5> QED  BY <3>1, <5>1, MaxOfPositions
      <4>2. t \ {n + 1} \in SUBSET (1 .. n + 1) /\ n + 1 \notin t \ {n + 1}  OBVIOUS
      <4>3. g[t \ {n + 1}] = f[t \ {n + 1}]  BY <4>2
      <4>4. g[t] = TakeAtom(f[t \ {n + 1}], s[n + 1])  BY <3>1
      <4> QED  BY <3>1, <4>1, <4>3, <4>4
    <3>2. CASE n + 1 \notin t
      <4>1. t \in SUBSET (1 .. n)  BY <3>2
      <4>2. g[t] = f[t]  BY <3>2
      <4>3. f[t] = IF t = {} THEN e ELSE TakeAtom(f[t \ {Max(t)}], s[Max(t)])
        BY <2>1, <4>1 DEF Folds
      <4>4. CASE t = {}  BY <4>2, <4>3, <4>4
      <4>5. CASE t # {}
        <5>1. t \ {Max(t)} \in SUBSET (1 .. n)  BY <4>1, <4>5, MaxOfPositions
        <5>2. t \ {Max(t)} \in SUBSET (1 .. n + 1) /\ n + 1 \notin t \ {Max(t)}  BY <5>1
        <5>3. g[t \ {Max(t)}] = f[t \ {Max(t)}]  BY <5>2
        <5> QED  BY <4>2, <4>3, <4>5, <5>3
      <4> QED  BY <4>4, <4>5
    <3> QED  BY <3>1, <3>2
  <2>3. g = [t \in SUBSET (1 .. n + 1) |-> G(t)]
    <3>1. g = [t \in SUBSET (1 .. n + 1) |-> g[t]]  OBVIOUS
    <3> HIDE DEF g
    <3> QED  BY <2>2, <3>1
  <2>4. Folds(g, n + 1, e, s)
    <3> HIDE DEF g
    <3> QED  BY <2>3 DEF Folds
  <2> HIDE DEF g
  <2> QED  BY <2>4
<1>3. Nat \subseteq S
  <2> HIDE DEF S
  <2> QED  BY <1>1, <1>2, ByInduction
<1> QED  BY <1>3

(* What it comes to depends on the elements alone.                          *)
Alike(n, s, t) == \A i \in 1 .. n : s[i] = t[i]

LEMMA FoldsAgree ==
    ASSUME NEW e, NEW s, NEW t, NEW f, NEW g, NEW m \in Nat, NEW n \in Nat, m <= n,
           Folds(f, m, e, s), Folds(g, n, e, t), Alike(m, s, t)
    PROVE  f[1 .. m] = g[1 .. m]
<1> DEFINE S == {k \in Nat : k <= m => f[1 .. k] = g[1 .. k]}
<1>1. 0 \in S
  <2>1. 1 .. 0 = {}  OBVIOUS
  <2>2. f[{}] = e /\ g[{}] = e  BY DEF Folds
  <2> QED  BY <2>1, <2>2
<1>2. ASSUME NEW k \in Nat, k \in S PROVE k + 1 \in S
  <2> SUFFICES ASSUME k + 1 <= m PROVE f[1 .. k + 1] = g[1 .. k + 1]  OBVIOUS
  <2>1. f[1 .. k] = g[1 .. k]  BY <1>2
  <2> DEFINE u == 1 .. k + 1
  <2>2. u # {} /\ u \in SUBSET (1 .. m) /\ u \in SUBSET (1 .. n) /\ k + 1 \in u  OBVIOUS
  <2>3. Max(u) = k + 1
    <3>1. PICK j \in Nat : j = k + 1  OBVIOUS
    <3>2. u \subseteq 1 .. j /\ u # {} /\ j \in u  BY <2>2, <3>1
    <3> HIDE DEF u
    <3>3. Max(u) = j  BY <3>2, MaxOfPositions
    <3> QED  BY <3>1, <3>3
  <2>4. u \ {Max(u)} = 1 .. k  BY <2>3
  <2>5. f[u] = TakeAtom(f[u \ {Max(u)}], s[Max(u)])
    <3> HIDE DEF u
    <3> QED  BY <2>2 DEF Folds
  <2>6. g[u] = TakeAtom(g[u \ {Max(u)}], t[Max(u)])
    <3> HIDE DEF u
    <3> QED  BY <2>2 DEF Folds
  <2>7. s[k + 1] = t[k + 1]  BY DEF Alike
  <2> QED  BY <2>1, <2>3, <2>4, <2>5, <2>6, <2>7
<1>3. Nat \subseteq S
  <2> HIDE DEF S
  <2> QED  BY <1>1, <1>2, ByInduction
<1> QED  BY <1>3

LEMMA FoldIs ==
    ASSUME NEW e, NEW A, NEW s \in Seq(A)
    PROVE  \E f : Folds(f, Len(s), e, s) /\ FoldLeft(TakeAtom, e, s) = f[1 .. Len(s)]
<1>1. DOMAIN s = 1 .. Len(s) /\ Len(s) \in Nat  OBVIOUS
<1>2. FoldLeft(TakeAtom, e, s) = (CHOOSE f : Folds(f, Len(s), e, s))[1 .. Len(s)]
  BY <1>1 DEF FoldLeft, MapThenFoldSet, Folds
<1>3. \E f : Folds(f, Len(s), e, s)  BY <1>1, FoldExists
<1>4. Folds(CHOOSE f : Folds(f, Len(s), e, s), Len(s), e, s)
  BY <1>3, Zenon
<1> QED  BY <1>2, <1>4

LEMMA FoldEmpty ==
    ASSUME NEW e
    PROVE  FoldLeft(TakeAtom, e, << >>) = e
<1>1. PICK f : Folds(f, Len(<< >>), e, << >>) /\ FoldLeft(TakeAtom, e, << >>) = f[1 .. Len(<< >>)]
  <2>1. << >> \in Seq({})  OBVIOUS
  <2> QED  BY <2>1, FoldIs
<1>2. 1 .. Len(<< >>) = {} /\ {} \in SUBSET (1 .. Len(<< >>))  OBVIOUS
<1>3. f[{}] = e  BY <1>1, <1>2 DEF Folds
<1> QED  BY <1>1, <1>2, <1>3

LEMMA FoldAppend ==
    ASSUME NEW e, NEW A, NEW s \in Seq(A), NEW x \in A
    PROVE  FoldLeft(TakeAtom, e, Append(s, x)) = TakeAtom(FoldLeft(TakeAtom, e, s), x)
<1> DEFINE t == Append(s, x)
           n == Len(s)
<1>1. t \in Seq(A) /\ Len(t) = n + 1 /\ t[n + 1] = x /\ n \in Nat /\ \A i \in 1 .. n : s[i] = t[i]
  OBVIOUS
<1> HIDE DEF t, n
<1>2. PICK f : Folds(f, n, e, s) /\ FoldLeft(TakeAtom, e, s) = f[1 .. n]
  BY FoldIs DEF n
<1>3. PICK g : Folds(g, n + 1, e, t) /\ FoldLeft(TakeAtom, e, t) = g[1 .. n + 1]
  BY <1>1, FoldIs
<1>4. f[1 .. n] = g[1 .. n]
  <2>1. n <= n + 1 /\ n + 1 \in Nat  BY <1>1
  <2>2. Folds(f, n, e, s) /\ Folds(g, n + 1, e, t)  BY <1>2, <1>3
  <2>3. Alike(n, s, t)  BY <1>1 DEF Alike
  <2>4. PICK k \in Nat : k = n + 1  BY <2>1
  <2>5. Folds(g, k, e, t) /\ n <= k /\ n \in Nat  BY <1>1, <2>1, <2>2, <2>4
  <2>6. Folds(f, n, e, s) /\ Folds(g, k, e, t) /\ n \in Nat /\ k \in Nat /\ n <= k
    BY <2>2, <2>5
  <2>7. ASSUME NEW a \in Nat, NEW b \in Nat, a <= b, NEW x1, NEW y1,
               Folds(x1, a, e, s), Folds(y1, b, e, t), Alike(a, s, t)
        PROVE  x1[1 .. a] = y1[1 .. a]
    BY <2>7, FoldsAgree
  <2> QED  BY <2>3, <2>6, <2>7
<1> DEFINE u == 1 .. n + 1
<1>5. u # {} /\ u \in SUBSET (1 .. n + 1) /\ n + 1 \in u /\ n + 1 \in Nat
  <2>1. n + 1 \in Nat /\ 1 <= n + 1  BY <1>1
  <2>2. \A k \in Nat : 1 <= k => k \in 1 .. k  OBVIOUS
  <2>3. n + 1 \in u  BY <2>1, <2>2
  <2> QED  BY <2>1, <2>3
<1>6. Max(u) = n + 1
  <2>1. PICK j \in Nat : j = n + 1  BY <1>5
  <2>2. u \subseteq 1 .. j /\ u # {} /\ j \in u  BY <1>5, <2>1
  <2> HIDE DEF u
  <2>3. Max(u) = j  BY <2>2, MaxOfPositions
  <2> QED  BY <2>1, <2>3
<1>7. u \ {Max(u)} = 1 .. n  BY <1>1, <1>6
<1>8. g[u] = TakeAtom(g[u \ {Max(u)}], t[Max(u)])
  <2> HIDE DEF u
  <2> QED  BY <1>3, <1>5 DEF Folds
<1> QED  BY <1>1, <1>2, <1>3, <1>4, <1>6, <1>7, <1>8 DEF t

(* A text in two parts, and a text from its end.                            *)
LEMMA TextInduction ==
    ASSUME NEW A, NEW S, << >> \in S,
           \A s \in Seq(A), x \in A : s \in S => Append(s, x) \in S
    PROVE  Seq(A) \subseteq S
<1> DEFINE N == {n \in Nat : \A s \in Seq(A) : Len(s) = n => s \in S}
<1>1. 0 \in N  OBVIOUS
<1>2. ASSUME NEW n \in Nat, n \in N PROVE n + 1 \in N
  <2> SUFFICES ASSUME NEW s \in Seq(A), Len(s) = n + 1 PROVE s \in S  OBVIOUS
  <2> DEFINE r == SubSeq(s, 1, n)
  <2>1. r \in Seq(A) /\ Len(r) = n /\ s[n + 1] \in A  OBVIOUS
  <2>2. s = Append(r, s[n + 1])  OBVIOUS
  <2> HIDE DEF r
  <2> QED  BY <1>2, <2>1, <2>2
<1>3. Nat \subseteq N
  <2> HIDE DEF N
  <2> QED  BY <1>1, <1>2, ByInduction
<1> QED  BY <1>3

LEMMA FoldConcat ==
    ASSUME NEW e, NEW A, NEW s \in Seq(A), NEW t \in Seq(A)
    PROVE  FoldLeft(TakeAtom, e, s \o t) = FoldLeft(TakeAtom, FoldLeft(TakeAtom, e, s), t)
<1> DEFINE F(b, v) == FoldLeft(TakeAtom, b, v)
           S == {v \in Seq(A) : F(e, s \o v) = F(F(e, s), v)}
<1>0. /\ \A b : F(b, << >>) = b
      /\ \A b : \A v \in Seq(A), x \in A : F(b, Append(v, x)) = TakeAtom(F(b, v), x)
  <2>1. \A b : F(b, << >>) = b  BY FoldEmpty
  <2>2. ASSUME NEW b, NEW v \in Seq(A), NEW x \in A
        PROVE  F(b, Append(v, x)) = TakeAtom(F(b, v), x)
    BY FoldAppend
  <2> HIDE DEF F
  <2> QED  BY <2>1, <2>2
<1> HIDE DEF F
<1>1. << >> \in S
  <2>1. s \o << >> = s  OBVIOUS
  <2> QED  BY <1>0, <2>1
<1>2. ASSUME NEW v \in Seq(A), NEW x \in A, v \in S PROVE Append(v, x) \in S
  <2>1. s \o Append(v, x) = Append(s \o v, x) /\ s \o v \in Seq(A) /\ Append(v, x) \in Seq(A)
    OBVIOUS
  <2>2. F(e, Append(s \o v, x)) = TakeAtom(F(e, s \o v), x)  BY <1>0, <2>1
  <2>3. F(F(e, s), Append(v, x)) = TakeAtom(F(F(e, s), v), x)  BY <1>0
  <2> QED  BY <1>2, <2>1, <2>2, <2>3
<1>3. Seq(A) \subseteq S
  <2> HIDE DEF S
  <2> QED  BY <1>1, <1>2, TextInduction
<1>4. F(e, s \o t) = F(F(e, s), t)  BY <1>3
<1> QED  BY <1>4 DEF F
-----------------------------------------------------------------------------
(* Texts.                                                                   *)

Text == Seq(Atoms)

LEMMA LeastIs ==
    ASSUME NEW T, T \subseteq Nat, T # {}
    PROVE  Min(T) \in T /\ Min(T) \in Nat /\ \A y \in T : Min(T) <= y
<1>1. \E x \in T : \A y \in T : x <= y  BY Least
<1> QED  BY <1>1 DEF Min

LEMMA FromIs ==
    ASSUME NEW s \in Text, NEW i \in Nat \ {0}
    PROVE  /\ From(s, i) \in Text
           /\ i <= Len(s) + 1 => Len(From(s, i)) = Len(s) - i + 1
           /\ i > Len(s) => From(s, i) = << >>
           /\ \A k \in 1 .. Len(s) - i + 1 : From(s, i)[k] = s[i + k - 1]
  BY DEF From, Text

Words(s) == {i \in 1 .. Len(s) : s[i] # "nl"}

LEMMA TrimLeftIs ==
    ASSUME NEW s \in Text
    PROVE  /\ TrimLeft(s) \in Text
           /\ Words(s) = {} => TrimLeft(s) = << >>
           /\ Words(s) # {} => /\ Min(Words(s)) \in Words(s) /\ Min(Words(s)) \in 1 .. Len(s)
                               /\ \A i \in Words(s) : Min(Words(s)) <= i
                               /\ TrimLeft(s) = From(s, Min(Words(s)))
<1>1. Words(s) \subseteq Nat /\ Words(s) \subseteq 1 .. Len(s)  BY DEF Words
<1>2. CASE Words(s) = {}  BY <1>2 DEF TrimLeft, Words, Text
<1>3. CASE Words(s) # {}
  <2>1. /\ Min(Words(s)) \in Words(s) /\ Min(Words(s)) \in Nat
        /\ \A i \in Words(s) : Min(Words(s)) <= i
    BY <1>1, <1>3, LeastIs
  <2>2. TrimLeft(s) = From(s, Min(Words(s)))  BY <1>3 DEF TrimLeft, Words
  <2>3. Min(Words(s)) \in 1 .. Len(s) /\ Min(Words(s)) \in Nat \ {0}  BY <1>1, <2>1
  <2>4. TrimLeft(s) \in Text  BY <2>2, <2>3, FromIs
  <2> QED  BY <1>3, <2>1, <2>2, <2>3, <2>4
<1> QED  BY <1>2, <1>3

LEMMA ReverseIs ==
    ASSUME NEW s \in Text
    PROVE  Reverse(s) \in Text /\ Len(Reverse(s)) = Len(s)
           /\ \A i \in 1 .. Len(s) : Reverse(s)[i] = s[Len(s) - i + 1]
<1>1. \A i \in 1 .. Len(s) : Len(s) - i + 1 \in 1 .. Len(s)  OBVIOUS
<1>2. \A i \in 1 .. Len(s) : s[Len(s) - i + 1] \in Atoms  BY <1>1 DEF Text
<1>3. Reverse(s) = [i \in 1 .. Len(s) |-> s[Len(s) - i + 1]]  BY DEF Reverse
<1>4. Len(s) \in Nat  BY DEF Text
<1> HIDE DEF Text
<1>5. Reverse(s) \in Seq(Atoms) /\ Len(Reverse(s)) = Len(s)  BY <1>2, <1>3, <1>4
<1> QED  BY <1>3, <1>5 DEF Text

LEMMA TrimSpaceType ==
    ASSUME NEW s \in Text
    PROVE  TrimSpace(s) \in Text
  BY TrimLeftIs, ReverseIs DEF TrimSpace

-----------------------------------------------------------------------------
(* The emitter: what it shows, and what it makes of the text.               *)

Emitters ==
    [seen : Text, raw : Text, line : Text, inThink : BOOLEAN, thinkDone : BOOLEAN,
     inFence : BOOLEAN, headerDone : BOOLEAN, headerLen : Nat, hold : Text,
     sent : BOOLEAN, blank : BOOLEAN, stopped : BOOLEAN, lines : Seq(Text), typed : Text]

Mind(e) == << e.seen, e.raw, e.inThink, e.thinkDone, e.stopped >>
Page(e) == << e.inFence, e.sent, e.blank, e.lines >>
Screen(e) == << Page(e), e.line, e.headerDone, e.headerLen, e.hold, e.typed >>

(* Emit below the header.                                                   *)
Put(e, line) ==
    LET fenced == [e EXCEPT !.inFence = IF Starts(line, << "fence" >>) THEN ~@ ELSE @]
    IN IF ~e.inFence /\ TrimSpace(line) = << >> THEN [e EXCEPT !.blank = e.sent]
       ELSE IF ~fenced.inFence /\ TrimSpace(Normalize(e, line)) = << >> THEN fenced
       ELSE Push(fenced, Normalize(e, line))

LEMMA NormalizeType ==
    ASSUME NEW e, NEW line \in Text
    PROVE  Normalize(e, line) \in Text
<1>1. << >> \in Text  BY DEF Text
<1> QED  BY <1>1, TrimSpaceType DEF Normalize, Response

LEMMA PutIs ==
    ASSUME NEW e \in Emitters, NEW line \in Text
    PROVE  /\ Put(e, line) \in Emitters
           /\ Mind(Put(e, line)) = Mind(e)
           /\ Put(e, line).line = e.line
           /\ Put(e, line).headerDone = e.headerDone /\ Put(e, line).headerLen = e.headerLen
           /\ Put(e, line).hold = e.hold /\ Put(e, line).typed = e.typed
           /\ \E more \in Seq(Text) : Put(e, line).lines = e.lines \o more
<1> DEFINE n == Normalize(e, line)
           flip == IF Starts(line, << "fence" >>) THEN ~e.inFence ELSE e.inFence
           gap == IF e.blank THEN << << >> >> ELSE << >>
           more == gap \o << n >>
<1>1. n \in Text /\ flip \in BOOLEAN  BY NormalizeType DEF Emitters
<1>2. gap \in Seq(Text) /\ << n >> \in Seq(Text) /\ more \in Seq(Text) /\ << >> \in Seq(Text)
  <2>1. << >> \in Text  BY DEF Text
  <2> HIDE DEF Text
  <2> QED  BY <1>1, <2>1
<1>3. \/ Put(e, line) = [e EXCEPT !.blank = e.sent]
      \/ Put(e, line) = [e EXCEPT !.inFence = flip]
      \/ Put(e, line) = [e EXCEPT !.inFence = flip, !.lines = (e.lines \o gap) \o << n >>, !.blank = FALSE, !.sent = TRUE]
  <2>1. \/ Put(e, line) = [e EXCEPT !.blank = e.sent]
        \/ Put(e, line) = [e EXCEPT !.inFence = flip]
        \/ Put(e, line) = Push([e EXCEPT !.inFence = flip], n)
    BY DEF Put, Emitters
  <2> HIDE DEF flip, n
  <2>2. Push([e EXCEPT !.inFence = flip], n) =
           [e EXCEPT !.inFence = flip, !.lines = (e.lines \o gap) \o << n >>, !.blank = FALSE, !.sent = TRUE]
    BY DEF Push, Emitters
  <2> QED  BY <2>1, <2>2
<1> HIDE DEF flip, gap, n, Text
<1>9. (e.lines \o gap) \o << n >> = e.lines \o more
  <2>1. e.lines \in Seq(Text)  BY DEF Emitters
  <2>2. ASSUME NEW r \in Seq(Text), NEW s \in Seq(Text), NEW t \in Seq(Text)
        PROVE  (r \o s) \o t = r \o (s \o t)
    BY ConcatAssociative
  <2>3. more = gap \o << n >>  OBVIOUS
  <2> HIDE DEF more
  <2> QED  BY <1>2, <2>1, <2>2, <2>3
<1> HIDE DEF more
<1>4. e.lines \o << >> = e.lines  BY DEF Emitters
<1>5. e.lines \o more \in Seq(Text)  BY <1>2 DEF Emitters
<1>6. CASE Put(e, line) = [e EXCEPT !.blank = e.sent]  BY <1>2, <1>4, <1>6 DEF Emitters, Mind
<1>7. CASE Put(e, line) = [e EXCEPT !.inFence = flip]  BY <1>1, <1>2, <1>4, <1>7 DEF Emitters, Mind
<1>8. CASE Put(e, line) = [e EXCEPT !.inFence = flip, !.lines = (e.lines \o gap) \o << n >>,
                                  !.blank = FALSE, !.sent = TRUE]
  BY <1>1, <1>2, <1>5, <1>8, <1>9 DEF Emitters, Mind
<1> QED  BY <1>3, <1>6, <1>7, <1>8

LEMMA PutSame ==
    ASSUME NEW d \in Emitters, NEW e \in Emitters, NEW line \in Text, Page(d) = Page(e)
    PROVE  Page(Put(d, line)) = Page(Put(e, line))
<1>1. d.inFence = e.inFence /\ d.sent = e.sent /\ d.blank = e.blank /\ d.lines = e.lines
  BY DEF Page
<1>2. Normalize(d, line) = Normalize(e, line)  BY <1>1 DEF Normalize
<1>3. CASE ~e.inFence /\ TrimSpace(line) = << >>
  BY <1>1, <1>3 DEF Put, Page, Emitters
<1>4. CASE ~(~e.inFence /\ TrimSpace(line) = << >>)
  <2> DEFINE n == Normalize(e, line)
             flip == IF Starts(line, << "fence" >>) THEN ~e.inFence ELSE e.inFence
  <2>1. /\ Put(d, line) = IF ~flip /\ TrimSpace(n) = << >> THEN [d EXCEPT !.inFence = flip]
                          ELSE Push([d EXCEPT !.inFence = flip], n)
        /\ Put(e, line) = IF ~flip /\ TrimSpace(n) = << >> THEN [e EXCEPT !.inFence = flip]
                          ELSE Push([e EXCEPT !.inFence = flip], n)
    BY <1>1, <1>2, <1>4 DEF Put, Emitters
  <2> HIDE DEF n, flip
  <2>2. CASE ~flip /\ TrimSpace(n) = << >>  BY <1>1, <2>1, <2>2 DEF Page, Emitters
  <2>3. CASE ~(~flip /\ TrimSpace(n) = << >>)
    <3>1. Put(d, line) = Push([d EXCEPT !.inFence = flip], n)
          /\ Put(e, line) = Push([e EXCEPT !.inFence = flip], n)
      BY <2>1, <2>3
    <3>2. ASSUME NEW f \in Emitters
          PROVE  LET p == Push([f EXCEPT !.inFence = flip], n)
                 IN /\ p.inFence = flip /\ p.sent = TRUE /\ p.blank = FALSE
                    /\ p.lines = f.lines \o (IF f.blank THEN << << >> >> ELSE << >>) \o << n >>
      BY DEF Push, Emitters
    <3> QED  BY <1>1, <3>1, <3>2 DEF Page
  <2> QED  BY <2>2, <2>3
<1> QED  BY <1>3, <1>4

Drop(s, k) == IF k >= Len(s) THEN << >> ELSE From(s, k + 1)
Released(e, k) ==
    [e EXCEPT !.headerDone = TRUE, !.hold = << >>, !.headerLen = 0, !.typed = e.typed \o Drop(e.hold, k)]

LEMMA DropType ==
    ASSUME NEW s \in Text, NEW k \in Nat
    PROVE  Drop(s, k) \in Text
<1>1. << >> \in Text  BY DEF Text
<1>2. k + 1 \in Nat \ {0}  OBVIOUS
<1> QED  BY <1>1, <1>2, FromIs DEF Drop

LEMMA ReleasedIs ==
    ASSUME NEW e \in Emitters, NEW k \in Nat
    PROVE  /\ Released(e, k) \in Emitters /\ Mind(Released(e, k)) = Mind(e)
           /\ Page(Released(e, k)) = Page(e) /\ Released(e, k).line = e.line
           /\ Released(e, k).headerDone = TRUE /\ Released(e, k).headerLen = 0
           /\ Released(e, k).hold = << >> /\ Released(e, k).typed = e.typed \o Drop(e.hold, k)
<1>1. e.hold \in Text /\ e.typed \in Text  BY DEF Emitters
<1>2. Drop(e.hold, k) \in Text  BY <1>1, DropType
<1>3. e.typed \o Drop(e.hold, k) \in Text /\ << >> \in Text  BY <1>1, <1>2 DEF Text
<1> QED  BY <1>3 DEF Released, Emitters, Mind, Page

LEMMA EmitIs ==
    ASSUME NEW e \in Emitters, NEW l \in Text
    PROVE  /\ e.headerDone => Emit(e, l) = Put(e, l)
           /\ ~e.headerDone /\ TrimSpace(l) = << >> =>
                 Emit(e, l) = [e EXCEPT !.headerLen = e.headerLen + Len(l) + 1]
           /\ ~e.headerDone /\ TrimSpace(l) # << >> /\ IsPrefixLine(l) =>
                 Emit(e, l) = Released(e, e.headerLen + Len(l) + 1)
           /\ ~e.headerDone /\ TrimSpace(l) # << >> /\ ~IsPrefixLine(l) =>
                 Emit(e, l) = Put(Released(e, e.headerLen), l)
<1>0. e.headerLen \in Nat /\ Len(l) \in Nat  BY DEF Emitters, Text
<1>1. CASE e.headerDone  BY <1>1 DEF Emit, Put, IsHeader
<1>2. CASE ~e.headerDone /\ TrimSpace(l) = << >>
  <2>1. IsHeader(e, l)  BY <1>2 DEF IsHeader
  <2>2. Emit(e, l) = Header(e, l)  BY <1>2, <2>1 DEF Emit
  <2>3. Header(e, l) = [e EXCEPT !.headerLen = e.headerLen + Len(l) + 1]
    BY <1>0, <1>2 DEF Header, Emitters
  <2> QED  BY <1>2, <2>2, <2>3
<1>3. ASSUME NEW k \in Nat, ~e.headerDone, TrimSpace(l) # << >>,
             k = e.headerLen + (IF IsPrefixLine(l) THEN Len(l) + 1 ELSE 0)
      PROVE  Header(e, l) = Released(e, k)
  <2> DEFINE g == [e EXCEPT !.headerDone = TRUE, !.headerLen = k]
  <2>1. Header(e, l) = ReleaseDelta(g)  BY <1>3 DEF Header, Emitters
  <2>2. ReleaseDelta(g) = [e EXCEPT !.headerDone = TRUE, !.hold = << >>, !.headerLen = 0,
                              !.typed = IF k >= Len(e.hold) THEN e.typed
                                        ELSE e.typed \o From(e.hold, k + 1)]
    BY DEF ReleaseDelta, Emitters
  <2>3. e.typed \o << >> = e.typed  BY DEF Emitters, Text
  <2> HIDE DEF g
  <2> QED  BY <2>1, <2>2, <2>3 DEF Released, Drop
<1>4. CASE ~e.headerDone /\ TrimSpace(l) # << >> /\ IsPrefixLine(l)
  <2>1. IsHeader(e, l)  BY <1>4 DEF IsHeader
  <2>2. Emit(e, l) = Header(e, l)  BY <1>4, <2>1 DEF Emit
  <2>3. Header(e, l) = Released(e, e.headerLen + Len(l) + 1)
    <3>1. PICK k \in Nat : k = e.headerLen + Len(l) + 1  BY <1>0
    <3>2. k = e.headerLen + (IF IsPrefixLine(l) THEN Len(l) + 1 ELSE 0)  BY <1>0, <1>4, <3>1
    <3>3. Header(e, l) = Released(e, k)  BY <1>3, <1>4, <3>2
    <3> QED  BY <3>1, <3>3
  <2> QED  BY <1>4, <2>2, <2>3
<1>5. CASE ~e.headerDone /\ TrimSpace(l) # << >> /\ ~IsPrefixLine(l)
  <2>1. ~IsHeader(e, l)  BY <1>5 DEF IsHeader
  <2>2. Emit(e, l) = Put(Header(e, l), l)  BY <1>5, <2>1 DEF Emit, Put
  <2>3. Header(e, l) = Released(e, e.headerLen)
    <3>1. e.headerLen = e.headerLen + (IF IsPrefixLine(l) THEN Len(l) + 1 ELSE 0)  BY <1>0, <1>5
    <3> QED  BY <1>0, <1>3, <1>5, <3>1
  <2> QED  BY <1>5, <2>2, <2>3
<1> QED  BY <1>1, <1>2, <1>4, <1>5

LEMMA EmitTypes ==
    ASSUME NEW e \in Emitters, NEW l \in Text
    PROVE  /\ Emit(e, l) \in Emitters /\ Mind(Emit(e, l)) = Mind(e)
           /\ Emit(e, l).line = e.line
           /\ \E more \in Seq(Text) : Emit(e, l).lines = e.lines \o more
           /\ \E more \in Text : Emit(e, l).typed = e.typed \o more
<1>0. e.headerLen \in Nat /\ Len(l) \in Nat /\ e.hold \in Text  BY DEF Emitters, Text
<1>1. /\ << >> \in Seq(Text) /\ << >> \in Text
      /\ e.lines \o << >> = e.lines /\ e.typed \o << >> = e.typed
  BY DEF Emitters, Text
<1>7. ASSUME NEW f \in Emitters, NEW t \in Text, Mind(f) = Mind(e), f.line = e.line, f.lines = e.lines,
             f.typed = e.typed \o t, Emit(e, l) = Put(f, l)
      PROVE  /\ Emit(e, l) \in Emitters /\ Mind(Emit(e, l)) = Mind(e)
             /\ Emit(e, l).line = e.line
             /\ \E more \in Seq(Text) : Emit(e, l).lines = e.lines \o more
             /\ \E more \in Text : Emit(e, l).typed = e.typed \o more
  <2>1. PICK more \in Seq(Text) : Put(f, l).lines = f.lines \o more  BY <1>7, PutIs
  <2>2. /\ Put(f, l) \in Emitters /\ Mind(Put(f, l)) = Mind(f)
        /\ Put(f, l).line = f.line /\ Put(f, l).typed = f.typed
    BY <1>7, PutIs
  <2> QED  BY <1>7, <2>1, <2>2
<1>2. CASE e.headerDone
  <2>1. Emit(e, l) = Put(e, l)  BY <1>2, EmitIs
  <2> QED  BY <1>1, <1>7, <2>1
<1>3. CASE ~e.headerDone /\ TrimSpace(l) = << >>
  <2>1. e.headerLen + Len(l) + 1 \in Nat  BY <1>0
  <2> DEFINE d == [e EXCEPT !.headerLen = e.headerLen + Len(l) + 1]
  <2>2. /\ d \in Emitters /\ Mind(d) = Mind(e) /\ d.line = e.line
        /\ d.lines = e.lines \o << >> /\ d.typed = e.typed \o << >>
    <3>1. d \in Emitters  BY <2>1 DEF Emitters
    <3>2. Mind(d) = Mind(e) /\ d.line = e.line /\ d.lines = e.lines /\ d.typed = e.typed
      BY DEF Emitters, Mind
    <3> QED  BY <1>1, <3>1, <3>2
  <2>3. Emit(e, l) = d  BY <1>3, EmitIs
  <2> HIDE DEF d
  <2> QED  BY <1>1, <2>2, <2>3
<1>4. ASSUME NEW k \in Nat
      PROVE  /\ Released(e, k) \in Emitters /\ Mind(Released(e, k)) = Mind(e)
             /\ Released(e, k).line = e.line /\ Released(e, k).lines = e.lines
             /\ Drop(e.hold, k) \in Text /\ Released(e, k).typed = e.typed \o Drop(e.hold, k)
  BY <1>0, ReleasedIs, DropType DEF Page
<1>5. CASE ~e.headerDone /\ TrimSpace(l) # << >> /\ IsPrefixLine(l)
  <2>1. e.headerLen + Len(l) + 1 \in Nat  BY <1>0
  <2> QED  BY <1>1, <1>4, <1>5, <2>1, EmitIs
<1>6. CASE ~e.headerDone /\ TrimSpace(l) # << >> /\ ~IsPrefixLine(l)
  <2> DEFINE d == Released(e, e.headerLen)
  <2>1. /\ d \in Emitters /\ Mind(d) = Mind(e) /\ d.line = e.line /\ d.lines = e.lines
        /\ Drop(e.hold, e.headerLen) \in Text /\ d.typed = e.typed \o Drop(e.hold, e.headerLen)
    BY <1>0, <1>4
  <2>2. Emit(e, l) = Put(d, l)  BY <1>6, EmitIs
  <2> HIDE DEF d
  <2> QED  BY <1>7, <2>1, <2>2
<1> QED  BY <1>2, <1>3, <1>5, <1>6

(* What is shown next does not depend on what is kept beside.               *)
LEMMA EmitSame ==
    ASSUME NEW d \in Emitters, NEW e \in Emitters, NEW l \in Text, Screen(d) = Screen(e)
    PROVE  Screen(Emit(d, l)) = Screen(Emit(e, l))
<1>1. /\ Page(d) = Page(e) /\ d.line = e.line /\ d.headerDone = e.headerDone
      /\ d.headerLen = e.headerLen /\ d.hold = e.hold /\ d.typed = e.typed
  BY DEF Screen
<1>0. e.headerLen \in Nat /\ Len(l) \in Nat  BY DEF Emitters, Text
<1>2. ASSUME NEW f \in Emitters, NEW g \in Emitters, Screen(f) = Screen(g)
      PROVE  Screen(Put(f, l)) = Screen(Put(g, l))
  <2>1. /\ Page(f) = Page(g) /\ f.line = g.line /\ f.headerDone = g.headerDone
        /\ f.headerLen = g.headerLen /\ f.hold = g.hold /\ f.typed = g.typed
    BY <1>2 DEF Screen
  <2>2. Page(Put(f, l)) = Page(Put(g, l))  BY <2>1, PutSame
  <2> QED  BY <2>1, <2>2, PutIs DEF Screen
<1>3. ASSUME NEW k \in Nat
      PROVE  Screen(Released(d, k)) = Screen(Released(e, k))
  <2>1. /\ Released(d, k).headerDone = TRUE /\ Released(d, k).headerLen = 0
        /\ Released(d, k).hold = << >> /\ Released(d, k).typed = d.typed \o Drop(d.hold, k)
        /\ Page(Released(d, k)) = Page(d) /\ Released(d, k).line = d.line
    BY ReleasedIs
  <2>2. /\ Released(e, k).headerDone = TRUE /\ Released(e, k).headerLen = 0
        /\ Released(e, k).hold = << >> /\ Released(e, k).typed = e.typed \o Drop(e.hold, k)
        /\ Page(Released(e, k)) = Page(e) /\ Released(e, k).line = e.line
    BY ReleasedIs
  <2> QED  BY <1>1, <2>1, <2>2 DEF Screen
<1>4. CASE e.headerDone  BY <1>1, <1>2, <1>4, EmitIs
<1>5. CASE ~e.headerDone /\ TrimSpace(l) = << >>
  <2>1. /\ Emit(d, l) = [d EXCEPT !.headerLen = e.headerLen + Len(l) + 1]
        /\ Emit(e, l) = [e EXCEPT !.headerLen = e.headerLen + Len(l) + 1]
    BY <1>1, <1>5, EmitIs
  <2> QED  BY <1>1, <2>1 DEF Screen, Page, Emitters
<1>6. CASE ~e.headerDone /\ TrimSpace(l) # << >> /\ IsPrefixLine(l)
  <2>1. e.headerLen + Len(l) + 1 \in Nat  BY <1>0
  <2> QED  BY <1>1, <1>3, <1>6, <2>1, EmitIs
<1>7. CASE ~e.headerDone /\ TrimSpace(l) # << >> /\ ~IsPrefixLine(l)
  <2>1. /\ Emit(d, l) = Put(Released(d, e.headerLen), l)
        /\ Emit(e, l) = Put(Released(e, e.headerLen), l)
    BY <1>1, <1>7, EmitIs
  <2>2. Screen(Released(d, e.headerLen)) = Screen(Released(e, e.headerLen))  BY <1>0, <1>3
  <2>3. Released(d, e.headerLen) \in Emitters /\ Released(e, e.headerLen) \in Emitters
    BY <1>0, ReleasedIs
  <2> QED  BY <1>2, <2>1, <2>2, <2>3
<1> QED  BY <1>4, <1>5, <1>6, <1>7

LEMMA TakeIs ==
    ASSUME NEW e \in Emitters, NEW x \in Atoms
    PROVE  /\ TakeAtom(e, x) \in Emitters /\ Mind(TakeAtom(e, x)) = Mind(e)
           /\ \E more \in Seq(Text) : TakeAtom(e, x).lines = e.lines \o more
<1>1. /\ e.line \in Text /\ << >> \in Text /\ Append(e.line, x) \in Text
      /\ << >> \in Seq(Text) /\ e.lines \o << >> = e.lines
  BY DEF Emitters, Text
<1>2. CASE x = "nl"
  <2> DEFINE d == [e EXCEPT !.line = << >>]
  <2>1. d \in Emitters /\ Mind(d) = Mind(e) /\ d.lines = e.lines  BY <1>1 DEF Emitters, Mind
  <2>2. TakeAtom(e, x) = Emit(d, e.line)  BY <1>2 DEF TakeAtom
  <2> HIDE DEF d
  <2>3. /\ Emit(d, e.line) \in Emitters /\ Mind(Emit(d, e.line)) = Mind(d)
        /\ \E more \in Seq(Text) : Emit(d, e.line).lines = d.lines \o more
    BY <1>1, <2>1, EmitTypes
  <2> QED  BY <2>1, <2>2, <2>3
<1>3. CASE x # "nl"
  <2>1. TakeAtom(e, x) = [e EXCEPT !.line = Append(e.line, x)]  BY <1>3 DEF TakeAtom, Emitters
  <2> QED  BY <1>1, <2>1 DEF Emitters, Mind
<1> QED  BY <1>2, <1>3

LEMMA TakeSame ==
    ASSUME NEW d \in Emitters, NEW e \in Emitters, NEW x \in Atoms, Screen(d) = Screen(e)
    PROVE  Screen(TakeAtom(d, x)) = Screen(TakeAtom(e, x))
<1>1. /\ Page(d) = Page(e) /\ d.line = e.line /\ d.headerDone = e.headerDone
      /\ d.headerLen = e.headerLen /\ d.hold = e.hold /\ d.typed = e.typed
  BY DEF Screen
<1>2. e.line \in Text /\ << >> \in Text  BY DEF Emitters, Text
<1>3. ASSUME NEW l
      PROVE  Screen([d EXCEPT !.line = l]) = Screen([e EXCEPT !.line = l])
  BY <1>1 DEF Screen, Page, Emitters
<1>4. CASE x = "nl"
  <2>1. [d EXCEPT !.line = << >>] \in Emitters /\ [e EXCEPT !.line = << >>] \in Emitters
    BY <1>2 DEF Emitters
  <2>2. /\ TakeAtom(d, x) = Emit([d EXCEPT !.line = << >>], e.line)
        /\ TakeAtom(e, x) = Emit([e EXCEPT !.line = << >>], e.line)
    BY <1>1, <1>4 DEF TakeAtom
  <2> QED  BY <1>2, <1>3, <2>1, <2>2, EmitSame
<1>5. CASE x # "nl"
  <2>1. /\ TakeAtom(d, x) = [d EXCEPT !.line = Append(e.line, x)]
        /\ TakeAtom(e, x) = [e EXCEPT !.line = Append(e.line, x)]
    BY <1>1, <1>5 DEF TakeAtom, Emitters
  <2> QED  BY <1>3, <2>1
<1> QED  BY <1>4, <1>5

-----------------------------------------------------------------------------
(* Feeding.  Of the text that is fed, the header is cut off once, at a      *)
(* place that its first lines decide.                                       *)

Fold(e, s) == FoldLeft(TakeAtom, e, s)
Core(e) == << Page(e), e.line, e.headerDone, e.headerLen >>
CutAt(e) == e.headerLen + IF IsPrefixLine(e.line) THEN Len(e.line) + 1 ELSE 0

LEMMA FoldSteps ==
    /\ \A e : Fold(e, << >>) = e
    /\ \A e : \A s \in Text, x \in Atoms : Fold(e, Append(s, x)) = TakeAtom(Fold(e, s), x)
    /\ \A e : \A s \in Text, t \in Text : Fold(e, s \o t) = Fold(Fold(e, s), t)
<1>1. \A e : Fold(e, << >>) = e  BY FoldEmpty DEF Fold
<1>2. ASSUME NEW e, NEW s \in Text, NEW x \in Atoms
      PROVE  Fold(e, Append(s, x)) = TakeAtom(Fold(e, s), x)
  BY FoldAppend DEF Fold, Text
<1>3. ASSUME NEW e, NEW s \in Text, NEW t \in Text
      PROVE  Fold(e, s \o t) = Fold(Fold(e, s), t)
  BY FoldConcat DEF Fold, Text
<1> QED  BY <1>1, <1>2, <1>3

LEMMA ByText ==
    ASSUME NEW S, << >> \in S, \A s \in Text, x \in Atoms : s \in S => Append(s, x) \in S
    PROVE  Text \subseteq S
  BY TextInduction DEF Text

LEMMA TextEmpty == << >> \in Text /\ Len(<< >>) = 0  BY DEF Text

LEMMA TextAppends ==
    ASSUME NEW s \in Text, NEW x \in Atoms
    PROVE  Append(s, x) \in Text /\ Len(Append(s, x)) = Len(s) + 1 /\ Len(s) \in Nat
  BY DEF Text

LEMMA FoldTypes ==
    ASSUME NEW e \in Emitters, NEW s \in Text
    PROVE  /\ Fold(e, s) \in Emitters /\ Mind(Fold(e, s)) = Mind(e)
           /\ \E more \in Seq(Text) : Fold(e, s).lines = e.lines \o more
<1> DEFINE S == {v \in Text : /\ Fold(e, v) \in Emitters /\ Mind(Fold(e, v)) = Mind(e)
                              /\ \E more \in Seq(Text) : Fold(e, v).lines = e.lines \o more}
<1>1. << >> \in S
  <2>1. << >> \in Seq(Text) /\ e.lines \o << >> = e.lines  BY DEF Emitters
  <2> QED  BY <2>1, FoldSteps, TextEmpty
<1>2. ASSUME NEW v \in Text, NEW x \in Atoms, v \in S PROVE Append(v, x) \in S
  <2> DEFINE d == Fold(e, v)
  <2>1. d \in Emitters /\ Mind(d) = Mind(e)  BY <1>2
  <2>2. PICK m \in Seq(Text) : d.lines = e.lines \o m  BY <1>2
  <2>3. Fold(e, Append(v, x)) = TakeAtom(d, x)  BY FoldSteps
  <2> HIDE DEF d
  <2>4. PICK n \in Seq(Text) : TakeAtom(d, x).lines = d.lines \o n  BY <2>1, TakeIs
  <2>5. e.lines \in Seq(Text)  BY DEF Emitters
  <2>6. m \o n \in Seq(Text) /\ (e.lines \o m) \o n = e.lines \o (m \o n)
    <3>1. m \o n \in Seq(Text)  OBVIOUS
    <3>2. ASSUME NEW r \in Seq(Text), NEW s1 \in Seq(Text), NEW t \in Seq(Text)
          PROVE  (r \o s1) \o t = r \o (s1 \o t)
      BY ConcatAssociative
    <3> QED  BY <2>5, <3>1, <3>2
  <2>7. TakeAtom(d, x) \in Emitters /\ Mind(TakeAtom(d, x)) = Mind(d)  BY <2>1, TakeIs
  <2> QED  BY <2>1, <2>2, <2>3, <2>4, <2>6, <2>7, TextAppends
<1>3. Text \subseteq S
  <2> HIDE DEF S
  <2> QED  BY <1>1, <1>2, ByText
<1> QED  BY <1>3

LEMMA FoldSame ==
    ASSUME NEW d \in Emitters, NEW e \in Emitters, NEW s \in Text, Screen(d) = Screen(e)
    PROVE  Screen(Fold(d, s)) = Screen(Fold(e, s))
<1> DEFINE S == {v \in Text : Screen(Fold(d, v)) = Screen(Fold(e, v))}
<1>1. << >> \in S  BY FoldSteps, TextEmpty
<1>2. ASSUME NEW v \in Text, NEW x \in Atoms, v \in S PROVE Append(v, x) \in S
  <2>1. Fold(d, v) \in Emitters /\ Fold(e, v) \in Emitters  BY FoldTypes
  <2>2. Screen(Fold(d, v)) = Screen(Fold(e, v))  BY <1>2
  <2>3. Screen(TakeAtom(Fold(d, v), x)) = Screen(TakeAtom(Fold(e, v), x))  BY <2>1, <2>2, TakeSame
  <2> QED  BY <2>3, FoldSteps, TextAppends
<1>3. Text \subseteq S
  <2> HIDE DEF S
  <2> QED  BY <1>1, <1>2, ByText
<1> QED  BY <1>3

(* A step: the header goes on, or it is done and cut off, or was done.      *)
LEMMA TakeCut ==
    ASSUME NEW e \in Emitters, NEW x \in Atoms
    PROVE  LET r == TakeAtom(e, x) IN
           /\ e.headerDone => /\ r.headerDone = e.headerDone /\ r.headerLen = e.headerLen
                              /\ r.hold = e.hold /\ r.typed = e.typed
           /\ ~e.headerDone /\ ~r.headerDone =>
                 /\ r.headerLen + Len(r.line) = e.headerLen + Len(e.line) + 1
                 /\ r.hold = e.hold /\ r.typed = e.typed
           /\ ~e.headerDone /\ r.headerDone =>
                 /\ r.headerLen = 0 /\ r.hold = << >>
                 /\ r.typed = e.typed \o Drop(e.hold, CutAt(e))
                 /\ CutAt(e) <= e.headerLen + Len(e.line) + 1
<1>1. e.line \in Text /\ e.headerLen \in Nat /\ Len(e.line) \in Nat  BY DEF Emitters, Text
<1>2. CASE x # "nl"
  <2>1. TakeAtom(e, x) = [e EXCEPT !.line = Append(e.line, x)]  BY <1>2 DEF TakeAtom, Emitters
  <2>2. Len(Append(e.line, x)) = Len(e.line) + 1  BY <1>1, TextAppends
  <2> QED  BY <1>1, <2>1, <2>2 DEF Emitters
<1>3. CASE x = "nl"
  <2> DEFINE d == [e EXCEPT !.line = << >>]
             l == e.line
  <2>1. /\ d \in Emitters /\ d.line = << >> /\ d.headerDone = e.headerDone
        /\ d.headerLen = e.headerLen /\ d.hold = e.hold /\ d.typed = e.typed
    BY TextEmpty DEF Emitters
  <2>2. TakeAtom(e, x) = Emit(d, l)  BY <1>3 DEF TakeAtom
  <2> HIDE DEF d
  <2>3. CASE e.headerDone
    <3>1. Emit(d, l) = Put(d, l)  BY <1>1, <2>1, <2>3, EmitIs
    <3>2. /\ Put(d, l).headerDone = d.headerDone /\ Put(d, l).headerLen = d.headerLen
          /\ Put(d, l).hold = d.hold /\ Put(d, l).typed = d.typed
      BY <1>1, <2>1, PutIs
    <3> QED  BY <2>1, <2>2, <2>3, <3>1, <3>2
  <2>4. CASE ~e.headerDone /\ TrimSpace(l) = << >>
    <3>1. Emit(d, l) = [d EXCEPT !.headerLen = d.headerLen + Len(l) + 1]
      BY <1>1, <2>1, <2>4, EmitIs
    <3>2. /\ Emit(d, l).headerLen = e.headerLen + Len(l) + 1 /\ Emit(d, l).line = << >>
          /\ Emit(d, l).headerDone = e.headerDone /\ Emit(d, l).hold = e.hold /\ Emit(d, l).typed = e.typed
      BY <2>1, <2>4, <3>1 DEF Emitters
    <3>3. (e.headerLen + Len(l) + 1) + 0 = e.headerLen + Len(e.line) + 1  BY <1>1
    <3>4. Len(TakeAtom(e, x).line) = 0  BY <2>2, <3>2, TextEmpty
    <3> QED  BY <2>2, <2>4, <3>2, <3>3, <3>4
  <2>5. ASSUME NEW k \in Nat
        PROVE  /\ Released(d, k) \in Emitters
               /\ Released(d, k).headerDone = TRUE /\ Released(d, k).headerLen = 0
               /\ Released(d, k).hold = << >> /\ Released(d, k).typed = e.typed \o Drop(e.hold, k)
    <3>1. Released(d, k).typed = d.typed \o Drop(d.hold, k)  BY <2>1, ReleasedIs
    <3>2. /\ Released(d, k) \in Emitters
          /\ Released(d, k).headerDone = TRUE /\ Released(d, k).headerLen = 0
          /\ Released(d, k).hold = << >>
      BY <2>1, ReleasedIs
    <3> QED  BY <2>1, <3>1, <3>2
  <2>6. CASE ~e.headerDone /\ TrimSpace(l) # << >> /\ IsPrefixLine(l)
    <3>1. CutAt(e) = e.headerLen + Len(l) + 1 /\ CutAt(e) \in Nat  BY <1>1, <2>6 DEF CutAt
    <3>2. Emit(d, l) = Released(d, CutAt(e))  BY <1>1, <2>1, <2>6, <3>1, EmitIs
    <3>3. CutAt(e) <= e.headerLen + Len(e.line) + 1  BY <1>1, <3>1
    <3> QED  BY <2>2, <2>5, <2>6, <3>1, <3>2, <3>3
  <2>7. CASE ~e.headerDone /\ TrimSpace(l) # << >> /\ ~IsPrefixLine(l)
    <3>1. CutAt(e) = e.headerLen /\ CutAt(e) \in Nat  BY <1>1, <2>7 DEF CutAt
    <3>2. Emit(d, l) = Put(Released(d, CutAt(e)), l)  BY <1>1, <2>1, <2>7, <3>1, EmitIs
    <3>3. /\ Emit(d, l).headerDone = TRUE /\ Emit(d, l).headerLen = 0
          /\ Emit(d, l).hold = << >> /\ Emit(d, l).typed = e.typed \o Drop(e.hold, CutAt(e))
      <4> DEFINE f == Released(d, CutAt(e))
      <4>1. /\ f \in Emitters /\ f.headerDone = TRUE /\ f.headerLen = 0 /\ f.hold = << >>
            /\ f.typed = e.typed \o Drop(e.hold, CutAt(e))
        BY <2>5, <3>1
      <4> HIDE DEF f
      <4>2. Emit(d, l) = Put(f, l)  BY <3>2 DEF f
      <4>3. /\ Put(f, l).headerDone = f.headerDone /\ Put(f, l).headerLen = f.headerLen
            /\ Put(f, l).hold = f.hold /\ Put(f, l).typed = f.typed
        BY <1>1, <4>1, PutIs
      <4> QED  BY <4>1, <4>2, <4>3
    <3>4. CutAt(e) <= e.headerLen + Len(e.line) + 1  BY <1>1, <3>1
    <3> QED  BY <2>2, <2>7, <3>3, <3>4
  <2> QED  BY <2>3, <2>4, <2>6, <2>7
<1> QED  BY <1>2, <1>3

(* What is made of the lines does not depend on what is held back.          *)
LEMMA TakeCore ==
    ASSUME NEW d \in Emitters, NEW e \in Emitters, NEW x \in Atoms, Core(d) = Core(e)
    PROVE  Core(TakeAtom(d, x)) = Core(TakeAtom(e, x))
<1>1. /\ Page(d) = Page(e) /\ d.line = e.line /\ d.headerDone = e.headerDone
      /\ d.headerLen = e.headerLen
  BY DEF Core
<1>2. e.line \in Text /\ e.headerLen \in Nat /\ Len(e.line) \in Nat  BY DEF Emitters, Text
<1>3. CASE x # "nl"
  <2>2. /\ TakeAtom(d, x) = [d EXCEPT !.line = Append(e.line, x)]
        /\ TakeAtom(e, x) = [e EXCEPT !.line = Append(e.line, x)]
    BY <1>1, <1>3 DEF TakeAtom, Emitters
  <2>3. /\ Page(TakeAtom(d, x)) = Page(d) /\ TakeAtom(d, x).line = Append(e.line, x)
        /\ TakeAtom(d, x).headerDone = d.headerDone /\ TakeAtom(d, x).headerLen = d.headerLen
    BY <2>2 DEF Emitters, Page
  <2>4. /\ Page(TakeAtom(e, x)) = Page(e) /\ TakeAtom(e, x).line = Append(e.line, x)
        /\ TakeAtom(e, x).headerDone = e.headerDone /\ TakeAtom(e, x).headerLen = e.headerLen
    BY <2>2 DEF Emitters, Page
  <2> QED  BY <1>1, <2>3, <2>4 DEF Core
<1>4. CASE x = "nl"
  <2> DEFINE b == [d EXCEPT !.line = << >>]
             c == [e EXCEPT !.line = << >>]
             l == e.line
  <2>1. /\ b \in Emitters /\ c \in Emitters /\ Page(b) = Page(c) /\ b.line = << >> /\ c.line = << >>
        /\ b.headerDone = e.headerDone /\ c.headerDone = e.headerDone
        /\ b.headerLen = e.headerLen /\ c.headerLen = e.headerLen
    <3>1. b \in Emitters /\ c \in Emitters  BY TextEmpty DEF Emitters
    <3>2. Page(b) = Page(d) /\ Page(c) = Page(e)  BY DEF Emitters, Page
    <3> QED  BY <1>1, <3>1, <3>2 DEF Emitters
  <2>2. TakeAtom(d, x) = Emit(b, l) /\ TakeAtom(e, x) = Emit(c, l)  BY <1>1, <1>4 DEF TakeAtom
  <2> HIDE DEF b, c
  <2>3. ASSUME NEW f \in Emitters, NEW g \in Emitters, Core(f) = Core(g)
        PROVE  Core(Put(f, l)) = Core(Put(g, l))
    <3>1. /\ Page(f) = Page(g) /\ f.line = g.line /\ f.headerDone = g.headerDone
          /\ f.headerLen = g.headerLen
      BY <2>3 DEF Core
    <3>2. Page(Put(f, l)) = Page(Put(g, l))  BY <1>2, <3>1, PutSame
    <3>3. /\ Put(f, l).line = f.line /\ Put(f, l).headerDone = f.headerDone
          /\ Put(f, l).headerLen = f.headerLen
          /\ Put(g, l).line = g.line /\ Put(g, l).headerDone = g.headerDone
          /\ Put(g, l).headerLen = g.headerLen
      BY <1>2, PutIs
    <3> QED  BY <3>1, <3>2, <3>3 DEF Core
  <2>4. Core(b) = Core(c)  BY <2>1 DEF Core
  <2>5. ASSUME NEW k \in Nat
        PROVE  Released(b, k) \in Emitters /\ Released(c, k) \in Emitters
               /\ Core(Released(b, k)) = Core(Released(c, k))
    <3>1. /\ Page(Released(b, k)) = Page(b) /\ Released(b, k).line = b.line
          /\ Released(b, k).headerDone = TRUE /\ Released(b, k).headerLen = 0
      BY <2>1, ReleasedIs
    <3>2. /\ Page(Released(c, k)) = Page(c) /\ Released(c, k).line = c.line
          /\ Released(c, k).headerDone = TRUE /\ Released(c, k).headerLen = 0
      BY <2>1, ReleasedIs
    <3>3. Released(b, k) \in Emitters /\ Released(c, k) \in Emitters  BY <2>1, ReleasedIs
    <3> QED  BY <2>1, <3>1, <3>2, <3>3 DEF Core
  <2>6. CASE e.headerDone
    <3>1. Emit(b, l) = Put(b, l) /\ Emit(c, l) = Put(c, l)  BY <1>2, <2>1, <2>6, EmitIs
    <3> QED  BY <2>1, <2>2, <2>3, <2>4, <3>1
  <2>7. CASE ~e.headerDone /\ TrimSpace(l) = << >>
    <3>1. /\ Emit(b, l) = [b EXCEPT !.headerLen = e.headerLen + Len(l) + 1]
          /\ Emit(c, l) = [c EXCEPT !.headerLen = e.headerLen + Len(l) + 1]
      BY <1>2, <2>1, <2>7, EmitIs
    <3>2. ASSUME NEW f \in Emitters, NEW k
          PROVE  LET g == [f EXCEPT !.headerLen = k]
                 IN Page(g) = Page(f) /\ g.line = f.line /\ g.headerDone = f.headerDone /\ g.headerLen = k
      BY DEF Emitters, Page
    <3> QED  BY <2>1, <2>2, <3>1, <3>2 DEF Core
  <2>8. CASE ~e.headerDone /\ TrimSpace(l) # << >> /\ IsPrefixLine(l)
    <3>1. PICK k \in Nat : k = e.headerLen + Len(l) + 1  BY <1>2
    <3>2. Emit(b, l) = Released(b, k) /\ Emit(c, l) = Released(c, k)
      BY <1>2, <2>1, <2>8, <3>1, EmitIs
    <3> QED  BY <2>2, <2>5, <3>2
  <2>9. CASE ~e.headerDone /\ TrimSpace(l) # << >> /\ ~IsPrefixLine(l)
    <3>1. /\ Emit(b, l) = Put(Released(b, e.headerLen), l)
          /\ Emit(c, l) = Put(Released(c, e.headerLen), l)
      BY <1>2, <2>1, <2>9, EmitIs
    <3> QED  BY <1>2, <2>2, <2>3, <2>5, <3>1
  <2> QED  BY <2>6, <2>7, <2>8, <2>9
<1> QED  BY <1>3, <1>4

LEMMA DoneStays ==
    ASSUME NEW e \in Emitters, e.headerDone = TRUE, NEW s \in Text
    PROVE  Fold(e, s).headerDone = TRUE /\ Fold(e, s).typed = e.typed
<1> DEFINE S == {v \in Text : Fold(e, v).headerDone = TRUE /\ Fold(e, v).typed = e.typed}
<1>1. << >> \in S  BY FoldSteps, TextEmpty
<1>2. ASSUME NEW v \in Text, NEW x \in Atoms, v \in S PROVE Append(v, x) \in S
  <2> DEFINE d == Fold(e, v)
  <2>1. d \in Emitters /\ d.headerDone = TRUE /\ d.typed = e.typed  BY <1>2, FoldTypes
  <2>2. Fold(e, Append(v, x)) = TakeAtom(d, x)  BY FoldSteps
  <2> HIDE DEF d
  <2>3. TakeAtom(d, x).headerDone = d.headerDone /\ TakeAtom(d, x).typed = d.typed  BY <2>1, TakeCut
  <2> QED  BY <2>1, <2>2, <2>3, TextAppends
<1>3. Text \subseteq S
  <2> HIDE DEF S
  <2> QED  BY <1>1, <1>2, ByText
<1> QED  BY <1>3

(* An emitter that has been fed s: what it shows is what one that was given *)
(* s at once, and nothing else, shows.                                      *)
Fresh(h) == [NewEmitter EXCEPT !.hold = h]
Fed(e, s) == e \in Emitters /\ Screen(e) = Screen(Fold(Fresh(s), s))

LEMMA FreshIs ==
    ASSUME NEW h \in Text
    PROVE  /\ Fresh(h) \in Emitters /\ Fresh(h).hold = h /\ Fresh(h).typed = << >>
           /\ Fresh(h).headerDone = FALSE /\ Fresh(h).headerLen = 0 /\ Fresh(h).line = << >>
           /\ Fresh(h).lines = << >>
           /\ \A g \in Text : Core(Fresh(h)) = Core(Fresh(g))
<1>1. << >> \in Seq(Text)  OBVIOUS
<1>2. NewEmitter \in Emitters  BY <1>1, TextEmpty DEF NewEmitter, Emitters
<1>3. ASSUME NEW g \in Text
      PROVE  /\ Fresh(g) \in Emitters /\ Fresh(g).hold = g
             /\ Fresh(g).typed = NewEmitter.typed /\ Fresh(g).headerDone = NewEmitter.headerDone
             /\ Fresh(g).headerLen = NewEmitter.headerLen /\ Fresh(g).line = NewEmitter.line
             /\ Fresh(g).lines = NewEmitter.lines /\ Page(Fresh(g)) = Page(NewEmitter)
  BY <1>2 DEF Fresh, Emitters, Page
<1>4. \A g \in Text : Core(Fresh(h)) = Core(Fresh(g))  BY <1>3 DEF Core
<1>5. /\ NewEmitter.typed = << >> /\ NewEmitter.headerDone = FALSE /\ NewEmitter.headerLen = 0
      /\ NewEmitter.line = << >> /\ NewEmitter.lines = << >>
  BY DEF NewEmitter
<1> QED  BY <1>3, <1>4, <1>5

(* After s: not done, and everything is held back; or done, and all but the *)
(* first k atoms of what was held back are out.                             *)
CutIs(k, s) ==
    \A h \in Text :
        LET r == Fold(Fresh(h), s) IN
        /\ Core(r) = Core(Fold(Fresh(<< >>), s))
        /\ ~r.headerDone => r.hold = h /\ r.typed = << >> /\ r.headerLen + Len(r.line) = Len(s)
        /\ r.headerDone => r.hold = << >> /\ r.typed = Drop(h, k)

LEMMA CutStays ==
    ASSUME NEW s \in Text, NEW k \in Nat, k <= Len(s), CutIs(k, s), NEW x \in Atoms
    PROVE  \E j \in Nat : j <= Len(s) + 1 /\ CutIs(j, Append(s, x))
<1> DEFINE F(h) == Fold(Fresh(h), s)
           R(h) == TakeAtom(F(h), x)
<1>1. ASSUME NEW h \in Text PROVE F(h) \in Emitters  BY FreshIs, FoldTypes
<1>2. ASSUME NEW h \in Text PROVE Fold(Fresh(h), Append(s, x)) = R(h)  BY FoldSteps
<1>3. /\ Append(s, x) \in Text /\ Len(Append(s, x)) = Len(s) + 1 /\ Len(s) \in Nat
      /\ << >> \in Text
  BY TextAppends, TextEmpty
<1>4. ASSUME NEW h \in Text
      PROVE  /\ Core(F(h)) = Core(F(<< >>))
             /\ F(h).headerDone = F(<< >>).headerDone /\ F(h).headerLen = F(<< >>).headerLen
             /\ F(h).line = F(<< >>).line
             /\ ~F(h).headerDone => F(h).hold = h /\ F(h).typed = << >>
                                    /\ F(h).headerLen + Len(F(h).line) = Len(s)
             /\ F(h).headerDone => F(h).hold = << >> /\ F(h).typed = Drop(h, k)
  BY DEF CutIs, Core
<1> HIDE DEF F
<1>5. ASSUME NEW h \in Text
      PROVE  /\ Core(R(h)) = Core(R(<< >>)) /\ R(h).headerDone = R(<< >>).headerDone
  <2>1. Core(R(h)) = Core(R(<< >>))  BY <1>1, <1>3, <1>4, TakeCore
  <2> QED  BY <2>1 DEF Core
<1>6. ASSUME NEW h \in Text
      PROVE  /\ F(h).headerDone => /\ R(h).headerDone = F(h).headerDone /\ R(h).headerLen = F(h).headerLen
                                   /\ R(h).hold = F(h).hold /\ R(h).typed = F(h).typed
             /\ ~F(h).headerDone /\ ~R(h).headerDone =>
                   /\ R(h).headerLen + Len(R(h).line) = F(h).headerLen + Len(F(h).line) + 1
                   /\ R(h).hold = F(h).hold /\ R(h).typed = F(h).typed
             /\ ~F(h).headerDone /\ R(h).headerDone =>
                   /\ R(h).headerLen = 0 /\ R(h).hold = << >>
                   /\ R(h).typed = F(h).typed \o Drop(F(h).hold, CutAt(F(h)))
                   /\ CutAt(F(h)) <= F(h).headerLen + Len(F(h).line) + 1
  BY <1>1, TakeCut
<1> HIDE DEF R
<1> DEFINE c == F(<< >>)
<1>7. CASE c.headerDone
  <2>1. ASSUME NEW h \in Text
        PROVE  /\ Core(R(h)) = Core(R(<< >>)) /\ R(h).headerDone
               /\ R(h).hold = << >> /\ R(h).typed = Drop(h, k)
    BY <1>4, <1>5, <1>6, <1>7
  <2>2. CutIs(k, Append(s, x))  BY <1>2, <1>3, <2>1 DEF CutIs
  <2>3. k <= Len(s) + 1  BY <1>3
  <2> QED  BY <2>2, <2>3
<1>8. CASE ~c.headerDone /\ ~R(<< >>).headerDone
  <2>1. ASSUME NEW h \in Text
        PROVE  /\ Core(R(h)) = Core(R(<< >>)) /\ ~R(h).headerDone
               /\ R(h).hold = h /\ R(h).typed = << >>
               /\ R(h).headerLen + Len(R(h).line) = Len(s) + 1
    BY <1>4, <1>5, <1>6, <1>8
  <2>2. CutIs(k, Append(s, x))  BY <1>2, <1>3, <2>1 DEF CutIs
  <2>3. k <= Len(s) + 1  BY <1>3
  <2> QED  BY <2>2, <2>3
<1>9. CASE ~c.headerDone /\ R(<< >>).headerDone
  <2> DEFINE j == CutAt(c)
  <2>1. c.headerLen \in Nat /\ c.line \in Text /\ Len(c.line) \in Nat
    <3>1. c \in Emitters  BY <1>1, <1>3
    <3> HIDE DEF c
    <3> QED  BY <3>1 DEF Emitters, Text
  <2>2. j \in Nat  BY <2>1 DEF CutAt
  <2>3. j <= Len(s) + 1  BY <1>3, <1>4, <1>6, <1>9
  <2>4. ASSUME NEW h \in Text PROVE CutAt(F(h)) = j  BY <1>4 DEF CutAt
  <2> HIDE DEF j
  <2>5. ASSUME NEW h \in Text
        PROVE  /\ Core(R(h)) = Core(R(<< >>)) /\ R(h).headerDone
               /\ R(h).hold = << >> /\ R(h).typed = Drop(h, j)
    <3>1. ~F(h).headerDone /\ R(h).headerDone /\ F(h).hold = h /\ F(h).typed = << >>
      BY <1>4, <1>5, <1>9
    <3>2. R(h).hold = << >> /\ R(h).typed = << >> \o Drop(h, j)  BY <1>6, <2>4, <3>1
    <3>3. << >> \o Drop(h, j) = Drop(h, j)  BY <2>2, DropType DEF Text
    <3> QED  BY <1>5, <3>1, <3>2, <3>3
  <2>6. CutIs(j, Append(s, x))  BY <1>2, <1>3, <2>5 DEF CutIs
  <2> QED  BY <2>2, <2>3, <2>6
<1> QED  BY <1>7, <1>8, <1>9

LEMMA HeaderCut ==
    ASSUME NEW s \in Text
    PROVE  \E k \in Nat : k <= Len(s) /\ CutIs(k, s)
<1> DEFINE S == {v \in Text : \E k \in Nat : k <= Len(v) /\ CutIs(k, v)}
<1>1. << >> \in S
  <2>1. ASSUME NEW h \in Text
        PROVE  LET r == Fold(Fresh(h), << >>)
               IN /\ Core(r) = Core(Fold(Fresh(<< >>), << >>)) /\ ~r.headerDone
                  /\ r.hold = h /\ r.typed = << >> /\ r.headerLen + Len(r.line) = Len(<< >>)
    <3>1. Fold(Fresh(h), << >>) = Fresh(h) /\ Fold(Fresh(<< >>), << >>) = Fresh(<< >>)
      BY FoldSteps
    <3>2. Core(Fresh(h)) = Core(Fresh(<< >>))  BY FreshIs, TextEmpty
    <3>3. /\ Fresh(h).hold = h /\ Fresh(h).typed = << >> /\ Fresh(h).headerDone = FALSE
          /\ Fresh(h).headerLen = 0 /\ Fresh(h).line = << >>
      BY FreshIs
    <3> QED  BY <3>1, <3>2, <3>3, TextEmpty
  <2>2. CutIs(0, << >>)  BY <2>1 DEF CutIs
  <2> QED  BY <2>2, TextEmpty
<1>2. ASSUME NEW v \in Text, NEW x \in Atoms, v \in S PROVE Append(v, x) \in S
  BY <1>2, CutStays, TextAppends
<1>3. Text \subseteq S
  <2> HIDE DEF S
  <2> QED  BY <1>1, <1>2, ByText
<1> QED  BY <1>3

LEMMA DropMore ==
    ASSUME NEW s \in Text, NEW t \in Text, NEW k \in Nat, k <= Len(s)
    PROVE  Drop(s, k) \o t = Drop(s \o t, k)
<1>1. s \o t \in Text /\ Len(s \o t) = Len(s) + Len(t) /\ Len(s) \in Nat /\ Len(t) \in Nat
  BY DEF Text
<1>2. << >> \o t = t /\ s \o << >> = s  BY DEF Text
<1>3. CASE k = Len(s)
  <2>1. Drop(s, k) = << >>  BY <1>1, <1>3 DEF Drop
  <2>2. CASE t = << >>
    <3>1. s \o t = s  BY <1>2, <2>2
    <3> QED  BY <1>2, <2>1, <2>2, <3>1
  <2>3. CASE t # << >>
    <3>1. Len(t) > 0  BY <2>3 DEF Text
    <3>2. Drop(s \o t, k) = SubSeq(s \o t, Len(s) + 1, Len(s) + Len(t))
      BY <1>1, <1>3, <3>1 DEF Drop, From
    <3>3. SubSeq(s \o t, Len(s) + 1, Len(s) + Len(t)) = t  BY DEF Text
    <3> QED  BY <1>2, <2>1, <3>2, <3>3
  <2> QED  BY <2>2, <2>3
<1>4. CASE k < Len(s)
  <2>1. Drop(s, k) = SubSeq(s, k + 1, Len(s))  BY <1>1, <1>4 DEF Drop, From
  <2>2. Drop(s \o t, k) = SubSeq(s \o t, k + 1, Len(s) + Len(t))  BY <1>1, <1>4 DEF Drop, From
  <2>3. SubSeq(s, k + 1, Len(s)) \o t = SubSeq(s \o t, k + 1, Len(s) + Len(t))
    <3> DEFINE a == SubSeq(s, k + 1, Len(s))
               u == s \o t
               c == SubSeq(u, k + 1, Len(s) + Len(t))
    <3>1. /\ a \in Text /\ Len(a) = Len(s) - k
          /\ \A i \in 1 .. Len(s) - k : a[i] = s[k + i]
      BY <1>1, <1>4 DEF Text
    <3>2. /\ c \in Text /\ Len(c) = Len(s) + Len(t) - k
          /\ \A i \in 1 .. Len(s) + Len(t) - k : c[i] = u[k + i]
      BY <1>1, <1>4 DEF Text
    <3>3. /\ a \o t \in Text /\ Len(a \o t) = Len(a) + Len(t)
          /\ \A i \in 1 .. Len(a) : (a \o t)[i] = a[i]
          /\ \A i \in Len(a) + 1 .. Len(a) + Len(t) : (a \o t)[i] = t[i - Len(a)]
      BY <3>1 DEF Text
    <3>4. /\ \A i \in 1 .. Len(s) : u[i] = s[i]
          /\ \A i \in Len(s) + 1 .. Len(s) + Len(t) : u[i] = t[i - Len(s)]
      BY DEF Text
    <3> HIDE DEF a, u, c
    <3>5. Len(a \o t) = Len(c)  BY <1>1, <1>4, <3>1, <3>2, <3>3
    <3>6. ASSUME NEW i \in 1 .. Len(c) PROVE (a \o t)[i] = c[i]
      <4>1. CASE i <= Len(s) - k
        <5>1. i \in 1 .. Len(a) /\ k + i \in 1 .. Len(s)  BY <1>1, <1>4, <3>1, <4>1
        <5> QED  BY <1>1, <1>4, <3>1, <3>2, <3>3, <3>4, <5>1
      <4>2. CASE i > Len(s) - k
        <5>1. i \in Len(a) + 1 .. Len(a) + Len(t) /\ k + i \in Len(s) + 1 .. Len(s) + Len(t)
          BY <1>1, <1>4, <3>1, <3>2, <4>2
        <5>2. i - Len(a) = (k + i) - Len(s)  BY <1>1, <3>1
        <5> QED  BY <3>2, <3>3, <3>4, <5>1, <5>2
      <4>3. i <= Len(s) - k \/ i > Len(s) - k
        <5>1. i \in Int /\ Len(s) - k \in Int  BY <1>1, <3>2
        <5> QED  BY <5>1
      <4> QED  BY <4>1, <4>2, <4>3
    <3>7. a \o t = c
      <4> DEFINE b == a \o t
      <4>1. b \in Seq(Atoms) /\ c \in Seq(Atoms) /\ Len(b) = Len(c) /\ \A i \in 1 .. Len(c) : b[i] = c[i]
        BY <3>2, <3>3, <3>5, <3>6 DEF Text
      <4> HIDE DEF b
      <4>2. b = c  BY <4>1
      <4> QED  BY <4>2 DEF b
    <3> QED  BY <3>7 DEF a, u, c
  <2> QED  BY <2>1, <2>2, <2>3
<1> QED  BY <1>1, <1>3, <1>4

(* Being fed in two pieces is being fed at once.                            *)
LEMMA FeedMore ==
    ASSUME NEW e, NEW s \in Text, NEW t \in Text, Fed(e, s)
    PROVE  Fed(Feed(e, t), s \o t) /\ Mind(Feed(e, t)) = Mind(e)
<1> DEFINE b == IF e.headerDone THEN [e EXCEPT !.typed = e.typed \o t]
                                ELSE [e EXCEPT !.hold = e.hold \o t]
           u == s \o t
           w == Fold(Fresh(u), s)
           r == Fold(Fresh(s), s)
<1>1. e \in Emitters /\ Screen(e) = Screen(r)  BY DEF Fed
<1>2. u \in Text  BY DEF Text
<1>3. PICK k \in Nat : k <= Len(s) /\ CutIs(k, s)  BY HeaderCut
<1>4. w \in Emitters /\ r \in Emitters  BY <1>2, FreshIs, FoldTypes
<1>5. /\ Core(w) = Core(r)
      /\ ~r.headerDone => r.hold = s /\ r.typed = << >> /\ w.hold = u /\ w.typed = << >>
      /\ r.headerDone => r.hold = << >> /\ r.typed = Drop(s, k) /\ w.hold = << >> /\ w.typed = Drop(u, k)
  <2>1. /\ Core(w) = Core(Fold(Fresh(<< >>), s)) /\ Core(r) = Core(Fold(Fresh(<< >>), s))
    BY <1>2, <1>3 DEF CutIs
  <2>2. w.headerDone = r.headerDone  BY <2>1 DEF Core
  <2> HIDE DEF Core
  <2> QED  BY <1>2, <1>3, <2>1, <2>2 DEF CutIs
<1>6. /\ Page(e) = Page(r) /\ e.line = r.line /\ e.headerDone = r.headerDone
      /\ e.headerLen = r.headerLen /\ e.hold = r.hold /\ e.typed = r.typed
      /\ Page(w) = Page(r) /\ w.line = r.line /\ w.headerDone = r.headerDone
      /\ w.headerLen = r.headerLen
  BY <1>1, <1>5 DEF Screen, Core
<1> HIDE DEF w, r
<1>7. /\ b \in Emitters /\ Mind(b) = Mind(e) /\ Page(b) = Page(e) /\ b.line = e.line
      /\ b.headerDone = e.headerDone /\ b.headerLen = e.headerLen
      /\ e.headerDone => b.hold = e.hold /\ b.typed = e.typed \o t
      /\ ~e.headerDone => b.hold = e.hold \o t /\ b.typed = e.typed
  <2>1. e.typed \o t \in Text /\ e.hold \o t \in Text  BY <1>1 DEF Emitters, Text
  <2>2. CASE e.headerDone  BY <1>1, <2>1, <2>2 DEF Emitters, Mind, Page
  <2>3. CASE ~e.headerDone  BY <1>1, <2>1, <2>3 DEF Emitters, Mind, Page
  <2> QED  BY <2>2, <2>3
<1>8. Feed(e, t) = Fold(b, t)  BY DEF Feed, Fold
<1> HIDE DEF b
<1>9. b.hold = w.hold /\ b.typed = w.typed
  <2>1. CASE e.headerDone
    <3>1. Drop(s, k) \o t = Drop(u, k)  BY <1>3, DropMore
    <3>2. b.hold = << >> /\ w.hold = << >>  BY <1>5, <1>6, <1>7, <2>1
    <3>3. b.typed = Drop(s, k) \o t /\ w.typed = Drop(u, k)  BY <1>5, <1>6, <1>7, <2>1
    <3> QED  BY <3>1, <3>2, <3>3
  <2>2. CASE ~e.headerDone  BY <1>5, <1>6, <1>7, <2>2
  <2> QED  BY <2>1, <2>2
<1>10. Screen(b) = Screen(w)  BY <1>6, <1>7, <1>9 DEF Screen
<1>11. Screen(Fold(b, t)) = Screen(Fold(w, t))  BY <1>4, <1>7, <1>10, FoldSame
<1>12. Fold(w, t) = Fold(Fresh(u), u)  BY FoldSteps DEF w
<1>13. Fold(b, t) \in Emitters /\ Mind(Fold(b, t)) = Mind(e)  BY <1>7, FoldTypes
<1> QED  BY <1>8, <1>11, <1>12, <1>13 DEF Fed

Begins(s, t) == Len(s) <= Len(t) /\ \A i \in 1 .. Len(s) : s[i] = t[i]

LEMMA BeginsIs ==
    ASSUME NEW A, NEW s \in Seq(A), NEW t \in Seq(A)
    PROVE  /\ Begins(s, t) => IsPrefix(s, t)
           /\ Begins(s, s \o t)
           /\ \A u \in Seq(A) : Begins(s, t) /\ Begins(t, u) => Begins(s, u)
<1>1. Begins(s, t) => IsPrefix(s, t)
  <2> SUFFICES ASSUME Begins(s, t) PROVE IsPrefix(s, t)  OBVIOUS
  <2>1. SubSeq(s, 1, Len(s)) = SubSeq(t, 1, Len(s))
    <3>1. Len(s) \in Nat /\ Len(s) <= Len(t) /\ \A i \in 1 .. Len(s) : s[i] = t[i]  BY DEF Begins
    <3>2. SubSeq(s, 1, Len(s)) = [i \in 1 .. Len(s) |-> s[i]]  OBVIOUS
    <3>3. SubSeq(t, 1, Len(s)) = [i \in 1 .. Len(s) |-> t[i]]  BY <3>1
    <3> QED  BY <3>1, <3>2, <3>3
  <2> QED  BY <2>1 DEF Begins, IsPrefix
<1>2. Begins(s, s \o t)  BY DEF Begins
<1>3. \A u \in Seq(A) : Begins(s, t) /\ Begins(t, u) => Begins(s, u)  BY DEF Begins
<1> QED  BY <1>1, <1>2, <1>3

(* What is shown of a text begins what is shown of a longer one.            *)
LEMMA FedGrows ==
    ASSUME NEW s \in Text, NEW t \in Text, NEW d, NEW e, Fed(d, s), Fed(e, s \o t)
    PROVE  Begins(d.lines, e.lines) /\ Begins(d.typed, e.typed)
<1> DEFINE u == s \o t
           w == Fold(Fresh(u), s)
           r == Fold(Fresh(s), s)
           v == Fold(Fresh(u), u)
<1>1. d \in Emitters /\ e \in Emitters /\ Screen(d) = Screen(r) /\ Screen(e) = Screen(v)
  BY DEF Fed
<1>2. u \in Text  BY DEF Text
<1>3. PICK k \in Nat : k <= Len(s) /\ CutIs(k, s)  BY HeaderCut
<1>4. w \in Emitters /\ r \in Emitters  BY <1>2, FreshIs, FoldTypes
<1>5. /\ Core(w) = Core(r)
      /\ ~r.headerDone => r.hold = s /\ r.typed = << >> /\ w.hold = u /\ w.typed = << >>
      /\ r.headerDone => r.hold = << >> /\ r.typed = Drop(s, k) /\ w.hold = << >> /\ w.typed = Drop(u, k)
  <2>1. /\ Core(w) = Core(Fold(Fresh(<< >>), s)) /\ Core(r) = Core(Fold(Fresh(<< >>), s))
    BY <1>2, <1>3 DEF CutIs
  <2>2. w.headerDone = r.headerDone  BY <2>1 DEF Core
  <2> HIDE DEF Core
  <2> QED  BY <1>2, <1>3, <2>1, <2>2 DEF CutIs
<1>6. v = Fold(w, t)  BY FoldSteps
<1> HIDE DEF w, r, v
<1>7. d.lines = r.lines /\ d.typed = r.typed /\ e.lines = v.lines /\ e.typed = v.typed /\ w.lines = r.lines
  BY <1>1, <1>5 DEF Screen, Core, Page
<1>8. PICK more \in Seq(Text) : v.lines = w.lines \o more  BY <1>4, <1>6, FoldTypes
<1>9. Begins(d.lines, e.lines)
  <2>1. d.lines \in Seq(Text)  BY <1>1 DEF Emitters
  <2> QED  BY <1>7, <1>8, <2>1, BeginsIs
<1>10. Begins(d.typed, e.typed)
  <2>1. CASE ~r.headerDone  BY <1>5, <1>7, <2>1, TextEmpty DEF Begins
  <2>2. CASE r.headerDone
    <3>1. w.headerDone = TRUE  BY <1>1, <1>4, <1>5, <2>2 DEF Core, Emitters
    <3>2. v.typed = w.typed  BY <1>4, <1>6, <3>1, DoneStays
    <3>3. Drop(u, k) = Drop(s, k) \o t  BY <1>3, DropMore
    <3>4. Drop(s, k) \in Text  BY DropType
    <3>5. Begins(Drop(s, k), Drop(s, k) \o t)  BY <3>4, BeginsIs DEF Text
    <3> QED  BY <1>5, <1>7, <2>2, <3>2, <3>3, <3>5
  <2> QED  BY <2>1, <2>2
<1> QED  BY <1>9, <1>10

-----------------------------------------------------------------------------
(* Tags and blanks.                                                         *)

LEMMA StartsIs ==
    ASSUME NEW s \in Text, NEW a, NEW b
    PROVE  Starts(s, << a, b >>) <=> Len(s) >= 2 /\ s[1] = a /\ s[2] = b
<1>1. CASE Len(s) >= 2
  <2>1. SubSeq(s, 1, 2) = << s[1], s[2] >>
    <3>1. /\ SubSeq(s, 1, 2) \in Seq(Atoms) /\ Len(SubSeq(s, 1, 2)) = 2
          /\ SubSeq(s, 1, 2)[1] = s[1] /\ SubSeq(s, 1, 2)[2] = s[2]
      BY <1>1 DEF Text
    <3>2. << s[1], s[2] >> \in Seq(Atoms) /\ Len(<< s[1], s[2] >>) = 2  BY <1>1 DEF Text
    <3>3. \A i \in 1 .. 2 : SubSeq(s, 1, 2)[i] = << s[1], s[2] >>[i]
      <4>1. \A i \in 1 .. 2 : i = 1 \/ i = 2  OBVIOUS
      <4> QED  BY <3>1, <4>1
    <3> QED  BY <3>1, <3>2, <3>3, SeqEqual
  <2>2. Len(<< a, b >>) = 2  OBVIOUS
  <2>3. << s[1], s[2] >> = << a, b >> <=> s[1] = a /\ s[2] = b  OBVIOUS
  <2> QED  BY <1>1, <2>1, <2>2, <2>3 DEF Starts
<1>2. CASE ~(Len(s) >= 2)  BY <1>2 DEF Starts
<1> QED  BY <1>1, <1>2

LEMMA PlacesIs ==
    ASSUME NEW s \in Text, NEW a, NEW b
    PROVE  Places(s, << a, b >>) = {i \in 1 .. Len(s) - 1 : s[i] = a /\ s[i + 1] = b}
<1>1. Len(<< a, b >>) = 2 /\ Len(s) \in Nat /\ Len(s) - 2 + 1 = Len(s) - 1  BY DEF Text
<1>2. ASSUME NEW i \in 1 .. Len(s) - 1
      PROVE  Starts(From(s, i), << a, b >>) <=> s[i] = a /\ s[i + 1] = b
  <2>1. i \in Nat \ {0} /\ i <= Len(s) + 1 /\ 1 \in 1 .. Len(s) - i + 1 /\ 2 \in 1 .. Len(s) - i + 1
    BY <1>1
  <2>2. /\ From(s, i) \in Text /\ Len(From(s, i)) = Len(s) - i + 1
        /\ From(s, i)[1] = s[i + 1 - 1] /\ From(s, i)[2] = s[i + 2 - 1]
    BY <2>1, FromIs
  <2>3. i + 1 - 1 = i /\ i + 2 - 1 = i + 1 /\ Len(s) - i + 1 >= 2  BY <1>1
  <2> QED  BY <2>2, <2>3, StartsIs
<1> QED  BY <1>1, <1>2 DEF Places

LEMMA TrimSpaceIs ==
    ASSUME NEW s \in Text
    PROVE  /\ Words(s) = {} => TrimSpace(s) = << >>
           /\ Words(s) # {} =>
                 \E b \in Words(s) :
                     /\ \A i \in Words(s) : i <= b
                     /\ Len(TrimSpace(s)) = b - Min(Words(s)) + 1
                     /\ \A i \in 1 .. b - Min(Words(s)) + 1 : TrimSpace(s)[i] = s[Min(Words(s)) + i - 1]
<1>1. CASE Words(s) = {}
  <2>1. TrimLeft(s) = << >>  BY <1>1, TrimLeftIs
  <2>2. Reverse(<< >>) = << >>
    <3>1. Reverse(<< >>) \in Text /\ Len(Reverse(<< >>)) = 0  BY TextEmpty, ReverseIs
    <3> QED  BY <3>1 DEF Text
  <2>3. TrimLeft(<< >>) = << >>
    <3>1. Words(<< >>) = {}  BY DEF Words
    <3> QED  BY <3>1, TextEmpty, TrimLeftIs
  <2> QED  BY <1>1, <2>1, <2>2, <2>3 DEF TrimSpace
<1>2. CASE Words(s) # {}
  <2> DEFINE a == Min(Words(s))
             T == TrimLeft(s)
             L == Len(T)
             R == Reverse(T)
             c == Min(Words(R))
             U == TrimLeft(R)
             b == a + L - c
  <2>1. a \in Words(s) /\ a \in 1 .. Len(s) /\ (\A i \in Words(s) : a <= i) /\ T = From(s, a) /\ T \in Text
    BY <1>2, TrimLeftIs
  <2>2. Len(s) \in Nat  BY DEF Text
  <2> HIDE DEF a
  <2>3. L = Len(s) - a + 1 /\ L \in Nat /\ \A i \in 1 .. L : T[i] = s[a + i - 1]
    <3>1. a \in Nat \ {0} /\ a <= Len(s) + 1  BY <2>1, <2>2
    <3>2. Len(From(s, a)) = Len(s) - a + 1 /\ \A i \in 1 .. Len(s) - a + 1 : From(s, a)[i] = s[a + i - 1]
      BY <3>1, FromIs
    <3>3. Len(s) - a + 1 \in Nat  BY <2>1, <2>2
    <3> QED  BY <2>1, <3>2, <3>3
  <2> HIDE DEF T
  <2>4. R \in Text /\ Len(R) = L /\ \A i \in 1 .. L : R[i] = T[L - i + 1]
    BY <2>1, ReverseIs
  <2> HIDE DEF R, L
  <2>5. \A i \in 1 .. L : L - i + 1 \in 1 .. L /\ a + (L - i + 1) - 1 = a + L - i
    BY <2>1, <2>3
  <2>6. \A i \in 1 .. L : R[i] = s[a + L - i]  BY <2>3, <2>4, <2>5
  <2>7. \A i \in 1 .. L : i \in Words(R) <=> a + L - i \in Words(s)
    <3>1. \A i \in 1 .. L : a + L - i \in 1 .. Len(s)  BY <2>1, <2>2, <2>3
    <3> QED  BY <2>4, <2>6, <3>1 DEF Words
  <2>8. L \in 1 .. L /\ a + L - L = a /\ L \in Words(R)
    <3>1. L \in 1 .. L /\ a + L - L = a  BY <2>1, <2>2, <2>3
    <3> QED  BY <2>1, <2>7, <3>1
  <2>9. c \in Words(R) /\ c \in 1 .. L /\ (\A i \in Words(R) : c <= i) /\ U = From(R, c) /\ U \in Text
    BY <2>4, <2>8, TrimLeftIs
  <2> HIDE DEF c
  <2>10. Len(U) = L - c + 1 /\ \A i \in 1 .. L - c + 1 : U[i] = R[c + i - 1]
    <3>1. c \in Nat \ {0} /\ c <= L + 1  BY <2>3, <2>9
    <3>2. Len(From(R, c)) = Len(R) - c + 1 /\ \A i \in 1 .. Len(R) - c + 1 : From(R, c)[i] = R[c + i - 1]
      BY <2>4, <3>1, FromIs
    <3> QED  BY <2>4, <2>9, <3>2
  <2> HIDE DEF U
  <2>11. /\ TrimSpace(s) = Reverse(U) /\ Len(Reverse(U)) = L - c + 1
         /\ \A i \in 1 .. L - c + 1 : Reverse(U)[i] = U[L - c + 1 - i + 1]
    <3>1. TrimSpace(s) = Reverse(U)  BY DEF TrimSpace, U, R, T
    <3>2. /\ Len(Reverse(U)) = Len(U)
          /\ \A i \in 1 .. Len(U) : Reverse(U)[i] = U[Len(U) - i + 1]
      BY <2>9, ReverseIs
    <3>3. PICK k : k = Len(U)  OBVIOUS
    <3>4. k = L - c + 1  BY <2>10, <3>3
    <3>5. \A i \in 1 .. k : Reverse(U)[i] = U[k - i + 1]  BY <3>2, <3>3
    <3>6. \A i \in 1 .. L - c + 1 : Reverse(U)[i] = U[L - c + 1 - i + 1]  BY <2>3, <2>9, <3>4, <3>5
    <3> QED  BY <3>1, <3>2, <3>3, <3>4, <3>6
  <2>12. ASSUME NEW i \in 1 .. L - c + 1 PROVE TrimSpace(s)[i] = s[a + i - 1]
    <3>1. L - c + 1 - i + 1 \in 1 .. L - c + 1  BY <2>3, <2>9
    <3>2. c + (L - c + 1 - i + 1) - 1 = L - i + 1 /\ L - i + 1 \in 1 .. L  BY <2>3, <2>9
    <3>3. a + L - (L - i + 1) = a + i - 1  BY <2>1, <2>3
    <3>4. TrimSpace(s)[i] = R[L - i + 1]  BY <2>10, <2>11, <3>1, <3>2
    <3>5. R[L - i + 1] = s[a + L - (L - i + 1)]  BY <2>6, <3>2
    <3> QED  BY <3>3, <3>4, <3>5
  <2>13. b \in Words(s)  BY <2>7, <2>9
  <2>14. b - a + 1 = L - c + 1  BY <2>1, <2>3, <2>9
  <2>15. ASSUME NEW i \in Words(s) PROVE i <= b
    <3>1. i \in 1 .. Len(s) /\ a <= i  BY <2>1 DEF Words
    <3>2. a + L - i \in 1 .. L /\ a + L - (a + L - i) = i  BY <2>1, <2>2, <2>3, <3>1
    <3>3. a + L - i \in Words(R)  BY <2>7, <3>2
    <3>4. c <= a + L - i  BY <2>9, <3>3
    <3> QED  BY <2>1, <2>3, <2>9, <3>1, <3>4
  <2> HIDE DEF b
  <2>16. Len(TrimSpace(s)) = b - a + 1 /\ \A i \in 1 .. b - a + 1 : TrimSpace(s)[i] = s[a + i - 1]
    BY <2>11, <2>12, <2>14
  <2> QED  BY <1>2, <2>13, <2>15, <2>16 DEF a
<1> QED  BY <1>1, <1>2

Bits(s) == {b \in (1 .. Len(s)) \X (1 .. 9) : b[2] <= Size(s[b[1]])}

LEMMA CountUpto ==
    ASSUME NEW n \in Nat
    PROVE  IsFiniteSet(1 .. n) /\ Cardinality(1 .. n) = n
  BY FS_Interval

LEMMA BytesGrow ==
    ASSUME NEW s \in Text, NEW t \in Text, Begins(s, t)
    PROVE  Bytes(s) \in Nat /\ Bytes(t) \in Nat /\ Bytes(s) <= Bytes(t) /\ Bytes(<< >>) = 0
<1>1. ASSUME NEW u \in Text PROVE IsFiniteSet(Bits(u)) /\ Bytes(u) = Cardinality(Bits(u)) /\ Bytes(u) \in Nat
  <2>1. IsFiniteSet(1 .. Len(u)) /\ IsFiniteSet(1 .. 9)
    <3>1. Len(u) \in Nat  BY DEF Text
    <3> QED  BY <3>1, CountUpto
  <2>2. IsFiniteSet((1 .. Len(u)) \X (1 .. 9))  BY <2>1, FS_Product
  <2>3. Bits(u) \subseteq (1 .. Len(u)) \X (1 .. 9)  BY DEF Bits
  <2>4. IsFiniteSet(Bits(u))  BY <2>2, <2>3, FS_Subset
  <2>5. Cardinality(Bits(u)) \in Nat  BY <2>4, FS_CardinalityType
  <2> QED  BY <2>4, <2>5 DEF Bytes, Bits
<1>2. Bits(s) \subseteq Bits(t)
  <2>1. Len(s) \in Nat /\ Len(t) \in Nat /\ Len(s) <= Len(t) /\ \A i \in 1 .. Len(s) : s[i] = t[i]
    BY DEF Begins, Text
  <2>2. 1 .. Len(s) \subseteq 1 .. Len(t)  BY <2>1
  <2>3. ASSUME NEW b \in Bits(s) PROVE b \in Bits(t)
    <3>1. b \in (1 .. Len(s)) \X (1 .. 9) /\ b[2] <= Size(s[b[1]])  BY DEF Bits
    <3>2. b[1] \in 1 .. Len(s)  BY <3>1
    <3>3. s[b[1]] = t[b[1]]  BY <2>1, <3>2
    <3>4. b \in (1 .. Len(t)) \X (1 .. 9)  BY <2>2, <3>1
    <3> QED  BY <3>1, <3>3, <3>4 DEF Bits
  <2> QED  BY <2>3
<1>3. Cardinality(Bits(s)) <= Cardinality(Bits(t))  BY <1>1, <1>2, FS_Subset
<1>4. Bits(<< >>) = {}
  <2>1. 1 .. Len(<< >>) = {}  OBVIOUS
  <2> QED  BY <2>1 DEF Bits
<1> QED  BY <1>1, <1>3, <1>4, TextEmpty, FS_EmptySet

(* The first half of <think> is not enough to decide, the whole of it is.   *)
LEMMA ThinkBytes ==
    ASSUME NEW s \in Text, Len(s) >= 1, s[1] = "think1"
    PROVE  /\ Len(s) = 1 => Bytes(s) < 7
           /\ Len(s) >= 2 /\ s[2] = "think2" => Bytes(s) >= 7
<1> DEFINE A == {1} \X (1 .. 4)
           B == {2} \X (1 .. 3)
<1>1. IsFiniteSet(A) /\ Cardinality(A) = 4 /\ IsFiniteSet(B) /\ Cardinality(B) = 3
  <2>1. IsFiniteSet(1 .. 4) /\ Cardinality(1 .. 4) = 4 /\ IsFiniteSet(1 .. 3) /\ Cardinality(1 .. 3) = 3
    BY CountUpto
  <2>2. /\ IsFiniteSet({1}) /\ Cardinality({1}) = 1
        /\ IsFiniteSet({2}) /\ Cardinality({2}) = 1
    BY FS_Singleton
  <2>3. Cardinality(A) = Cardinality({1}) * Cardinality(1 .. 4) /\ IsFiniteSet(A)  BY <2>1, <2>2, FS_Product
  <2>4. Cardinality(B) = Cardinality({2}) * Cardinality(1 .. 3) /\ IsFiniteSet(B)  BY <2>1, <2>2, FS_Product
  <2>5. 1 * 4 = 4 /\ 1 * 3 = 3  OBVIOUS
  <2> QED  BY <2>1, <2>2, <2>3, <2>4, <2>5
<1>2. Size("think1") = 4 /\ Size("think2") = 3  BY DEF Size
<1>3. Len(s) = 1 => Bytes(s) < 7
  <2> SUFFICES ASSUME Len(s) = 1 PROVE Bytes(s) < 7  OBVIOUS
  <2>1. ASSUME NEW b \in Bits(s) PROVE b \in A
    <3>1. b \in (1 .. 1) \X (1 .. 9) /\ b[2] <= Size(s[b[1]])  BY DEF Bits
    <3>2. b[1] = 1 /\ b[2] \in 1 .. 9 /\ b = << b[1], b[2] >>  BY <3>1
    <3>3. b[2] <= 4  BY <1>2, <3>1, <3>2
    <3> QED  BY <3>2, <3>3
  <2>2. Bits(s) \subseteq A  BY <2>1
  <2>3. Cardinality(Bits(s)) <= Cardinality(A) /\ IsFiniteSet(Bits(s))  BY <1>1, <2>2, FS_Subset
  <2>4. Bytes(s) = Cardinality(Bits(s)) /\ Bytes(s) \in Nat  BY <2>3, FS_CardinalityType DEF Bytes, Bits
  <2> QED  BY <1>1, <2>3, <2>4
<1>4. Len(s) >= 2 /\ s[2] = "think2" => Bytes(s) >= 7
  <2> SUFFICES ASSUME Len(s) >= 2, s[2] = "think2" PROVE Bytes(s) >= 7  OBVIOUS
  <2>1. Len(s) \in Nat /\ 1 \in 1 .. Len(s) /\ 2 \in 1 .. Len(s)  BY DEF Text
  <2>2. ASSUME NEW b \in A PROVE b \in Bits(s)
    <3>1. b[1] = 1 /\ b[2] \in 1 .. 4 /\ b = << b[1], b[2] >>  BY <2>2
    <3>2. b \in (1 .. Len(s)) \X (1 .. 9) /\ b[2] <= Size(s[b[1]])  BY <1>2, <2>1, <3>1
    <3> QED  BY <3>2 DEF Bits
  <2>3. ASSUME NEW b \in B PROVE b \in Bits(s)
    <3>1. b[1] = 2 /\ b[2] \in 1 .. 3 /\ b = << b[1], b[2] >>  BY <2>3
    <3>2. b \in (1 .. Len(s)) \X (1 .. 9) /\ b[2] <= Size(s[b[1]])  BY <1>2, <2>1, <3>1
    <3> QED  BY <3>2 DEF Bits
  <2>4. A \cup B \subseteq Bits(s)  BY <2>2, <2>3
  <2>5. A \cap B = {}  OBVIOUS
  <2> HIDE DEF A, B
  <2>6. IsFiniteSet(A \cup B) /\ Cardinality(A \cup B) = Cardinality(A) + Cardinality(B) - Cardinality(A \cap B)
    BY <1>1, FS_Union
  <2>7. Cardinality(A \cup B) = 7
    <3>1. Cardinality(A \cap B) = 0  BY <2>5, FS_EmptySet
    <3> QED  BY <1>1, <2>6, <3>1
  <2>8. IsFiniteSet(Bits(s))
    <3>1. IsFiniteSet(1 .. Len(s)) /\ IsFiniteSet(1 .. 9)  BY <2>1, CountUpto
    <3>2. IsFiniteSet((1 .. Len(s)) \X (1 .. 9))  BY <3>1, FS_Product
    <3>3. Bits(s) \subseteq (1 .. Len(s)) \X (1 .. 9)  BY DEF Bits
    <3> QED  BY <3>2, <3>3, FS_Subset
  <2>9. Cardinality(A \cup B) <= Cardinality(Bits(s))  BY <2>4, <2>8, FS_Subset
  <2>10. Bytes(s) = Cardinality(Bits(s)) /\ Bytes(s) \in Nat  BY <2>8, FS_CardinalityType DEF Bytes, Bits
  <2> QED  BY <2>7, <2>9, <2>10
<1> QED  BY <1>3, <1>4

-----------------------------------------------------------------------------
(* What is thought and what is said: where the thoughts open, the places    *)
(* at which they close, and the text that is to be shown.                   *)

Enough(s) == Bytes(TrimSpace(s)) >= 7
Opens(s) == Starts(TrimLeft(s), Think)
After(s) == From(TrimLeft(s), 3)
Closings(s) == Places(After(s), ThinkClose)
Hidden(s) == Opens(s) /\ Closings(s) = {}
Visible(s) == IF Opens(s) THEN From(After(s), Min(Closings(s)) + 2) ELSE s

(* The thoughts open at a.                                                  *)
OpenAt(s, a) ==
    /\ a \in 1 .. Len(s) - 1 /\ s[a] = "think1" /\ s[a + 1] = "think2"
    /\ \A i \in 1 .. a - 1 : s[i] = "nl"

LEMMA Joined ==
    ASSUME NEW s \in Text, NEW t \in Text
    PROVE  /\ s \o t \in Text /\ Len(s) \in Nat /\ Len(t) \in Nat /\ Len(s \o t) = Len(s) + Len(t)
           /\ \A i \in 1 .. Len(s) : (s \o t)[i] = s[i]
           /\ \A i \in Len(s) + 1 .. Len(s) + Len(t) : (s \o t)[i] = t[i - Len(s)]
  BY DEF Text

LEMMA SameText ==
    ASSUME NEW s \in Text, NEW t \in Text, Len(s) = Len(t), \A i \in 1 .. Len(s) : s[i] = t[i]
    PROVE  s = t
  BY SeqEqual DEF Text

LEMMA FromMore ==
    ASSUME NEW s \in Text, NEW t \in Text, NEW i \in Nat \ {0}, i <= Len(s) + 1
    PROVE  From(s \o t, i) = From(s, i) \o t
<1> DEFINE u == s \o t
           f == From(s, i)
           g == From(u, i)
           h == f \o t
<1>1. /\ u \in Text /\ Len(s) \in Nat /\ Len(t) \in Nat /\ Len(u) = Len(s) + Len(t)
      /\ \A k \in 1 .. Len(s) : u[k] = s[k]
      /\ \A k \in Len(s) + 1 .. Len(s) + Len(t) : u[k] = t[k - Len(s)]
  BY Joined
<1> HIDE DEF u
<1>2. f \in Text /\ Len(f) = Len(s) - i + 1 /\ \A k \in 1 .. Len(s) - i + 1 : f[k] = s[i + k - 1]
  BY FromIs
<1>3. g \in Text /\ Len(g) = Len(u) - i + 1 /\ \A k \in 1 .. Len(u) - i + 1 : g[k] = u[i + k - 1]
  <2>1. i <= Len(u) + 1  BY <1>1
  <2> QED  BY <1>1, <2>1, FromIs
<1> HIDE DEF f, g
<1>4. /\ h \in Text /\ Len(h) = Len(f) + Len(t)
      /\ \A k \in 1 .. Len(f) : h[k] = f[k]
      /\ \A k \in Len(f) + 1 .. Len(f) + Len(t) : h[k] = t[k - Len(f)]
  BY <1>2, Joined
<1> HIDE DEF h
<1>5. Len(g) = Len(h) /\ Len(g) \in Nat  BY <1>1, <1>2, <1>3, <1>4
<1>6. ASSUME NEW k \in 1 .. Len(g) PROVE g[k] = h[k]
  <2>1. CASE k <= Len(s) - i + 1
    <3>1. k \in 1 .. Len(f) /\ i + k - 1 \in 1 .. Len(s)  BY <1>1, <1>2, <2>1
    <3>2. k \in 1 .. Len(u) - i + 1  BY <1>3, <1>6
    <3> QED  BY <1>1, <1>2, <1>3, <1>4, <3>1, <3>2
  <2>2. CASE k > Len(s) - i + 1
    <3>1. /\ k \in Len(f) + 1 .. Len(f) + Len(t)
          /\ i + k - 1 \in Len(s) + 1 .. Len(s) + Len(t)
          /\ (i + k - 1) - Len(s) = k - Len(f)
      BY <1>1, <1>2, <1>3, <1>6, <2>2
    <3>2. k \in 1 .. Len(u) - i + 1  BY <1>3, <1>6
    <3>3. g[k] = u[i + k - 1]  BY <1>3, <3>2
    <3>4. u[i + k - 1] = t[(i + k - 1) - Len(s)]  BY <1>1, <3>1
    <3>5. h[k] = t[k - Len(f)]  BY <1>4, <3>1
    <3> QED  BY <3>1, <3>3, <3>4, <3>5
  <2>3. k <= Len(s) - i + 1 \/ k > Len(s) - i + 1
    <3>1. k \in Int /\ Len(s) - i + 1 \in Int  BY <1>1, <1>5
    <3> QED  BY <3>1
  <2> QED  BY <2>1, <2>2, <2>3
<1>7. g = h  BY <1>3, <1>4, <1>5, <1>6, SameText
<1> QED  BY <1>7 DEF f, g, h, u

(* From twice.                                                              *)
LEMMA FromFrom ==
    ASSUME NEW s \in Text, NEW i \in Nat \ {0}, i <= Len(s) + 1,
           NEW j \in Nat \ {0}, j <= Len(From(s, i)) + 1
    PROVE  From(From(s, i), j) = From(s, i + j - 1)
<1> DEFINE f == From(s, i)
           g == From(f, j)
           h == From(s, i + j - 1)
<1>1. Len(s) \in Nat /\ i + j - 1 \in Nat \ {0}  BY DEF Text
<1>2. f \in Text /\ Len(f) = Len(s) - i + 1 /\ \A k \in 1 .. Len(s) - i + 1 : f[k] = s[i + k - 1]
  BY FromIs
<1>3. i + j - 1 <= Len(s) + 1  BY <1>1, <1>2
<1>4. h \in Text /\ Len(h) = Len(s) - (i + j - 1) + 1
      /\ \A k \in 1 .. Len(s) - (i + j - 1) + 1 : h[k] = s[(i + j - 1) + k - 1]
  BY <1>1, <1>3, FromIs
<1> HIDE DEF f, h
<1>5. j <= Len(f) + 1  BY DEF f
<1>6. g \in Text /\ Len(g) = Len(f) - j + 1 /\ \A k \in 1 .. Len(f) - j + 1 : g[k] = f[j + k - 1]
  BY <1>2, <1>5, FromIs
<1> HIDE DEF g
<1>7. Len(g) = Len(h)  BY <1>1, <1>2, <1>4, <1>6
<1>8. ASSUME NEW k \in 1 .. Len(g) PROVE g[k] = h[k]
  <2>1. k \in 1 .. Len(f) - j + 1 /\ j + k - 1 \in 1 .. Len(s) - i + 1
    BY <1>1, <1>2, <1>6, <1>8
  <2>2. k \in 1 .. Len(s) - (i + j - 1) + 1 /\ i + (j + k - 1) - 1 = (i + j - 1) + k - 1
    BY <1>1, <1>2, <1>6, <1>8
  <2> QED  BY <1>2, <1>4, <1>6, <2>1, <2>2
<1>9. g = h  BY <1>4, <1>6, <1>7, <1>8, SameText
<1> QED  BY <1>9 DEF f, g, h

LEMMA OpensIs ==
    ASSUME NEW s \in Text
    PROVE  /\ Opens(s) => \E a : OpenAt(s, a)
           /\ \A a : OpenAt(s, a) =>
                 /\ a \in Words(s) /\ a = Min(Words(s))
                 /\ Opens(s) /\ After(s) = From(s, a + 2) /\ TrimLeft(s) = From(s, a)
<1>1. Len(s) \in Nat /\ Words(s) \subseteq 1 .. Len(s)  BY DEF Text, Words
<1>2. Opens(s) => \E a : OpenAt(s, a)
  <2> SUFFICES ASSUME Opens(s) PROVE \E a : OpenAt(s, a)  OBVIOUS
  <2>1. TrimLeft(s) \in Text  BY TrimLeftIs
  <2>2. Len(TrimLeft(s)) >= 2 /\ TrimLeft(s)[1] = "think1" /\ TrimLeft(s)[2] = "think2"
    BY <2>1, StartsIs DEF Opens, Think
  <2>3. Words(s) # {}
    <3>1. Words(s) = {} => TrimLeft(s) = << >>  BY TrimLeftIs
    <3>2. Len(<< >>) = 0  BY TextEmpty
    <3> QED  BY <2>2, <3>1, <3>2
  <2>4. PICK a : a = Min(Words(s))  OBVIOUS
  <2>5. /\ a \in Words(s) /\ a \in 1 .. Len(s) /\ (\A i \in Words(s) : a <= i)
        /\ TrimLeft(s) = From(s, a)
    BY <2>3, <2>4, TrimLeftIs
  <2>6. a \in Nat \ {0} /\ a <= Len(s) + 1  BY <1>1, <2>5
  <2>7. /\ Len(From(s, a)) = Len(s) - a + 1
        /\ \A k \in 1 .. Len(s) - a + 1 : From(s, a)[k] = s[a + k - 1]
    BY <2>6, FromIs
  <2>8. 1 \in 1 .. Len(s) - a + 1 /\ 2 \in 1 .. Len(s) - a + 1 /\ a + 1 - 1 = a /\ a + 2 - 1 = a + 1
    BY <1>1, <2>2, <2>5, <2>6, <2>7
  <2>9. s[a] = "think1" /\ s[a + 1] = "think2"
    <3>1. From(s, a)[1] = s[a] /\ From(s, a)[2] = s[a + 1]  BY <2>7, <2>8
    <3> QED  BY <2>2, <2>5, <3>1
  <2>10. a \in 1 .. Len(s) - 1  BY <1>1, <2>6, <2>8
  <2>11. ASSUME NEW i \in 1 .. a - 1 PROVE s[i] = "nl"
    <3>1. i \in 1 .. Len(s) /\ ~(a <= i)  BY <1>1, <2>6, <2>10
    <3> QED  BY <2>5, <3>1 DEF Words
  <2> QED  BY <2>9, <2>10, <2>11 DEF OpenAt
<1>3. ASSUME NEW a, OpenAt(s, a)
      PROVE  /\ a \in Words(s) /\ a = Min(Words(s))
             /\ Opens(s) /\ After(s) = From(s, a + 2) /\ TrimLeft(s) = From(s, a)
  <2>1. /\ a \in 1 .. Len(s) - 1 /\ s[a] = "think1" /\ s[a + 1] = "think2"
        /\ \A i \in 1 .. a - 1 : s[i] = "nl"
    BY <1>3 DEF OpenAt
  <2>2. a \in Nat \ {0} /\ a <= Len(s) + 1 /\ a \in 1 .. Len(s)  BY <1>1, <2>1
  <2>3. a \in Words(s)  BY <2>1, <2>2 DEF Words
  <2>4. a = Min(Words(s))
    <3>1. PICK b : b = Min(Words(s))  OBVIOUS
    <3>2. b \in Words(s) /\ b \in 1 .. Len(s) /\ b <= a  BY <2>3, <3>1, TrimLeftIs
    <3>3. ~(b \in 1 .. a - 1)  BY <2>1, <3>2 DEF Words
    <3> QED  BY <1>1, <2>2, <3>1, <3>2, <3>3
  <2>5. TrimLeft(s) = From(s, a)  BY <2>3, <2>4, TrimLeftIs
  <2>6. /\ From(s, a) \in Text /\ Len(From(s, a)) = Len(s) - a + 1
        /\ \A k \in 1 .. Len(s) - a + 1 : From(s, a)[k] = s[a + k - 1]
    BY <2>2, FromIs
  <2>7. 1 \in 1 .. Len(s) - a + 1 /\ 2 \in 1 .. Len(s) - a + 1 /\ a + 1 - 1 = a /\ a + 2 - 1 = a + 1
    BY <1>1, <2>1, <2>2
  <2>8. From(s, a)[1] = s[a] /\ From(s, a)[2] = s[a + 1]  BY <2>6, <2>7
  <2>9. Len(From(s, a)) >= 2  BY <1>1, <2>1, <2>2, <2>6
  <2>10. Opens(s)  BY <2>1, <2>5, <2>6, <2>8, <2>9, StartsIs DEF Opens, Think
  <2>11. From(From(s, a), 3) = From(s, a + 2)
    <3>1. 3 \in Nat \ {0} /\ 3 <= Len(From(s, a)) + 1 /\ a + 3 - 1 = a + 2  BY <2>2, <2>9
    <3> QED  BY <2>2, <3>1, FromFrom
  <2> QED  BY <2>3, <2>4, <2>5, <2>10, <2>11 DEF After
<1> QED  BY <1>2, <1>3

LEMMA OpenStays ==
    ASSUME NEW s \in Text, NEW t \in Text, NEW a
    PROVE  /\ OpenAt(s, a) => OpenAt(s \o t, a)
           /\ OpenAt(s \o t, a) /\ a < Len(s) => OpenAt(s, a)
<1>1. /\ Len(s) \in Nat /\ Len(t) \in Nat /\ Len(s \o t) = Len(s) + Len(t)
      /\ \A i \in 1 .. Len(s) : (s \o t)[i] = s[i]
  BY Joined
<1>2. ASSUME OpenAt(s, a) PROVE OpenAt(s \o t, a)
  <2>1. /\ a \in 1 .. Len(s) - 1 /\ s[a] = "think1" /\ s[a + 1] = "think2"
        /\ \A i \in 1 .. a - 1 : s[i] = "nl"
    BY <1>2 DEF OpenAt
  <2>2. a \in 1 .. Len(s) /\ a + 1 \in 1 .. Len(s) /\ a \in 1 .. Len(s \o t) - 1
    BY <1>1, <2>1
  <2>3. \A i \in 1 .. a - 1 : i \in 1 .. Len(s)  BY <1>1, <2>1
  <2> QED  BY <1>1, <2>1, <2>2, <2>3 DEF OpenAt
<1>3. ASSUME OpenAt(s \o t, a), a < Len(s) PROVE OpenAt(s, a)
  <2>1. /\ a \in 1 .. Len(s \o t) - 1 /\ (s \o t)[a] = "think1" /\ (s \o t)[a + 1] = "think2"
        /\ \A i \in 1 .. a - 1 : (s \o t)[i] = "nl"
    BY <1>3 DEF OpenAt
  <2>2. a \in 1 .. Len(s) /\ a + 1 \in 1 .. Len(s) /\ a \in 1 .. Len(s) - 1
    BY <1>1, <1>3, <2>1
  <2>3. \A i \in 1 .. a - 1 : i \in 1 .. Len(s)  BY <1>1, <2>2
  <2> QED  BY <1>1, <2>1, <2>2, <2>3 DEF OpenAt
<1> QED  BY <1>2, <1>3

(* What has been decided of a text holds of every longer one.               *)
LEMMA WordsMore ==
    ASSUME NEW s \in Text, NEW t \in Text, Words(s) # {}
    PROVE  /\ Words(s) \subseteq Words(s \o t)
           /\ Min(Words(s \o t)) = Min(Words(s))
<1>1. /\ Len(s) \in Nat /\ Len(t) \in Nat /\ Len(s \o t) = Len(s) + Len(t)
      /\ \A i \in 1 .. Len(s) : (s \o t)[i] = s[i]
      /\ s \o t \in Text
  BY Joined
<1>2. 1 .. Len(s) \subseteq 1 .. Len(s \o t)  BY <1>1
<1>3. Words(s) \subseteq Words(s \o t)  BY <1>1, <1>2 DEF Words
<1>4. PICK a : a = Min(Words(s))  OBVIOUS
<1>5. PICK b : b = Min(Words(s \o t))  OBVIOUS
<1>6. a \in Words(s) /\ a \in 1 .. Len(s) /\ \A i \in Words(s) : a <= i  BY <1>4, TrimLeftIs
<1>7. b \in Words(s \o t) /\ b \in 1 .. Len(s \o t) /\ \A i \in Words(s \o t) : b <= i
  BY <1>1, <1>3, <1>5, TrimLeftIs
<1>8. b <= a /\ b \in 1 .. Len(s)  BY <1>1, <1>3, <1>6, <1>7
<1>9. b \in Words(s)  BY <1>1, <1>7, <1>8 DEF Words
<1>10. a = b  BY <1>6, <1>8, <1>9
<1> QED  BY <1>3, <1>4, <1>5, <1>10

LEMMA EnoughStays ==
    ASSUME NEW s \in Text, NEW t \in Text, Enough(s)
    PROVE  Words(s) # {} /\ Enough(s \o t)
<1> DEFINE u == s \o t
           S == TrimSpace(s)
           U == TrimSpace(u)
<1>1. /\ Len(s) \in Nat /\ \A i \in 1 .. Len(s) : u[i] = s[i]
      /\ u \in Text
  BY Joined
<1>2. Words(s) # {}
  <2>1. Words(s) = {} => TrimSpace(s) = << >>  BY TrimSpaceIs
  <2>2. Bytes(<< >>) = 0
    <3>1. Begins(<< >>, << >>)  BY TextEmpty DEF Begins
    <3> QED  BY <3>1, TextEmpty, BytesGrow
  <2>3. Words(s) = {} => Bytes(S) = 0  BY <2>1, <2>2
  <2> QED  BY <2>3 DEF Enough
<1>3. Words(s) \subseteq Words(u) /\ Min(Words(u)) = Min(Words(s))  BY <1>2, WordsMore
<1>4. PICK a : a = Min(Words(s))  OBVIOUS
<1>5. a \in 1 .. Len(s) /\ a \in Words(s)  BY <1>2, <1>4, TrimLeftIs
<1>6. PICK b \in Words(s) : /\ Len(S) = b - a + 1
                            /\ \A i \in 1 .. b - a + 1 : S[i] = s[a + i - 1]
  BY <1>2, <1>4, TrimSpaceIs
<1> HIDE DEF S, U, u
<1>7. PICK c \in Words(u) : /\ \A i \in Words(u) : i <= c
                            /\ Len(U) = c - a + 1
                            /\ \A i \in 1 .. c - a + 1 : U[i] = u[a + i - 1]
  <2>1. u \in Text /\ Words(u) # {} /\ Min(Words(u)) = a  BY <1>1, <1>2, <1>3, <1>4
  <2>2. \E c \in Words(u) : /\ \A i \in Words(u) : i <= c
                            /\ Len(TrimSpace(u)) = c - Min(Words(u)) + 1
                            /\ \A i \in 1 .. c - Min(Words(u)) + 1 : TrimSpace(u)[i] = u[Min(Words(u)) + i - 1]
    BY <2>1, TrimSpaceIs
  <2> QED  BY <2>1, <2>2 DEF U
<1>8. b \in 1 .. Len(s) /\ b <= c /\ c \in Nat
  <2>1. c \in 1 .. Len(u) /\ b \in 1 .. Len(s) /\ b \in Words(u)  BY <1>3, <1>6, <1>7 DEF Words
  <2> QED  BY <1>7, <2>1
<1>9. S \in Text /\ U \in Text  BY <1>1, TrimSpaceType DEF S, U
<1>10. Begins(S, U)
  <2>1. Len(S) <= Len(U)  BY <1>5, <1>6, <1>7, <1>8
  <2>2. ASSUME NEW i \in 1 .. Len(S) PROVE S[i] = U[i]
    <3>1. i \in 1 .. b - a + 1 /\ i \in 1 .. c - a + 1 /\ a + i - 1 \in 1 .. Len(s)
      BY <1>1, <1>5, <1>6, <1>8
    <3> QED  BY <1>1, <1>6, <1>7, <3>1
  <2> QED  BY <2>1, <2>2 DEF Begins
<1>11. Bytes(S) \in Nat /\ Bytes(U) \in Nat /\ Bytes(S) <= Bytes(U)  BY <1>9, <1>10, BytesGrow
<1>12. Bytes(S) >= 7  BY DEF Enough, S
<1>13. Bytes(U) >= 7  BY <1>11, <1>12
<1> QED  BY <1>2, <1>13 DEF Enough, U, u

LEMMA OpenEnough ==
    ASSUME NEW s \in Text, NEW a, OpenAt(s, a)
    PROVE  Enough(s)
<1>1. a \in 1 .. Len(s) - 1 /\ s[a] = "think1" /\ s[a + 1] = "think2"  BY DEF OpenAt
<1>2. a \in Words(s) /\ a = Min(Words(s)) /\ Len(s) \in Nat  BY OpensIs DEF Text
<1>3. PICK b \in Words(s) : /\ \A i \in Words(s) : i <= b
                            /\ Len(TrimSpace(s)) = b - a + 1
                            /\ \A i \in 1 .. b - a + 1 : TrimSpace(s)[i] = s[a + i - 1]
  BY <1>2, TrimSpaceIs
<1>4. a + 1 \in Words(s)
  <2>1. a + 1 \in 1 .. Len(s)  BY <1>1, <1>2
  <2> QED  BY <1>1, <2>1 DEF Words
<1>5. a + 1 <= b /\ b \in Nat /\ a \in Nat
  <2>1. b \in 1 .. Len(s)  BY <1>3 DEF Words
  <2> QED  BY <1>1, <1>2, <1>3, <1>4, <2>1
<1>6. 1 \in 1 .. b - a + 1 /\ 2 \in 1 .. b - a + 1 /\ a + 1 - 1 = a /\ a + 2 - 1 = a + 1 /\ b - a + 1 >= 2
  BY <1>5
<1>7. TrimSpace(s)[1] = s[a] /\ TrimSpace(s)[2] = s[a + 1]  BY <1>3, <1>6
<1>8. TrimSpace(s) \in Text /\ Len(TrimSpace(s)) >= 2  BY <1>3, <1>6, TrimSpaceType
<1>9. Len(TrimSpace(s)) >= 1  BY <1>8 DEF Text
<1>10. Bytes(TrimSpace(s)) >= 7  BY <1>1, <1>7, <1>8, <1>9, ThinkBytes
<1> QED  BY <1>10 DEF Enough

LEMMA Decided ==
    ASSUME NEW s \in Text, NEW t \in Text, Enough(s), NEW a, OpenAt(s \o t, a)
    PROVE  OpenAt(s, a)
<1> DEFINE u == s \o t
<1>1. /\ Len(s) \in Nat /\ u \in Text /\ \A i \in 1 .. Len(s) : u[i] = s[i]
  BY Joined
<1>2. Words(s) # {} /\ Min(Words(u)) = Min(Words(s))  BY EnoughStays, WordsMore
<1>3. a = Min(Words(u))  BY <1>1, OpensIs
<1>4. a \in Words(s) /\ a \in 1 .. Len(s)  BY <1>2, <1>3, TrimLeftIs
<1>5. a < Len(s)
  <2> SUFFICES ASSUME a = Len(s) PROVE FALSE  BY <1>1, <1>4
  <2>1. PICK b \in Words(s) : /\ Len(TrimSpace(s)) = b - a + 1
                              /\ \A i \in 1 .. b - a + 1 : TrimSpace(s)[i] = s[a + i - 1]
                              /\ \A i \in Words(s) : i <= b
    BY <1>2, <1>3, TrimSpaceIs
  <2>2. b = a
    <3>1. b \in 1 .. Len(s) /\ a <= b  BY <1>4, <2>1 DEF Words
    <3> QED  BY <1>1, <3>1
  <2>3. b - a + 1 = 1 /\ a + 1 - 1 = a /\ 1 \in 1 .. b - a + 1  BY <1>4, <2>2
  <2>4. Len(TrimSpace(s)) = 1 /\ TrimSpace(s)[1] = s[a]  BY <2>1, <2>3
  <2>5. s[a] = "think1"
    <3>1. u[a] = "think1"  BY DEF OpenAt
    <3> QED  BY <1>1, <1>4, <3>1
  <2>6. TrimSpace(s) \in Text /\ Len(TrimSpace(s)) >= 1  BY <2>4, TrimSpaceType
  <2>7. Bytes(TrimSpace(s)) < 7  BY <2>4, <2>5, <2>6, ThinkBytes
  <2>8. Bytes(TrimSpace(s)) \in Nat
    <3>1. Begins(TrimSpace(s), TrimSpace(s))  BY <2>4 DEF Begins
    <3> QED  BY <2>6, <3>1, BytesGrow
  <2> QED  BY <2>7, <2>8 DEF Enough
<1> QED  BY <1>5, OpenStays

LEMMA PlacesMore ==
    ASSUME NEW s \in Text, NEW t \in Text, NEW a, NEW b
    PROVE  /\ Places(s, << a, b >>) \subseteq Places(s \o t, << a, b >>)
           /\ \A i \in Places(s \o t, << a, b >>) : i < Len(s) => i \in Places(s, << a, b >>)
           /\ Places(s, << a, b >>) \subseteq Nat \ {0}
           /\ \A i \in Places(s, << a, b >>) : i < Len(s)
<1>1. /\ Len(s) \in Nat /\ Len(t) \in Nat /\ Len(s \o t) = Len(s) + Len(t)
      /\ \A i \in 1 .. Len(s) : (s \o t)[i] = s[i]
      /\ s \o t \in Text
  BY Joined
<1>2. PICK u : u = s \o t  OBVIOUS
<1>3. /\ Places(s, << a, b >>) = {i \in 1 .. Len(s) - 1 : s[i] = a /\ s[i + 1] = b}
      /\ Places(u, << a, b >>) = {i \in 1 .. Len(u) - 1 : u[i] = a /\ u[i + 1] = b}
  <2>1. u \in Text  BY <1>1, <1>2
  <2>2. Places(u, << a, b >>) = {i \in 1 .. Len(u) - 1 : u[i] = a /\ u[i + 1] = b}
    BY <2>1, PlacesIs
  <2>3. Places(s, << a, b >>) = {i \in 1 .. Len(s) - 1 : s[i] = a /\ s[i + 1] = b}
    BY PlacesIs
  <2> QED  BY <2>2, <2>3
<1>4. ASSUME NEW i \in 1 .. Len(s) - 1
      PROVE  i \in 1 .. Len(s) /\ i + 1 \in 1 .. Len(s) /\ i \in 1 .. Len(u) - 1 /\ i < Len(s) /\ i \in Nat \ {0}
  BY <1>1, <1>2
<1>5. ASSUME NEW i \in 1 .. Len(u) - 1, i < Len(s)
      PROVE  i \in 1 .. Len(s) - 1
  BY <1>1, <1>2, <1>5
<1>6. \A i \in 1 .. Len(s) - 1 : u[i] = s[i] /\ u[i + 1] = s[i + 1]  BY <1>1, <1>2, <1>4
<1>7. Places(s, << a, b >>) \subseteq Places(u, << a, b >>)  BY <1>3, <1>4, <1>6
<1>8. \A i \in Places(u, << a, b >>) : i < Len(s) => i \in Places(s, << a, b >>)
  BY <1>3, <1>5, <1>6
<1>9. /\ Places(s, << a, b >>) \subseteq Nat \ {0}
      /\ \A i \in Places(s, << a, b >>) : i < Len(s)
  BY <1>3, <1>4
<1> QED  BY <1>2, <1>7, <1>8, <1>9

(* The first place of a tag stays the first.                                *)
LEMMA FirstStays ==
    ASSUME NEW s \in Text, NEW t \in Text, NEW a, NEW b, Places(s, << a, b >>) # {}
    PROVE  /\ Places(s \o t, << a, b >>) # {}
           /\ Min(Places(s \o t, << a, b >>)) = Min(Places(s, << a, b >>))
           /\ Min(Places(s, << a, b >>)) + 2 \in Nat \ {0}
           /\ Min(Places(s, << a, b >>)) + 2 <= Len(s) + 1
<1>1. Len(s) \in Nat /\ s \o t \in Text  BY Joined
<1>2. PICK u : u = s \o t  OBVIOUS
<1>3. PICK P : P = Places(s, << a, b >>)  OBVIOUS
<1>4. PICK Q : Q = Places(u, << a, b >>)  OBVIOUS
<1>5. /\ P \subseteq Q /\ P # {}
      /\ \A i \in Q : i < Len(s) => i \in P
      /\ P \subseteq Nat \ {0} /\ \A i \in P : i < Len(s)
  BY <1>2, <1>3, <1>4, PlacesMore
<1>6. Q \subseteq Nat
  <2>1. u \o << >> \in Text /\ Q \subseteq Nat \ {0}  BY <1>1, <1>2, <1>4, TextEmpty, PlacesMore, Joined
  <2> QED  BY <2>1
<1>7. P \subseteq Nat /\ Q # {}  BY <1>5
<1>8. Min(P) \in P /\ Min(P) \in Nat /\ \A y \in P : Min(P) <= y  BY <1>5, <1>7, LeastIs
<1>9. Min(Q) \in Q /\ Min(Q) \in Nat /\ \A y \in Q : Min(Q) <= y  BY <1>6, <1>7, LeastIs
<1>10. Min(P) < Len(s) /\ Min(Q) <= Min(P)  BY <1>5, <1>8, <1>9
<1>11. Min(Q) \in P  BY <1>1, <1>5, <1>8, <1>9, <1>10
<1>12. Min(Q) = Min(P)  BY <1>8, <1>9, <1>10, <1>11
<1>13. Min(P) + 2 \in Nat \ {0} /\ Min(P) + 2 <= Len(s) + 1  BY <1>1, <1>8, <1>10
<1> QED  BY <1>2, <1>3, <1>4, <1>7, <1>12, <1>13

LEMMA AfterMore ==
    ASSUME NEW s \in Text, NEW t \in Text
    PROVE  /\ Opens(s) => Opens(s \o t) /\ After(s) \in Text /\ After(s \o t) = After(s) \o t
           /\ Opens(s) => Enough(s)
           /\ Enough(s) /\ Opens(s \o t) => Opens(s)
<1>1. Len(s) \in Nat /\ s \o t \in Text  BY Joined
<1>2. ASSUME NEW a, OpenAt(s, a)
      PROVE  Opens(s \o t) /\ After(s) \in Text /\ After(s \o t) = After(s) \o t /\ Enough(s)
  <2>1. OpenAt(s \o t, a)  BY <1>2, OpenStays
  <2>2. Opens(s \o t) /\ After(s \o t) = From(s \o t, a + 2)
    <3>1. PICK u : u = s \o t  OBVIOUS
    <3>2. Opens(u) /\ After(u) = From(u, a + 2)  BY <1>1, <2>1, <3>1, OpensIs
    <3> QED  BY <3>1, <3>2
  <2>3. After(s) = From(s, a + 2)  BY <1>2, OpensIs
  <2>4. a + 2 \in Nat \ {0} /\ a + 2 <= Len(s) + 1  BY <1>1, <1>2 DEF OpenAt
  <2>5. From(s \o t, a + 2) = From(s, a + 2) \o t  BY <2>4, FromMore
  <2>6. From(s, a + 2) \in Text  BY <2>4, FromIs
  <2>7. Enough(s)  BY <1>2, OpenEnough
  <2> QED  BY <2>2, <2>3, <2>5, <2>6, <2>7
<1>3. Enough(s) /\ Opens(s \o t) => Opens(s)
  <2> SUFFICES ASSUME Enough(s), Opens(s \o t) PROVE Opens(s)  OBVIOUS
  <2>1. PICK u : u = s \o t  OBVIOUS
  <2>2. PICK a : OpenAt(u, a)  BY <1>1, <2>1, OpensIs
  <2>3. OpenAt(s, a)  BY <2>1, <2>2, Decided
  <2> QED  BY <2>3, OpensIs
<1> QED  BY <1>2, <1>3, OpensIs

LEMMA VisibleType ==
    ASSUME NEW s \in Text, ~Hidden(s)
    PROVE  Visible(s) \in Text
<1>1. CASE ~Opens(s)  BY <1>1 DEF Visible
<1>2. CASE Opens(s)
  <2>1. After(s) \in Text  BY <1>2, TextEmpty, AfterMore
  <2>2. Closings(s) # {}  BY <1>2 DEF Hidden
  <2>3. Min(Closings(s)) + 2 \in Nat \ {0}
    BY <2>1, <2>2, TextEmpty, FirstStays DEF Closings, ThinkClose
  <2> QED  BY <1>2, <2>1, <2>3, FromIs DEF Visible
<1> QED  BY <1>1, <1>2

(* Once it is decided whether there are thoughts, and they are closed, what *)
(* follows is to be shown.                                                  *)
LEMMA VisibleMore ==
    ASSUME NEW s \in Text, NEW t \in Text, Enough(s), ~Hidden(s)
    PROVE  ~Hidden(s \o t) /\ Visible(s \o t) = Visible(s) \o t
<1>1. PICK u : u = s \o t  OBVIOUS
<1>2. CASE ~Opens(s)
  <2>1. ~Opens(u)  BY <1>1, <1>2, AfterMore
  <2> QED  BY <1>1, <1>2, <2>1 DEF Hidden, Visible
<1>3. CASE Opens(s)
  <2>1. Opens(u) /\ After(s) \in Text /\ After(u) = After(s) \o t  BY <1>1, <1>3, AfterMore
  <2>2. Closings(s) # {}  BY <1>3 DEF Hidden
  <2>3. /\ Closings(u) # {} /\ Min(Closings(u)) = Min(Closings(s))
        /\ Min(Closings(s)) + 2 \in Nat \ {0} /\ Min(Closings(s)) + 2 <= Len(After(s)) + 1
    <3>1. PICK f \in Text : f = After(s)  BY <2>1
    <3>2. Places(f, ThinkClose) # {} /\ Closings(u) = Places(f \o t, ThinkClose) /\ Closings(s) = Places(f, ThinkClose)
      BY <2>1, <2>2, <3>1 DEF Closings
    <3>3. /\ Places(f \o t, ThinkClose) # {}
          /\ Min(Places(f \o t, ThinkClose)) = Min(Places(f, ThinkClose))
          /\ Min(Places(f, ThinkClose)) + 2 \in Nat \ {0}
          /\ Min(Places(f, ThinkClose)) + 2 <= Len(f) + 1
      BY <3>2, FirstStays DEF ThinkClose
    <3> QED  BY <3>1, <3>2, <3>3
  <2>4. From(After(s) \o t, Min(Closings(s)) + 2) = From(After(s), Min(Closings(s)) + 2) \o t
    BY <2>1, <2>3, FromMore
  <2>5. ~Hidden(u)  BY <2>3 DEF Hidden
  <2>6. Visible(u) = From(After(s) \o t, Min(Closings(s)) + 2)  BY <2>1, <2>3 DEF Visible
  <2>7. Visible(s) = From(After(s), Min(Closings(s)) + 2)  BY <1>3 DEF Visible
  <2> QED  BY <1>1, <2>4, <2>5, <2>6, <2>7
<1> QED  BY <1>2, <1>3

(* The first half of the refusal's tag opens and closes nothing.            *)
LEMMA BanHalf ==
    ASSUME NEW s \in Text
    PROVE  /\ s \o << "ban1" >> \in Text
           /\ Hidden(s \o << "ban1" >>) <=> Hidden(s)
           /\ ~Hidden(s) => Visible(s \o << "ban1" >>) = Visible(s) \o << "ban1" >>
<1> DEFINE t == << "ban1" >>
<1>1. t \in Text /\ Len(t) = 1 /\ t[1] = "ban1"  BY DEF Text, Atoms
<1> HIDE DEF t
<1>2. ASSUME NEW f \in Text, NEW a, NEW b, b # "ban1"
      PROVE  Places(f \o t, << a, b >>) = Places(f, << a, b >>)
  <2>1. PICK g : g = f \o t  OBVIOUS
  <2>2. /\ g \in Text /\ Len(f) \in Nat /\ Len(g) = Len(f) + 1 /\ g[Len(f) + 1] = "ban1"
    <3>1. /\ f \o t \in Text /\ Len(f) \in Nat /\ Len(f \o t) = Len(f) + Len(t)
          /\ \A i \in Len(f) + 1 .. Len(f) + Len(t) : (f \o t)[i] = t[i - Len(f)]
      BY <1>1, Joined
    <3>2. Len(f) + 1 \in Len(f) + 1 .. Len(f) + Len(t) /\ (Len(f) + 1) - Len(f) = 1  BY <1>1, <3>1
    <3>3. (f \o t)[Len(f) + 1] = t[(Len(f) + 1) - Len(f)]  BY <3>1, <3>2
    <3> QED  BY <1>1, <2>1, <3>1, <3>2, <3>3
  <2>3. Places(g, << a, b >>) = {i \in 1 .. Len(g) - 1 : g[i] = a /\ g[i + 1] = b}
    BY <2>2, PlacesIs
  <2>4. /\ Places(f, << a, b >>) \subseteq Places(g, << a, b >>)
        /\ \A i \in Places(g, << a, b >>) : i < Len(f) => i \in Places(f, << a, b >>)
    BY <1>1, <2>1, PlacesMore
  <2>5. ASSUME NEW i \in Places(g, << a, b >>) PROVE i < Len(f)
    <3>1. i \in 1 .. Len(g) - 1 /\ g[i + 1] = b  BY <2>3
    <3>2. i \in 1 .. Len(f) /\ i + 1 # Len(f) + 1  BY <1>2, <2>2, <3>1
    <3> QED  BY <2>2, <3>2
  <2> QED  BY <2>1, <2>4, <2>5
<1>3. PICK u : u = s \o t  OBVIOUS
<1>4. Len(s) \in Nat /\ Len(u) = Len(s) + 1 /\ u \in Text /\ u[Len(s) + 1] = "ban1"
  <2>1. /\ s \o t \in Text /\ Len(s) \in Nat /\ Len(s \o t) = Len(s) + Len(t)
        /\ \A i \in Len(s) + 1 .. Len(s) + Len(t) : (s \o t)[i] = t[i - Len(s)]
    BY <1>1, Joined
  <2>2. Len(s) + 1 \in Len(s) + 1 .. Len(s) + Len(t) /\ (Len(s) + 1) - Len(s) = 1  BY <1>1, <2>1
  <2>3. (s \o t)[Len(s) + 1] = t[(Len(s) + 1) - Len(s)]  BY <2>1, <2>2
  <2> QED  BY <1>1, <1>3, <2>1, <2>2, <2>3
<1>5. Opens(u) <=> Opens(s)
  <2>1. Opens(s) => Opens(u)  BY <1>1, <1>3, AfterMore
  <2>2. ASSUME Opens(u) PROVE Opens(s)
    <3>1. PICK a : OpenAt(u, a)  BY <1>4, <2>2, OpensIs
    <3>2. a \in 1 .. Len(u) - 1 /\ u[a + 1] = "think2"  BY <3>1 DEF OpenAt
    <3>3. a \in 1 .. Len(s) /\ a + 1 # Len(s) + 1  BY <1>4, <3>2
    <3>4. a < Len(s)  BY <1>4, <3>3
    <3>5. OpenAt(s, a)  BY <1>1, <1>3, <3>1, <3>4, OpenStays
    <3> QED  BY <3>5, OpensIs
  <2> QED  BY <2>1, <2>2
<1>6. CASE ~Opens(s)
  <2>1. ~Opens(u)  BY <1>5, <1>6
  <2> QED  BY <1>3, <1>4, <1>6, <2>1 DEF Hidden, Visible, t
<1>7. CASE Opens(s)
  <2>1. Opens(u) /\ After(s) \in Text /\ After(u) = After(s) \o t  BY <1>1, <1>3, <1>7, AfterMore
  <2>2. Closings(u) = Closings(s)
    <3>1. PICK f \in Text : f = After(s)  BY <2>1
    <3>2. Places(f \o t, ThinkClose) = Places(f, ThinkClose)  BY <1>2 DEF ThinkClose
    <3> QED  BY <2>1, <3>1, <3>2 DEF Closings
  <2>3. Hidden(u) <=> Hidden(s)  BY <1>5, <2>2 DEF Hidden
  <2>4. ASSUME ~Hidden(s) PROVE Visible(u) = Visible(s) \o t
    <3>1. Closings(s) # {}  BY <1>7, <2>4 DEF Hidden
    <3>2. PICK m : m = Min(Closings(s))  OBVIOUS
    <3>3. m + 2 \in Nat \ {0} /\ m + 2 <= Len(After(s)) + 1
      <4>1. PICK f \in Text : f = After(s)  BY <2>1
      <4>2. Places(f, ThinkClose) # {} /\ m = Min(Places(f, ThinkClose))
        BY <3>1, <3>2, <4>1 DEF Closings
      <4>3. /\ Min(Places(f, ThinkClose)) + 2 \in Nat \ {0}
            /\ Min(Places(f, ThinkClose)) + 2 <= Len(f) + 1
        BY <1>1, <4>2, FirstStays DEF ThinkClose
      <4> QED  BY <4>1, <4>2, <4>3
    <3>4. From(After(s) \o t, m + 2) = From(After(s), m + 2) \o t  BY <1>1, <2>1, <3>3, FromMore
    <3>5. Visible(u) = From(After(s) \o t, m + 2)  BY <2>1, <2>2, <3>2 DEF Visible
    <3>6. Visible(s) = From(After(s), m + 2)  BY <1>7, <3>2 DEF Visible
    <3> QED  BY <3>4, <3>5, <3>6
  <2> QED  BY <1>3, <1>4, <2>3, <2>4 DEF t
<1> QED  BY <1>6, <1>7

-----------------------------------------------------------------------------
(* What an emitter that is not stopped knows of the text it has received.   *)

Grown(e, q, r) == [e EXCEPT !.seen = q, !.raw = r]
Thinks(e, r) == [e EXCEPT !.thinkDone = TRUE, !.inThink = TRUE, !.raw = r]
Says(e, r) == [e EXCEPT !.thinkDone = TRUE, !.inThink = FALSE, !.raw = r]

(* g is e after d arrived, and q is what has arrived.                       *)
Receives(g, e, q, d) ==
    /\ g \in Emitters /\ Screen(g) = Screen(e) /\ g.seen = q /\ g.raw = e.raw \o d
    /\ g.thinkDone = e.thinkDone /\ g.inThink = e.inThink /\ g.stopped = e.stopped

LEMMA GrownIs ==
    ASSUME NEW e \in Emitters, NEW q \in Text, NEW d \in Text
    PROVE  Receives(Grown(e, q, e.raw \o d), e, q, d)
<1>1. PICK r \in Text : r = e.raw \o d
  <2>1. e.raw \in Text  BY DEF Emitters
  <2> QED  BY <2>1, Joined
<1>2. /\ Grown(e, q, r) \in Emitters /\ Screen(Grown(e, q, r)) = Screen(e)
      /\ Grown(e, q, r).seen = q /\ Grown(e, q, r).raw = r
      /\ Grown(e, q, r).thinkDone = e.thinkDone /\ Grown(e, q, r).inThink = e.inThink
      /\ Grown(e, q, r).stopped = e.stopped
  BY DEF Grown, Emitters, Screen, Page
<1> QED  BY <1>1, <1>2 DEF Receives

LEMMA ThinksIs ==
    ASSUME NEW e \in Emitters, NEW r \in Text
    PROVE  LET f == Thinks(e, r) IN
           /\ f \in Emitters /\ Screen(f) = Screen(e) /\ f.seen = e.seen /\ f.raw = r
           /\ f.thinkDone = TRUE /\ f.inThink = TRUE /\ f.stopped = e.stopped
  BY DEF Thinks, Emitters, Screen, Page

LEMMA SaysIs ==
    ASSUME NEW e \in Emitters, NEW r \in Text
    PROVE  LET f == Says(e, r) IN
           /\ f \in Emitters /\ Screen(f) = Screen(e) /\ f.seen = e.seen /\ f.raw = r
           /\ f.thinkDone = TRUE /\ f.inThink = FALSE /\ f.stopped = e.stopped
  BY DEF Says, Emitters, Screen, Page

LEMMA FirstPart ==
    ASSUME NEW s \in Text, NEW n \in 0 .. Len(s)
    PROVE  /\ SubSeq(s, 1, n) \in Text /\ Len(SubSeq(s, 1, n)) = n
           /\ \A i \in 1 .. n : SubSeq(s, 1, n)[i] = s[i]
  BY DEF Text

LEMMA Parts ==
    ASSUME NEW s \in Text, NEW n \in 0 .. Len(s)
    PROVE  SubSeq(s, 1, n) \o From(s, n + 1) = s
<1>1. Len(s) \in Nat /\ n \in Nat /\ n + 1 \in Nat \ {0} /\ n + 1 <= Len(s) + 1  BY DEF Text
<1>2. PICK a \in Text : a = SubSeq(s, 1, n) /\ Len(a) = n /\ \A i \in 1 .. n : a[i] = s[i]  BY FirstPart
<1>3. PICK b \in Text : b = From(s, n + 1)  BY <1>1, FromIs
<1>4. Len(b) = Len(s) - (n + 1) + 1 /\ \A k \in 1 .. Len(s) - (n + 1) + 1 : b[k] = s[(n + 1) + k - 1]
  BY <1>1, <1>3, FromIs
<1>5. PICK c : c = a \o b  OBVIOUS
<1>6. /\ c \in Text /\ Len(c) = Len(a) + Len(b)
      /\ \A k \in 1 .. Len(a) : c[k] = a[k]
      /\ \A k \in Len(a) + 1 .. Len(a) + Len(b) : c[k] = b[k - Len(a)]
  BY <1>5, Joined
<1>7. Len(c) = Len(s)  BY <1>1, <1>2, <1>4, <1>6
<1>8. ASSUME NEW k \in 1 .. Len(c) PROVE c[k] = s[k]
  <2>1. CASE k <= n
    <3>1. k \in 1 .. n  BY <2>1
    <3> QED  BY <1>2, <1>6, <3>1
  <2>2. CASE k > n
    <3>1. /\ k \in Len(a) + 1 .. Len(a) + Len(b) /\ k - n \in 1 .. Len(s) - (n + 1) + 1
          /\ (n + 1) + (k - n) - 1 = k
      BY <1>1, <1>2, <1>4, <1>7, <2>2
    <3> QED  BY <1>2, <1>4, <1>6, <3>1
  <2>3. k <= n \/ k > n  BY <1>1
  <2> QED  BY <2>1, <2>2, <2>3
<1>9. c = s  BY <1>6, <1>7, <1>8, SameText
<1> QED  BY <1>2, <1>3, <1>5, <1>9

LEMMA FeedRawIs ==
    ASSUME NEW s \in Text, NEW n \in 0 .. Len(s), NEW e, Fed(e, SubSeq(s, 1, n)), e.raw = From(s, n + 1),
           NEW k \in 0 .. Len(s) - n
    PROVE  LET f == FeedRaw(e, k) IN
           /\ Fed(f, SubSeq(s, 1, n + k)) /\ f.raw = From(s, n + k + 1)
           /\ f.seen = e.seen /\ f.thinkDone = e.thinkDone /\ f.inThink = e.inThink
           /\ f.stopped = e.stopped
<1>1. /\ Len(s) \in Nat /\ n \in Nat /\ k \in Nat /\ n + 1 \in Nat \ {0} /\ n + 1 <= Len(s) + 1
      /\ n + k \in 0 .. Len(s) /\ k + 1 \in Nat \ {0} /\ (n + 1) + (k + 1) - 1 = n + k + 1
  BY DEF Text
<1>2. /\ e.raw \in Text /\ Len(e.raw) = Len(s) - n
      /\ \A i \in 1 .. Len(s) - n : e.raw[i] = s[n + i]
  <2>1. /\ From(s, n + 1) \in Text /\ Len(From(s, n + 1)) = Len(s) - (n + 1) + 1
        /\ \A i \in 1 .. Len(s) - (n + 1) + 1 : From(s, n + 1)[i] = s[(n + 1) + i - 1]
    BY <1>1, FromIs
  <2>2. Len(s) - (n + 1) + 1 = Len(s) - n  BY <1>1
  <2>3. \A i \in 1 .. Len(s) - n : (n + 1) + i - 1 = n + i  BY <1>1
  <2> QED  BY <2>1, <2>2, <2>3
<1>3. From(e.raw, k + 1) = From(s, n + k + 1)
  <2>1. k + 1 <= Len(From(s, n + 1)) + 1  BY <1>1, <1>2
  <2> QED  BY <1>1, <2>1, FromFrom
<1>4. PICK t \in Text : /\ t = SubSeq(e.raw, 1, k) /\ Len(t) = k
                        /\ \A i \in 1 .. k : t[i] = e.raw[i]
  <2>1. k \in 0 .. Len(e.raw)  BY <1>1, <1>2
  <2> QED  BY <1>2, <2>1, FirstPart
<1>5. PICK r \in Text : /\ r = SubSeq(s, 1, n) /\ Len(r) = n
                        /\ \A i \in 1 .. n : r[i] = s[i]
  BY FirstPart
<1>6. PICK v \in Text : /\ v = SubSeq(s, 1, n + k) /\ Len(v) = n + k
                        /\ \A i \in 1 .. n + k : v[i] = s[i]
  BY <1>1, FirstPart
<1>7. r \o t = v
  <2>1. PICK c : c = r \o t  OBVIOUS
  <2>2. /\ c \in Text /\ Len(c) = Len(r) + Len(t)
        /\ \A i \in 1 .. Len(r) : c[i] = r[i]
        /\ \A i \in Len(r) + 1 .. Len(r) + Len(t) : c[i] = t[i - Len(r)]
    BY <2>1, Joined
  <2>3. Len(c) = n + k  BY <1>4, <1>5, <2>2
  <2>4. ASSUME NEW i \in 1 .. Len(c) PROVE c[i] = v[i]
    <3>1. CASE i <= n
      <4>1. i \in 1 .. n /\ i \in 1 .. n + k  BY <1>1, <3>1
      <4> QED  BY <1>5, <1>6, <2>2, <4>1
    <3>2. CASE i > n
      <4>1. /\ i \in Len(r) + 1 .. Len(r) + Len(t) /\ i - n \in 1 .. k /\ i - n \in 1 .. Len(s) - n
            /\ n + (i - n) = i /\ i \in 1 .. n + k
        BY <1>1, <1>4, <1>5, <2>3, <3>2
      <4>2. c[i] = t[i - n]  BY <1>5, <2>2, <4>1
      <4>3. t[i - n] = s[i]  BY <1>2, <1>4, <4>1
      <4> QED  BY <1>6, <4>1, <4>2, <4>3
    <3>3. i <= n \/ i > n  BY <1>1
    <3> QED  BY <3>1, <3>2, <3>3
  <2>5. c = v  BY <1>6, <2>2, <2>3, <2>4, SameText
  <2> QED  BY <2>1, <2>5
<1>8. PICK d : d = Feed(e, t)  OBVIOUS
<1>9. Fed(d, v) /\ Mind(d) = Mind(e)  BY <1>5, <1>7, <1>8, FeedMore
<1>10. d \in Emitters /\ Screen(d) = Screen(Fold(Fresh(v), v))  BY <1>9 DEF Fed
<1>11. /\ d.seen = e.seen /\ d.thinkDone = e.thinkDone /\ d.inThink = e.inThink
       /\ d.stopped = e.stopped
  BY <1>9 DEF Mind
<1>12. PICK w \in Text : w = From(s, n + k + 1)
  <2>1. n + k + 1 \in Nat \ {0}  BY <1>1
  <2> QED  BY <2>1, FromIs
<1>13. PICK f : f = [d EXCEPT !.raw = w]  OBVIOUS
<1>14. FeedRaw(e, k) = f  BY <1>3, <1>4, <1>8, <1>12, <1>13 DEF FeedRaw
<1>15. /\ f \in Emitters /\ Screen(f) = Screen(d) /\ f.raw = w
       /\ f.seen = d.seen /\ f.thinkDone = d.thinkDone /\ f.inThink = d.inThink
       /\ f.stopped = d.stopped
  BY <1>10, <1>13 DEF Emitters, Screen, Page
<1>16. Fed(f, v)  BY <1>10, <1>15 DEF Fed
<1> QED  BY <1>6, <1>11, <1>12, <1>14, <1>15, <1>16

LEMMA HoldIs ==
    ASSUME NEW s \in Text
    PROVE  /\ HoldLen(s) \in {0, 1} /\ HoldLen(s) <= Len(s)
           /\ \A n \in Nat : n < Len(s) \/ n = 0 => HoldLen(From(s, n + 1)) = HoldLen(s)
           /\ HoldLen(s \o << "ban1" >>) = 1
<1>1. Len(s) \in Nat  BY DEF Text
<1>2. HoldLen(s) \in {0, 1} /\ HoldLen(s) <= Len(s)
  <2>1. s # << >> => Len(s) >= 1  BY DEF Text
  <2> QED  BY <1>1, <2>1 DEF HoldLen
<1>3. ASSUME NEW n \in Nat, n < Len(s) \/ n = 0
      PROVE  HoldLen(From(s, n + 1)) = HoldLen(s)
  <2>0. n + 1 \in Nat \ {0} /\ n + 1 <= Len(s) + 1  BY <1>1, <1>3
  <2>1. PICK f : f = From(s, n + 1)  OBVIOUS
  <2>2. f \in Text /\ Len(f) = Len(s) - n /\ \A k \in 1 .. Len(s) - n : f[k] = s[n + k]
    <3>1. /\ f \in Text /\ Len(f) = Len(s) - (n + 1) + 1
          /\ \A k \in 1 .. Len(s) - (n + 1) + 1 : f[k] = s[(n + 1) + k - 1]
      BY <2>0, <2>1, FromIs
    <3>2. Len(s) - (n + 1) + 1 = Len(s) - n /\ \A k \in 1 .. Len(s) - n : (n + 1) + k - 1 = n + k
      BY <1>1
    <3> QED  BY <3>1, <3>2
  <2>3. CASE n < Len(s)
    <3>1. Len(f) \in 1 .. Len(s) - n /\ n + Len(f) = Len(s)  BY <1>1, <2>2, <2>3
    <3>2. f # << >> /\ s # << >>
      <4>1. Len(<< >>) = 0  BY TextEmpty
      <4> QED  BY <1>1, <2>2, <2>3, <3>1, <4>1
    <3>3. Last(f) = Last(s)
      <4>1. f[Len(f)] = s[n + Len(f)]  BY <2>2, <3>1
      <4> QED  BY <3>1, <4>1 DEF Last
    <3> QED  BY <2>1, <3>2, <3>3 DEF HoldLen
  <2>4. CASE n = 0 /\ ~(n < Len(s))
    <3>1. Len(s) = 0 /\ Len(f) = 0  BY <1>1, <2>2, <2>4
    <3>2. s = << >> /\ f = << >>  BY <2>2, <3>1 DEF Text
    <3> QED  BY <2>1, <3>2
  <2> QED  BY <1>3, <2>3, <2>4
<1>4. HoldLen(s \o << "ban1" >>) = 1
  <2>1. PICK u : u = s \o << "ban1" >>  OBVIOUS
  <2>2. Len(u) = Len(s) + 1 /\ u[Len(s) + 1] = "ban1"  BY <1>1, <2>1 DEF Text
  <2>3. u # << >>
    <3>1. Len(<< >>) = 0  OBVIOUS
    <3> QED  BY <1>1, <2>2, <3>1
  <2>4. Last(u) = "ban1"  BY <2>2 DEF Last
  <2> QED  BY <2>1, <2>3, <2>4 DEF HoldLen
<1> QED  BY <1>2, <1>3, <1>4

(* How much of what is to be shown is out.                                  *)
Out(p) == Len(Visible(p)) - HoldLen(Visible(p))

(* It is not decided whether p opens with thoughts; they are not closed; or *)
(* what is to be shown is out, but for what may begin a tag.                *)
Reading(e, p) ==
    /\ e \in Emitters /\ ~e.stopped /\ e.seen = p
    /\ \/ /\ ~e.thinkDone /\ ~e.inThink /\ ~Enough(p) /\ e.raw = p /\ Fed(e, << >>)
       \/ /\ e.thinkDone /\ e.inThink /\ Hidden(p) /\ e.raw = After(p) /\ Fed(e, << >>)
       \/ /\ e.thinkDone /\ ~e.inThink /\ Enough(p) /\ ~Hidden(p)
          /\ e.raw = From(Visible(p), Out(p) + 1) /\ Fed(e, SubSeq(Visible(p), 1, Out(p)))

LEMMA OpenThinkIs ==
    ASSUME NEW e \in Emitters
    PROVE  /\ e.thinkDone \/ ~Enough(e.raw) => OpenThink(e) = e
           /\ ~e.thinkDone /\ Enough(e.raw) /\ Opens(e.raw) =>
                 OpenThink(e) = Thinks(e, After(e.raw))
           /\ ~e.thinkDone /\ Enough(e.raw) /\ ~Opens(e.raw) /\ ~e.inThink =>
                 OpenThink(e) = Says(e, e.raw)
<1>1. e.raw \in Text  BY DEF Emitters
<1>2. Enough(e.raw) <=> ~(Bytes(TrimSpace(e.raw)) < 7)
  <2>1. TrimSpace(e.raw) \in Text  BY <1>1, TrimSpaceType
  <2>2. Begins(TrimSpace(e.raw), TrimSpace(e.raw))  BY <2>1 DEF Begins, Text
  <2>3. Bytes(TrimSpace(e.raw)) \in Nat  BY <2>1, <2>2, BytesGrow
  <2> QED  BY <2>3 DEF Enough
<1>3. CASE e.thinkDone \/ ~Enough(e.raw)  BY <1>2, <1>3 DEF OpenThink
<1>4. CASE ~e.thinkDone /\ Enough(e.raw) /\ Opens(e.raw)
  <2>1. OpenThink(e) = [e EXCEPT !.thinkDone = TRUE, !.inThink = TRUE, !.raw = From(TrimLeft(e.raw), 3)]
    BY <1>2, <1>4 DEF OpenThink, Opens
  <2>2. From(TrimLeft(e.raw), 3) = After(e.raw)  BY DEF After
  <2> QED  BY <1>4, <2>1, <2>2 DEF Thinks, Emitters
<1>5. CASE ~e.thinkDone /\ Enough(e.raw) /\ ~Opens(e.raw) /\ ~e.inThink
  <2>1. OpenThink(e) = [e EXCEPT !.thinkDone = TRUE]
    BY <1>2, <1>5 DEF OpenThink, Opens
  <2> QED  BY <1>5, <2>1 DEF Says, Emitters
<1> QED  BY <1>3, <1>4, <1>5

LEMMA CloseThinkIs ==
    ASSUME NEW e \in Emitters
    PROVE  /\ ~e.inThink \/ Places(e.raw, ThinkClose) = {} => CloseThink(e) = e
           /\ e.inThink /\ e.thinkDone /\ Places(e.raw, ThinkClose) # {} =>
                 CloseThink(e) = Says(e, From(e.raw, Min(Places(e.raw, ThinkClose)) + 2))
  BY DEF CloseThink, Says, Emitters

(* After a piece, before what it lets out is shown.                         *)
Sorted(e, q) ==
    /\ e \in Emitters /\ ~e.stopped /\ e.seen = q /\ e.thinkDone /\ ~e.inThink
    /\ Enough(q) /\ ~Hidden(q)
    /\ \E n \in 0 .. Len(Visible(q)) :
          /\ n < Len(Visible(q)) \/ n = 0
          /\ e.raw = From(Visible(q), n + 1) /\ Fed(e, SubSeq(Visible(q), 1, n))

LEMMA NoneOut ==
    ASSUME NEW v \in Text
    PROVE  /\ SubSeq(v, 1, 0) = << >> /\ From(v, 0 + 1) = v
           /\ 0 \in 0 .. Len(v)
  BY DEF Text, From

(* The thoughts that q opens with are still open, or closed by now.         *)
LEMMA ThoughtsSort ==
    ASSUME NEW q \in Text, Opens(q),
           NEW e \in Emitters, ~e.stopped, e.seen = q, e.thinkDone, e.inThink, e.raw = After(q),
           Fed(e, << >>)
    PROVE  (Reading(CloseThink(e), q) /\ CloseThink(e).inThink) \/ Sorted(CloseThink(e), q)
<1>1. After(q) \in Text /\ Enough(q)  BY TextEmpty, AfterMore
<1>2. CASE Closings(q) = {}
  <2>1. CloseThink(e) = e  BY <1>2, CloseThinkIs DEF Closings
  <2> QED  BY <1>2, <2>1 DEF Reading, Hidden
<1>3. CASE Closings(q) # {}
  <2>1. PICK v : v = Visible(q)  OBVIOUS
  <2>2. ~Hidden(q) /\ v = From(After(q), Min(Closings(q)) + 2)  BY <1>3, <2>1 DEF Hidden, Visible
  <2>3. v \in Text  BY <2>1, <2>2, VisibleType
  <2>4. CloseThink(e) = Says(e, v)  BY <1>3, <2>2, CloseThinkIs DEF Closings
  <2>5. PICK f : f = Says(e, v)  OBVIOUS
  <2>6. /\ f \in Emitters /\ Screen(f) = Screen(e) /\ f.seen = q /\ f.raw = v
        /\ f.thinkDone = TRUE /\ f.inThink = FALSE /\ f.stopped = e.stopped
    BY <2>3, <2>5, SaysIs
  <2>7. Fed(f, << >>)  BY <2>6 DEF Fed
  <2>8. SubSeq(v, 1, 0) = << >> /\ From(v, 0 + 1) = v /\ 0 \in 0 .. Len(v)  BY <2>3, NoneOut
  <2>9. Sorted(f, q)  BY <1>1, <2>1, <2>2, <2>6, <2>7, <2>8 DEF Sorted
  <2> QED  BY <2>4, <2>5, <2>9
<1> QED  BY <1>2, <1>3

(* A piece is empty only for an answer that is empty.                       *)
Heard(e, d) == d # << >> \/ ~e.thinkDone

LEMMA WriteSorts ==
    ASSUME NEW p \in Text, NEW d \in Text, NEW e, Reading(e, p), Heard(e, d),
           NEW q, q = p \o d,
           NEW g, Receives(g, e, q, d),
           NEW f, f = CloseThink(OpenThink(g))
    PROVE  (Reading(f, q) /\ (f.inThink \/ ~f.thinkDone)) \/ Sorted(f, q)
<1>1. /\ e \in Emitters /\ e.stopped = FALSE /\ e.raw \in Text /\ e.raw \o d \in Text
      /\ e.thinkDone \in BOOLEAN /\ e.inThink \in BOOLEAN
  <2>1. e \in Emitters /\ ~e.stopped  BY DEF Reading
  <2>2. e.raw \in Text /\ e.stopped \in BOOLEAN /\ e.thinkDone \in BOOLEAN /\ e.inThink \in BOOLEAN
    BY <2>1 DEF Emitters
  <2> QED  BY <2>1, <2>2, Joined
<1>2. q \in Text  BY Joined
<1>3. /\ g \in Emitters /\ Screen(g) = Screen(e) /\ g.seen = q /\ g.raw = e.raw \o d
      /\ g.thinkDone = e.thinkDone /\ g.inThink = e.inThink /\ g.stopped = FALSE
  BY <1>1 DEF Receives
<1>4. CASE ~e.thinkDone
  <2>1. ~e.inThink /\ ~Enough(p) /\ e.raw = p /\ Fed(e, << >>)  BY <1>4 DEF Reading
  <2>2. g.raw = q /\ ~g.thinkDone /\ ~g.inThink  BY <1>3, <1>4, <2>1
  <2>3. Fed(g, << >>)  BY <1>3, <2>1 DEF Fed
  <2>4. CASE ~Enough(q)
    <3>1. OpenThink(g) = g  BY <1>3, <2>2, <2>4, OpenThinkIs
    <3>2. f = g  BY <1>3, <2>2, <3>1, CloseThinkIs
    <3> QED  BY <1>3, <2>2, <2>3, <2>4, <3>2 DEF Reading
  <2>5. CASE Enough(q) /\ Opens(q)
    <3>1. PICK r \in Text : r = After(q)  BY <2>5, TextEmpty, AfterMore, <1>2
    <3>2. PICK h : h = Thinks(g, r)  OBVIOUS
    <3>3. OpenThink(g) = h  BY <1>3, <2>2, <2>5, <3>1, <3>2, OpenThinkIs
    <3>4. /\ h \in Emitters /\ Screen(h) = Screen(g) /\ h.seen = q /\ h.raw = r
          /\ h.thinkDone = TRUE /\ h.inThink = TRUE /\ h.stopped = g.stopped
      BY <1>3, <3>2, ThinksIs
    <3>5. Fed(h, << >>)  BY <2>3, <3>4 DEF Fed
    <3> QED  BY <1>2, <1>3, <2>5, <3>1, <3>3, <3>4, <3>5, ThoughtsSort
  <2>6. CASE Enough(q) /\ ~Opens(q)
    <3>1. PICK h : h = Says(g, q)  OBVIOUS
    <3>2. OpenThink(g) = h  BY <1>3, <2>2, <2>6, <3>1, OpenThinkIs
    <3>3. /\ h \in Emitters /\ Screen(h) = Screen(g) /\ h.seen = q /\ h.raw = q
          /\ h.thinkDone = TRUE /\ h.inThink = FALSE /\ h.stopped = g.stopped
      BY <1>2, <1>3, <3>1, SaysIs
    <3>4. f = h  BY <3>2, <3>3, CloseThinkIs
    <3>5. Fed(h, << >>)  BY <2>3, <3>3 DEF Fed
    <3>6. Visible(q) = q /\ ~Hidden(q)  BY <2>6 DEF Visible, Hidden
    <3>7. SubSeq(q, 1, 0) = << >> /\ From(q, 0 + 1) = q /\ 0 \in 0 .. Len(q)  BY <1>2, NoneOut
    <3> QED  BY <1>3, <2>6, <3>3, <3>4, <3>5, <3>6, <3>7 DEF Sorted
  <2> QED  BY <2>4, <2>5, <2>6
<1>5. CASE e.thinkDone /\ e.inThink
  <2>1. Hidden(p) /\ e.raw = After(p) /\ Fed(e, << >>)  BY <1>5 DEF Reading
  <2>2. OpenThink(g) = g  BY <1>3, <1>5, OpenThinkIs
  <2>3. Opens(q) /\ After(q) = After(p) \o d  BY <2>1, AfterMore DEF Hidden
  <2>4. Fed(g, << >>)  BY <1>3, <2>1 DEF Fed
  <2>5. g.raw = After(q)  BY <1>3, <2>1, <2>3
  <2> QED  BY <1>2, <1>3, <1>5, <2>2, <2>3, <2>4, <2>5, ThoughtsSort
<1>6. CASE e.thinkDone /\ ~e.inThink
  <2>1. /\ Enough(p) /\ ~Hidden(p) /\ e.raw = From(Visible(p), Out(p) + 1)
        /\ Fed(e, SubSeq(Visible(p), 1, Out(p)))
    BY <1>6 DEF Reading
  <2>2. f = g
    <3>1. OpenThink(g) = g  BY <1>3, <1>6, OpenThinkIs
    <3> QED  BY <1>3, <1>6, <3>1, CloseThinkIs
  <2>3. PICK v \in Text : v = Visible(p)  BY <2>1, VisibleType
  <2>4. Enough(q) /\ ~Hidden(q) /\ Visible(q) = v \o d  BY <2>1, <2>3, EnoughStays, VisibleMore
  <2>5. PICK n : n = Out(p)  OBVIOUS
  <2>6. Len(v) \in Nat /\ n \in 0 .. Len(v)
    <3>1. HoldLen(v) \in {0, 1} /\ HoldLen(v) <= Len(v) /\ n = Len(v) - HoldLen(v)
      BY <2>3, <2>5, HoldIs DEF Out
    <3>2. Len(v) \in Nat  BY DEF Text
    <3> QED  BY <3>1, <3>2
  <2>7. PICK w : w = v \o d  OBVIOUS
  <2>8. /\ w \in Text /\ Len(w) = Len(v) + Len(d) /\ Len(d) \in Nat
        /\ \A i \in 1 .. Len(v) : w[i] = v[i]
    BY <2>7, Joined
  <2>9. Len(d) > 0
    <3>1. d # << >>  BY <1>6 DEF Heard
    <3> QED  BY <2>8, <3>1 DEF Text
  <2>10. n \in 0 .. Len(w) /\ n < Len(w)  BY <2>6, <2>8, <2>9
  <2>11. g.raw = From(w, n + 1)
    <3>1. n + 1 \in Nat \ {0} /\ n + 1 <= Len(v) + 1  BY <2>6
    <3>2. From(v \o d, n + 1) = From(v, n + 1) \o d  BY <3>1, FromMore
    <3> QED  BY <1>3, <2>1, <2>3, <2>5, <2>7, <3>2
  <2>12. SubSeq(w, 1, n) = SubSeq(v, 1, n)
    <3>1. PICK a \in Text : a = SubSeq(w, 1, n) /\ Len(a) = n /\ \A i \in 1 .. n : a[i] = w[i]
      BY <2>8, <2>10, FirstPart
    <3>2. PICK b \in Text : b = SubSeq(v, 1, n) /\ Len(b) = n /\ \A i \in 1 .. n : b[i] = v[i]
      BY <2>6, FirstPart
    <3>3. \A i \in 1 .. n : i \in 1 .. Len(v)  BY <2>6
    <3>4. a = b  BY <2>8, <3>1, <3>2, <3>3, SameText
    <3> QED  BY <3>1, <3>2, <3>4
  <2>13. Fed(g, SubSeq(w, 1, n))  BY <1>3, <2>1, <2>3, <2>5, <2>12 DEF Fed
  <2>14. Visible(q) = w  BY <2>4, <2>7
  <2> QED  BY <1>3, <1>6, <2>2, <2>4, <2>10, <2>11, <2>13, <2>14 DEF Sorted
<1> QED  BY <1>1, <1>4, <1>5, <1>6

LEMMA WriteIs ==
    ASSUME NEW p \in Text, NEW d \in Text, NEW e, Reading(e, p), Heard(e, d),
           NEW q, q = p \o d
    PROVE  /\ Stops(q) = {} => Reading(WriteDelta(e, d), q)
           /\ Stops(q) # {} =>
                 /\ WriteDelta(e, d) \in Emitters /\ WriteDelta(e, d).stopped
                 /\ WriteDelta(e, d).lines = e.lines /\ WriteDelta(e, d).typed = e.typed
<1>1. e \in Emitters /\ ~e.stopped /\ e.seen = p  BY DEF Reading
<1>2. q \in Text /\ << >> \in Text  BY Joined, TextEmpty
<1>3. CASE Stops(q) # {}
  <2>1. WriteDelta(e, d) = [e EXCEPT !.seen = q, !.stopped = TRUE, !.raw = << >>, !.line = << >>]
    BY <1>1, <1>3 DEF WriteDelta
  <2> QED  BY <1>1, <1>2, <1>3, <2>1 DEF Emitters
<1>4. CASE Stops(q) = {}
  <2>1. PICK g : g = Grown(e, q, e.raw \o d)  OBVIOUS
  <2>2. [e EXCEPT !.seen = q, !.raw = e.raw \o d] = g  BY <1>1, <2>1 DEF Grown, Emitters
  <2>3. PICK f : f = CloseThink(OpenThink(g))  OBVIOUS
  <2>4. WriteDelta(e, d) = IF f.inThink \/ ~f.thinkDone THEN f ELSE FeedRaw(f, Len(f.raw) - HoldLen(f.raw))
    <3>1. /\ e.seen \o d = q
          /\ f = CloseThink(OpenThink([e EXCEPT !.seen = q, !.raw = @ \o d]))
      BY <1>1, <2>2, <2>3
    <3> QED  BY <1>1, <1>4, <3>1 DEF WriteDelta
  <2>5. (Reading(f, q) /\ (f.inThink \/ ~f.thinkDone)) \/ Sorted(f, q)
    <3>1. Receives(g, e, q, d)  BY <1>1, <1>2, <2>1, GrownIs
    <3> QED  BY <2>3, <3>1, WriteSorts
  <2>6. CASE Reading(f, q) /\ (f.inThink \/ ~f.thinkDone)  BY <1>4, <2>4, <2>6
  <2>7. CASE Sorted(f, q)
    <3>1. /\ f \in Emitters /\ ~f.stopped /\ f.seen = q /\ f.thinkDone /\ ~f.inThink
          /\ Enough(q) /\ ~Hidden(q)
      BY <2>7 DEF Sorted
    <3>2. PICK v \in Text : v = Visible(q)  BY <1>2, <3>1, VisibleType
    <3>3. PICK n \in 0 .. Len(v) : /\ n < Len(v) \/ n = 0
                                   /\ f.raw = From(v, n + 1) /\ Fed(f, SubSeq(v, 1, n))
      BY <2>7, <3>2 DEF Sorted
    <3>4. Len(v) \in Nat /\ n \in Nat  BY <3>3 DEF Text
    <3>5. /\ HoldLen(v) \in {0, 1} /\ HoldLen(v) <= Len(v) /\ HoldLen(f.raw) = HoldLen(v)
      BY <3>3, <3>4, HoldIs
    <3>6. PICK k : k = Len(f.raw) - HoldLen(f.raw)  OBVIOUS
    <3>7. Len(f.raw) = Len(v) - n
      <4>1. n + 1 \in Nat \ {0} /\ n + 1 <= Len(v) + 1  BY <3>3, <3>4
      <4>2. Len(From(v, n + 1)) = Len(v) - (n + 1) + 1  BY <4>1, FromIs
      <4> QED  BY <3>3, <3>4, <4>2
    <3>8. k \in 0 .. Len(v) - n /\ n + k = Len(v) - HoldLen(v)
      <4>1. PICK x \in {0, 1} : x = HoldLen(v)  BY <3>5
      <4>2. PICK y \in Nat : y = Len(v)  BY <3>4
      <4>3. x <= y /\ n <= y /\ (n < y \/ n = 0) /\ k = y - n - x  BY <3>3, <3>5, <3>6, <3>7, <4>1, <4>2
      <4>4. k \in 0 .. y - n /\ n + k = y - x  BY <3>4, <4>3
      <4> QED  BY <4>1, <4>2, <4>4
    <3>9. n + k = Out(q)  BY <3>2, <3>8 DEF Out
    <3>10. PICK h : h = FeedRaw(f, k)  OBVIOUS
    <3>11. /\ Fed(h, SubSeq(v, 1, n + k)) /\ h.raw = From(v, n + k + 1)
           /\ h.seen = f.seen /\ h.thinkDone = f.thinkDone /\ h.inThink = f.inThink
           /\ h.stopped = f.stopped
      BY <3>3, <3>8, <3>10, FeedRawIs
    <3>12. h \in Emitters  BY <3>11 DEF Fed
    <3>13. Fed(h, SubSeq(Visible(q), 1, Out(q))) /\ h.raw = From(Visible(q), Out(q) + 1)
      BY <3>2, <3>9, <3>11
    <3>14. Reading(h, q)  BY <3>1, <3>11, <3>12, <3>13 DEF Reading
    <3>15. WriteDelta(e, d) = h  BY <2>4, <3>1, <3>6, <3>10
    <3> QED  BY <1>4, <3>14, <3>15
  <2> QED  BY <2>5, <2>6, <2>7
<1> QED  BY <1>3, <1>4

-----------------------------------------------------------------------------
(* The end of the text.                                                     *)

Flushed(f) == IF f.line = << >> THEN f ELSE Emit([f EXCEPT !.line = << >>], f.line)
Ended(f) == LET e == Flushed(f) IN IF e.headerDone THEN e ELSE Released(e, e.headerLen)

LEMMA ReleaseIs ==
    ASSUME NEW e \in Emitters
    PROVE  ReleaseDelta([e EXCEPT !.headerDone = TRUE]) = Released(e, e.headerLen)
<1> DEFINE g == [e EXCEPT !.headerDone = TRUE]
<1>1. ReleaseDelta(g) = [e EXCEPT !.headerDone = TRUE, !.hold = << >>, !.headerLen = 0,
                              !.typed = IF e.headerLen >= Len(e.hold) THEN e.typed
                                        ELSE e.typed \o From(e.hold, e.headerLen + 1)]
  BY DEF ReleaseDelta, Emitters
<1>2. e.typed \o << >> = e.typed  BY DEF Emitters, Text
<1> HIDE DEF g
<1>3. ReleaseDelta(g) = Released(e, e.headerLen)  BY <1>1, <1>2 DEF Released, Drop
<1> QED  BY <1>3 DEF g

LEMMA FlushedIs ==
    ASSUME NEW f \in Emitters
    PROVE  /\ Flushed(f) \in Emitters
           /\ \E more \in Seq(Text) : Flushed(f).lines = f.lines \o more
           /\ \E more \in Text : Flushed(f).typed = f.typed \o more
<1>1. /\ f.line \in Text /\ << >> \in Text /\ << >> \in Seq(Text)
      /\ f.lines \o << >> = f.lines /\ f.typed \o << >> = f.typed
  BY DEF Emitters, Text
<1>2. CASE f.line = << >>  BY <1>1, <1>2 DEF Flushed
<1>3. CASE f.line # << >>
  <2>1. PICK d : d = [f EXCEPT !.line = << >>]  OBVIOUS
  <2>2. d \in Emitters /\ d.lines = f.lines /\ d.typed = f.typed  BY <1>1, <2>1 DEF Emitters
  <2>3. PICK l \in Text : l = f.line  BY <1>1
  <2>4. Flushed(f) = Emit(d, l)  BY <1>3, <2>1, <2>3 DEF Flushed
  <2>5. /\ Emit(d, l) \in Emitters
        /\ \E more \in Seq(Text) : Emit(d, l).lines = d.lines \o more
        /\ \E more \in Text : Emit(d, l).typed = d.typed \o more
    BY <2>2, EmitTypes
  <2> QED  BY <2>2, <2>4, <2>5
<1> QED  BY <1>2, <1>3

LEMMA FlushedSame ==
    ASSUME NEW d \in Emitters, NEW e \in Emitters, Screen(d) = Screen(e)
    PROVE  Screen(Flushed(d)) = Screen(Flushed(e))
<1>1. /\ Page(d) = Page(e) /\ d.line = e.line /\ d.headerDone = e.headerDone
      /\ d.headerLen = e.headerLen /\ d.hold = e.hold /\ d.typed = e.typed
  BY DEF Screen
<1>2. CASE e.line = << >>  BY <1>1, <1>2 DEF Flushed
<1>3. CASE e.line # << >>
  <2>1. PICK f : f = [d EXCEPT !.line = << >>]  OBVIOUS
  <2>2. PICK g : g = [e EXCEPT !.line = << >>]  OBVIOUS
  <2>3. f \in Emitters /\ g \in Emitters
    <3>1. << >> \in Text  BY TextEmpty
    <3> QED  BY <2>1, <2>2, <3>1 DEF Emitters
  <2>4. Screen(f) = Screen(g)  BY <1>1, <2>1, <2>2 DEF Screen, Page, Emitters
  <2>5. PICK l \in Text : l = e.line  BY DEF Emitters
  <2>6. Flushed(d) = Emit(f, l)  BY <1>1, <1>3, <2>1, <2>5 DEF Flushed
  <2>7. Flushed(e) = Emit(g, l)  BY <1>3, <2>2, <2>5 DEF Flushed
  <2> QED  BY <2>3, <2>4, <2>6, <2>7, EmitSame
<1> QED  BY <1>2, <1>3

LEMMA EndedIs ==
    ASSUME NEW f \in Emitters
    PROVE  /\ Ended(f) \in Emitters
           /\ Begins(f.lines, Ended(f).lines) /\ Begins(f.typed, Ended(f).typed)
<1>1. PICK e : e = Flushed(f)  OBVIOUS
<1>2. e \in Emitters  BY <1>1, FlushedIs
<1>3. PICK k \in Nat : k = e.headerLen  BY <1>2 DEF Emitters
<1>4. PICK g : g = Released(e, k)  OBVIOUS
<1>5. g \in Emitters /\ Page(g) = Page(e) /\ g.typed = e.typed \o Drop(e.hold, k)
  BY <1>2, <1>4, ReleasedIs
<1>6. g.lines = e.lines  BY <1>5 DEF Page
<1>7. /\ f.lines \in Seq(Text) /\ f.typed \in Text /\ e.lines \in Seq(Text) /\ e.typed \in Text
      /\ e.hold \in Text
  BY <1>2 DEF Emitters
<1>8. Begins(f.lines, e.lines)
  <2>1. PICK more \in Seq(Text) : e.lines = f.lines \o more  BY <1>1, FlushedIs
  <2> QED  BY <1>7, <2>1, BeginsIs
<1>9. Begins(f.typed, e.typed)
  <2>1. PICK more \in Text : e.typed = f.typed \o more  BY <1>1, FlushedIs
  <2> QED  BY <1>7, <2>1, BeginsIs DEF Text
<1>10. Begins(f.typed, g.typed)
  <2>1. PICK more \in Text : more = Drop(e.hold, k)  BY <1>7, DropType
  <2>2. e.typed \o more \in Text /\ g.typed = e.typed \o more  BY <1>5, <1>7, <2>1, Joined
  <2>3. Begins(e.typed, e.typed \o more)  BY <1>7, <2>1, BeginsIs DEF Text
  <2>4. f.typed \in Seq(Atoms) /\ e.typed \in Seq(Atoms) /\ g.typed \in Seq(Atoms)
    BY <1>7, <2>2 DEF Text
  <2> QED  BY <1>9, <2>2, <2>3, <2>4, BeginsIs
<1>11. Ended(f) = IF e.headerDone THEN e ELSE g  BY <1>1, <1>3, <1>4 DEF Ended
<1> QED  BY <1>2, <1>5, <1>6, <1>8, <1>9, <1>10, <1>11

LEMMA EndedSame ==
    ASSUME NEW d \in Emitters, NEW e \in Emitters, Screen(d) = Screen(e)
    PROVE  Ended(d).lines = Ended(e).lines /\ Ended(d).typed = Ended(e).typed
<1>1. PICK f : f = Flushed(d)  OBVIOUS
<1>2. PICK g : g = Flushed(e)  OBVIOUS
<1>3. f \in Emitters /\ g \in Emitters /\ Screen(f) = Screen(g)  BY <1>1, <1>2, FlushedIs, FlushedSame
<1>4. /\ Page(f) = Page(g) /\ f.headerDone = g.headerDone
      /\ f.headerLen = g.headerLen /\ f.hold = g.hold /\ f.typed = g.typed
  BY <1>3 DEF Screen
<1>5. PICK k \in Nat : k = f.headerLen  BY <1>3 DEF Emitters
<1>6. /\ Page(Released(f, k)) = Page(f) /\ Released(f, k).typed = f.typed \o Drop(f.hold, k)
      /\ Page(Released(g, k)) = Page(g) /\ Released(g, k).typed = g.typed \o Drop(g.hold, k)
  BY <1>3, ReleasedIs
<1>7. f.lines = g.lines /\ Released(f, k).lines = Released(g, k).lines  BY <1>4, <1>6 DEF Page
<1>8. Ended(d) = IF f.headerDone THEN f ELSE Released(f, k)  BY <1>1, <1>5 DEF Ended
<1>9. Ended(e) = IF g.headerDone THEN g ELSE Released(g, k)  BY <1>2, <1>4, <1>5 DEF Ended
<1> QED  BY <1>4, <1>6, <1>7, <1>8, <1>9

LEMMA NothingFed ==
    ASSUME NEW e, Fed(e, << >>)
    PROVE  e.lines = << >> /\ e.typed = << >>
<1>1. Fold(Fresh(<< >>), << >>) = Fresh(<< >>)  BY FoldSteps
<1>2. Fresh(<< >>).lines = << >> /\ Fresh(<< >>).typed = << >>  BY TextEmpty, FreshIs
<1>3. Screen(e) = Screen(Fresh(<< >>))  BY <1>1 DEF Fed
<1>4. e.lines = Fresh(<< >>).lines /\ e.typed = Fresh(<< >>).typed  BY <1>3 DEF Screen, Page
<1> QED  BY <1>2, <1>4

LEMMA CloseIs ==
    ASSUME NEW p \in Text, NEW e, Reading(e, p)
    PROVE  /\ CloseEmitter(e) \in Emitters
           /\ Hidden(p) => CloseEmitter(e).lines = << >> /\ CloseEmitter(e).typed = << >>
           /\ ~Hidden(p) => \E f : Fed(f, Visible(p)) /\ CloseEmitter(e) = Ended(f)
<1>1. e \in Emitters /\ ~e.stopped  BY DEF Reading
<1>2. CASE e.inThink
  <2>1. Hidden(p) /\ Fed(e, << >>)  BY <1>2 DEF Reading
  <2>2. CloseEmitter(e) = e  BY <1>2 DEF CloseEmitter
  <2> QED  BY <1>1, <2>1, <2>2, NothingFed
<1>3. CASE ~e.inThink
  <2>0. PICK v \in Text : /\ v = Visible(p) /\ ~Hidden(p)
                          /\ \E n \in 0 .. Len(v) : e.raw = From(v, n + 1) /\ Fed(e, SubSeq(v, 1, n))
    <3>1. CASE ~e.thinkDone
      <4>1. ~Enough(p) /\ e.raw = p /\ Fed(e, << >>)  BY <1>3, <3>1 DEF Reading
      <4>2. ~Opens(p)  BY <4>1, TextEmpty, AfterMore
      <4>3. Visible(p) = p /\ ~Hidden(p)  BY <4>2 DEF Visible, Hidden
      <4>4. SubSeq(p, 1, 0) = << >> /\ From(p, 0 + 1) = p /\ 0 \in 0 .. Len(p)  BY NoneOut
      <4> QED  BY <4>1, <4>3, <4>4
    <3>2. CASE e.thinkDone
      <4>1. /\ ~Hidden(p) /\ e.raw = From(Visible(p), Out(p) + 1)
            /\ Fed(e, SubSeq(Visible(p), 1, Out(p)))
        BY <1>3, <3>2 DEF Reading
      <4>2. PICK v \in Text : v = Visible(p)  BY <4>1, VisibleType
      <4>3. PICK n : n = Out(p)  OBVIOUS
      <4>4. n \in 0 .. Len(v)
        <5>1. HoldLen(v) \in {0, 1} /\ HoldLen(v) <= Len(v) /\ n = Len(v) - HoldLen(v)
          BY <4>2, <4>3, HoldIs DEF Out
        <5>2. Len(v) \in Nat  BY DEF Text
        <5> QED  BY <5>1, <5>2
      <4> QED  BY <4>1, <4>2, <4>3, <4>4
    <3> QED  BY <3>1, <3>2
  <2>1. PICK n \in 0 .. Len(v) : e.raw = From(v, n + 1) /\ Fed(e, SubSeq(v, 1, n))  BY <2>0
  <2>2. PICK k : k = Len(v) - n  OBVIOUS
  <2>3. Len(v) \in Nat /\ n \in Nat /\ k \in 0 .. Len(v) - n /\ n + k = Len(v)
    BY <2>1, <2>2 DEF Text
  <2>4. Len(e.raw) = k
    <3>1. n + 1 \in Nat \ {0} /\ n + 1 <= Len(v) + 1  BY <2>1, <2>3
    <3>2. Len(From(v, n + 1)) = Len(v) - (n + 1) + 1  BY <3>1, FromIs
    <3> QED  BY <2>1, <2>2, <2>3, <3>2
  <2>5. PICK f : f = FeedRaw(e, k)  OBVIOUS
  <2>6. Fed(f, SubSeq(v, 1, n + k))  BY <2>1, <2>3, <2>5, FeedRawIs
  <2>7. SubSeq(v, 1, Len(v)) = v  BY DEF Text
  <2>8. Fed(f, v)  BY <2>3, <2>6, <2>7
  <2>9. f \in Emitters  BY <2>8 DEF Fed
  <2>10. PICK g : g = Flushed(f)  OBVIOUS
  <2>11. g \in Emitters  BY <2>9, <2>10, FlushedIs
  <2>12. CloseEmitter(e) = IF g.headerDone THEN g ELSE ReleaseDelta([g EXCEPT !.headerDone = TRUE])
    BY <1>1, <1>3, <2>4, <2>5, <2>10 DEF CloseEmitter, Flushed
  <2>13. ReleaseDelta([g EXCEPT !.headerDone = TRUE]) = Released(g, g.headerLen)  BY <2>11, ReleaseIs
  <2>14. CloseEmitter(e) = Ended(f)  BY <2>10, <2>12, <2>13 DEF Ended
  <2>15. Ended(f) \in Emitters  BY <2>9, EndedIs
  <2> QED  BY <2>0, <2>8, <2>14, <2>15
<1> QED  BY <1>2, <1>3

LEMMA CloseSame ==
    ASSUME NEW p \in Text, NEW d, Reading(d, p), NEW e, Reading(e, p)
    PROVE  /\ CloseEmitter(d).lines = CloseEmitter(e).lines
           /\ CloseEmitter(d).typed = CloseEmitter(e).typed
<1>1. CASE Hidden(p)  BY <1>1, CloseIs
<1>2. CASE ~Hidden(p)
  <2>1. PICK f : Fed(f, Visible(p)) /\ CloseEmitter(d) = Ended(f)  BY <1>2, CloseIs
  <2>2. PICK g : Fed(g, Visible(p)) /\ CloseEmitter(e) = Ended(g)  BY <1>2, CloseIs
  <2>3. f \in Emitters /\ g \in Emitters /\ Screen(f) = Screen(g)  BY <2>1, <2>2 DEF Fed
  <2> QED  BY <2>1, <2>2, <2>3, EndedSame
<1> QED  BY <1>1, <1>2

(* c is the text up to where it is cut off, and p what has been read of it: *)
(* a beginning of c, or c and the first half of a refusal's tag.            *)
Of(p, c) == (\E t \in Text : c = p \o t) \/ p = c \o << "ban1" >>

LEMMA ShownSoFar ==
    ASSUME NEW p \in Text, NEW c \in Text, Of(p, c), NEW e, Reading(e, p), NEW r, Reading(r, c)
    PROVE  /\ Begins(e.lines, CloseEmitter(r).lines)
           /\ Begins(e.typed, CloseEmitter(r).typed)
<1>1. CloseEmitter(r) \in Emitters  BY CloseIs
<1>2. PICK w \in Emitters : w = CloseEmitter(r)  BY <1>1
<1>3. w.lines \in Seq(Text) /\ w.typed \in Seq(Atoms)  BY DEF Emitters, Text
<1>4. CASE Fed(e, << >>)
  <2>1. e.lines = << >> /\ e.typed = << >>  BY <1>4, NothingFed
  <2>2. Len(w.lines) \in Nat /\ Len(w.typed) \in Nat /\ Len(<< >>) = 0  BY <1>3
  <2>3. Begins(<< >>, w.lines) /\ Begins(<< >>, w.typed)  BY <2>2 DEF Begins
  <2> QED  BY <1>2, <2>1, <2>3
<1>5. CASE ~Fed(e, << >>)
  <2>1. Enough(p) /\ ~Hidden(p) /\ Fed(e, SubSeq(Visible(p), 1, Out(p)))  BY <1>5 DEF Reading
  <2>2. PICK v \in Text : v = Visible(p)  BY <2>1, VisibleType
  <2>3. PICK n : n = Out(p)  OBVIOUS
  <2>4. Len(v) \in Nat /\ n = Len(v) - HoldLen(v) /\ n \in 0 .. Len(v)
    <3>1. HoldLen(v) \in {0, 1} /\ HoldLen(v) <= Len(v) /\ n = Len(v) - HoldLen(v)
      BY <2>2, <2>3, HoldIs DEF Out
    <3>2. Len(v) \in Nat  BY DEF Text
    <3> QED  BY <3>1, <3>2
  <2>5. PICK a \in Text : a = SubSeq(v, 1, n)  BY <2>4, FirstPart
  <2>6. Fed(e, a)  BY <2>1, <2>2, <2>3, <2>5
  <2>7. ~Hidden(c) /\ \E more \in Text : Visible(c) = a \o more
    <3>1. CASE \E t \in Text : c = p \o t
      <4>1. PICK t \in Text : c = p \o t  BY <3>1
      <4>2. ~Hidden(c) /\ Visible(c) = v \o t  BY <2>1, <2>2, <4>1, VisibleMore
      <4>3. PICK b \in Text : b = From(v, n + 1)
        <5>1. n + 1 \in Nat \ {0}  BY <2>4
        <5> QED  BY <5>1, FromIs
      <4>4. a \o b = v  BY <2>4, <2>5, <4>3, Parts
      <4>5. (a \o b) \o t = a \o (b \o t)
        <5>1. ASSUME NEW x \in Seq(Atoms), NEW y \in Seq(Atoms), NEW z \in Seq(Atoms)
              PROVE  (x \o y) \o z = x \o (y \o z)
          BY ConcatAssociative
        <5> QED  BY <5>1 DEF Text
      <4>6. b \o t \in Text  BY Joined
      <4> QED  BY <4>2, <4>4, <4>5, <4>6
    <3>2. CASE p = c \o << "ban1" >>
      <4>1. ~Hidden(c) /\ v = Visible(c) \o << "ban1" >>  BY <2>1, <2>2, <3>2, BanHalf
      <4>2. PICK u \in Text : u = Visible(c)  BY <4>1, VisibleType
      <4>3. v = u \o << "ban1" >>  BY <4>1, <4>2
      <4>4. HoldLen(v) = 1  BY <4>3, HoldIs
      <4>5. << "ban1" >> \in Text /\ Len(<< "ban1" >>) = 1  BY DEF Text, Atoms
      <4>6. PICK t \in Text : t = << "ban1" >> /\ Len(t) = 1  BY <4>5
      <4>7. /\ Len(u) \in Nat /\ Len(v) = Len(u) + 1
            /\ \A i \in 1 .. Len(u) : v[i] = u[i]
        <5>1. v = u \o t  BY <4>3, <4>6
        <5> QED  BY <4>6, <5>1, Joined
      <4>8. n = Len(u)  BY <2>4, <4>4, <4>7
      <4>9. Len(a) = n /\ \A i \in 1 .. n : a[i] = v[i]  BY <2>4, <2>5, FirstPart
      <4>10. Len(a) = Len(u) /\ \A i \in 1 .. Len(a) : a[i] = u[i]  BY <4>7, <4>8, <4>9
      <4>11. a = u  BY <4>10, SameText
      <4>12. a \o << >> = a  BY DEF Text
      <4> QED  BY <4>1, <4>2, <4>11, <4>12, TextEmpty
    <3> QED  BY <3>1, <3>2 DEF Of
  <2>8. PICK more \in Text : Visible(c) = a \o more  BY <2>7
  <2>9. PICK f : Fed(f, Visible(c)) /\ w = Ended(f)  BY <1>2, <2>7, CloseIs
  <2>10. Begins(e.lines, f.lines) /\ Begins(e.typed, f.typed)
    <3>1. Fed(f, a \o more)  BY <2>8, <2>9
    <3> QED  BY <2>6, <3>1, FedGrows
  <2>11. f \in Emitters /\ e \in Emitters  BY <2>6, <2>9 DEF Fed
  <2>12. Begins(f.lines, w.lines) /\ Begins(f.typed, w.typed)  BY <2>9, <2>11, EndedIs
  <2>13. /\ f.lines \in Seq(Text) /\ e.lines \in Seq(Text)
         /\ f.typed \in Seq(Atoms) /\ e.typed \in Seq(Atoms)
    BY <2>11 DEF Emitters, Text
  <2>14. Begins(e.lines, w.lines)  BY <1>3, <2>10, <2>12, <2>13, BeginsIs
  <2>15. Begins(e.typed, w.typed)  BY <1>3, <2>10, <2>12, <2>13, BeginsIs
  <2> QED  BY <1>2, <2>14, <2>15
<1> QED  BY <1>4, <1>5

LEMMA FreshReads == Reading(NewEmitter, << >>) /\ Fed(NewEmitter, << >>)
<1>1. Fresh(<< >>) = NewEmitter  BY DEF Fresh, NewEmitter
<1>2. NewEmitter \in Emitters  BY <1>1, TextEmpty, FreshIs
<1>3. Fold(Fresh(<< >>), << >>) = NewEmitter  BY <1>1, FoldSteps
<1>4. Fed(NewEmitter, << >>)  BY <1>2, <1>3 DEF Fed
<1>5. ~Enough(<< >>)
  <2>1. Words(<< >>) = {}  BY DEF Words
  <2> QED  BY <2>1, TextEmpty, EnoughStays
<1>6. /\ NewEmitter.stopped = FALSE /\ NewEmitter.thinkDone = FALSE /\ NewEmitter.inThink = FALSE
      /\ NewEmitter.seen = << >> /\ NewEmitter.raw = << >>
  BY DEF NewEmitter
<1> QED  BY <1>2, <1>4, <1>5, <1>6 DEF Reading

(* A marker in a beginning of a text is one of the text.                    *)
LEMMA LeakEndsIs ==
    ASSUME NEW s \in Text, NEW u \in Text, Len(s) <= Len(u), \A i \in 1 .. Len(s) : s[i] = u[i]
    PROVE  LeakEnds(s) = {k \in LeakEnds(u) : k <= Len(s)}
<1>1. Len(s) \in Nat /\ Len(u) \in Nat  BY DEF Text
<1>2. ASSUME NEW k \in 2 .. Len(s)
      PROVE  k \in LeakEnds(s) <=> k \in LeakEnds(u)
  <2>1. k \in 2 .. Len(u) /\ k \in 1 .. Len(s)  BY <1>1
  <2>2. \A i \in 1 .. k - 1 : i \in 1 .. Len(s) /\ \A j \in i + 1 .. k - 1 : j \in 1 .. Len(s)
    BY <1>1
  <2>3. s[k] = u[k]  BY <2>1
  <2>4. \A i \in 1 .. k - 1 : s[i] = u[i] /\ \A j \in i + 1 .. k - 1 : s[j] = u[j]  BY <2>2
  <2> QED  BY <2>1, <2>3, <2>4 DEF LeakEnds
<1>3. LeakEnds(s) \subseteq 2 .. Len(s) /\ LeakEnds(u) \subseteq 2 .. Len(u)  BY DEF LeakEnds
<1>4. \A k \in LeakEnds(u) : k <= Len(s) => k \in 2 .. Len(s)  BY <1>1, <1>3
<1> QED  BY <1>1, <1>2, <1>3, <1>4

LEMMA NothingStops == Stops(<< >>) = {}
<1>1. Places(<< >>, << "ban1", "ban2" >>) \subseteq 1 .. Len(<< >>) - 1  BY TextEmpty, PlacesIs
<1>2. LeakEnds(<< >>) \subseteq 2 .. Len(<< >>)  BY DEF LeakEnds
<1>3. Len(<< >>) = 0  BY TextEmpty
<1>4. 1 .. 0 - 1 = {} /\ 2 .. 0 = {}  OBVIOUS
<1> QED  BY <1>1, <1>2, <1>3, <1>4 DEF BanTag, Stops

(* What has been read and is not cut off yet, and the text up to where it   *)
(* is.                                                                      *)
LEMMA CleanIs ==
    ASSUME text \in Text
    PROVE  /\ Clean \in Text /\ Stops(Clean) = {}
           /\ Stops(text) = {} => Clean = text
           /\ Clean = text => Stops(text) = {}
           /\ \A n \in 0 .. Len(text) :
                 /\ Stops(SubSeq(text, 1, n)) = {} => Of(SubSeq(text, 1, n), Clean)
                 /\ Stops(SubSeq(text, 1, n)) # {} => Stops(text) # {}
<1>0. Len(text) \in Nat  BY DEF Text
<1>1. PICK B : B = Places(text, BanTag)  OBVIOUS
<1>2. PICK L : L = LeakEnds(text)  OBVIOUS
<1>3. PICK P : P = B \cup L /\ P = Stops(text)  BY <1>1, <1>2 DEF Stops
<1>4. /\ \A i \in B : i \in 1 .. Len(text) /\ text[i] = "ban1"
      /\ \A i \in L : i \in 1 .. Len(text)
  <2>1. B = {i \in 1 .. Len(text) - 1 : text[i] = "ban1" /\ text[i + 1] = "ban2"}
    BY <1>1, PlacesIs DEF BanTag
  <2>2. L \subseteq 2 .. Len(text)  BY <1>2 DEF LeakEnds
  <2> QED  BY <1>0, <2>1, <2>2
<1>5. ASSUME NEW n \in 0 .. Len(text)
      PROVE  /\ SubSeq(text, 1, n) \in Text /\ Len(SubSeq(text, 1, n)) = n
             /\ \A i \in 1 .. n : SubSeq(text, 1, n)[i] = text[i]
             /\ Stops(SubSeq(text, 1, n)) = {i \in B : i < n} \cup {i \in L : i <= n}
             /\ \E t \in Text : text = SubSeq(text, 1, n) \o t
  <2>1. PICK s \in Text : s = SubSeq(text, 1, n) /\ Len(s) = n /\ \A i \in 1 .. n : s[i] = text[i]
    BY FirstPart
  <2>2. PICK t \in Text : t = From(text, n + 1)
    <3>1. n + 1 \in Nat \ {0}  BY <1>0
    <3> QED  BY <3>1, FromIs
  <2>3. text = s \o t  BY <2>1, <2>2, Parts
  <2>4. /\ Places(s, BanTag) \subseteq B
        /\ \A i \in B : i < Len(s) => i \in Places(s, BanTag)
        /\ \A i \in Places(s, BanTag) : i < Len(s)
    BY <1>1, <2>3, PlacesMore DEF BanTag
  <2>5. Places(s, BanTag) = {i \in B : i < n}  BY <2>1, <2>4
  <2>6. LeakEnds(s) = {i \in L : i <= n}
    <3>1. Len(s) <= Len(text) /\ Len(s) = n  BY <1>0, <2>1
    <3>2. \A i \in 1 .. Len(s) : s[i] = text[i]  BY <2>1
    <3>3. LeakEnds(s) = {k \in LeakEnds(text) : k <= Len(s)}  BY <3>1, <3>2, LeakEndsIs
    <3> QED  BY <1>2, <3>1, <3>3
  <2> QED  BY <2>1, <2>3, <2>5, <2>6 DEF Stops
<1>6. \A n \in 0 .. Len(text) : Stops(SubSeq(text, 1, n)) # {} => P # {}  BY <1>3, <1>5
<1>7. CASE P = {}
  <2>1. Clean = text  BY <1>3, <1>7 DEF Clean
  <2>2. ASSUME NEW n \in 0 .. Len(text) PROVE Of(SubSeq(text, 1, n), Clean)
    BY <1>5, <2>1 DEF Of
  <2> QED  BY <1>3, <1>6, <1>7, <2>1, <2>2
<1>8. CASE P # {}
  <2>1. P \subseteq Nat  BY <1>0, <1>3, <1>4
  <2>2. PICK m : m = Min(P)  OBVIOUS
  <2>3. m \in P /\ m \in Nat /\ \A y \in P : m <= y  BY <1>8, <2>1, <2>2, LeastIs
  <2>4. m \in 1 .. Len(text) /\ (m \in L \/ (m \in B /\ text[m] = "ban1"))  BY <1>3, <1>4, <2>3
  <2>5. m - 1 \in 0 .. Len(text) /\ m - 1 \in Nat /\ m - 1 < Len(text)  BY <1>0, <2>3, <2>4
  <2>6. PICK c : c = SubSeq(text, 1, m - 1)  OBVIOUS
  <2>7. Clean = c  BY <1>3, <1>8, <2>2, <2>6 DEF Clean
  <2>8. /\ c \in Text /\ Len(c) = m - 1 /\ \A i \in 1 .. m - 1 : c[i] = text[i]
        /\ Stops(c) = {i \in B : i < m - 1} \cup {i \in L : i <= m - 1}
    BY <1>5, <2>5, <2>6
  <2>9. Stops(c) = {}
    <3>1. \A i \in P : ~(i < m - 1) /\ ~(i <= m - 1)  BY <2>1, <2>3
    <3> QED  BY <1>3, <2>8, <3>1
  <2>10. Clean # text  BY <1>0, <2>5, <2>7, <2>8
  <2>11. ASSUME NEW n \in 0 .. Len(text), Stops(SubSeq(text, 1, n)) = {}
         PROVE  Of(SubSeq(text, 1, n), c)
    <3>1. PICK s \in Text : /\ s = SubSeq(text, 1, n) /\ Len(s) = n
                            /\ \A i \in 1 .. n : s[i] = text[i]
                            /\ Stops(s) = {i \in B : i < n} \cup {i \in L : i <= n}
      BY <1>5
    <3>2. n \in Nat /\ (n <= m - 1 \/ (n = m /\ text[m] = "ban1"))
      <4>1. n \in Nat /\ Stops(s) = {}  BY <1>0, <2>11, <3>1
      <4>2. (m \in B => ~(m < n)) /\ (m \in L => ~(m <= n))  BY <3>1, <4>1
      <4> QED  BY <2>3, <2>4, <4>1, <4>2
    <3>3. CASE n <= m - 1
      <4>1. n \in 0 .. Len(c)  BY <2>5, <2>8, <3>2, <3>3
      <4>2. PICK a \in Text : a = SubSeq(c, 1, n) /\ Len(a) = n /\ \A i \in 1 .. n : a[i] = c[i]
        BY <2>8, <4>1, FirstPart
      <4>3. \A i \in 1 .. n : i \in 1 .. m - 1  BY <2>5, <3>2, <3>3
      <4>4. a = s  BY <2>8, <3>1, <4>2, <4>3, SameText
      <4>5. PICK t \in Text : t = From(c, n + 1)
        <5>1. n + 1 \in Nat \ {0}  BY <3>2
        <5> QED  BY <2>8, <5>1, FromIs
      <4>6. c = s \o t  BY <2>8, <4>1, <4>2, <4>4, <4>5, Parts
      <4> QED  BY <3>1, <4>6 DEF Of
    <3>4. CASE n = m /\ text[m] = "ban1"
      <4>1. PICK t \in Text : t = << "ban1" >> /\ Len(t) = 1 /\ t[1] = "ban1"
        <5>1. << "ban1" >> \in Text /\ Len(<< "ban1" >>) = 1 /\ << "ban1" >>[1] = "ban1"  BY DEF Text, Atoms
        <5> QED  BY <5>1
      <4>2. PICK u : u = c \o t  OBVIOUS
      <4>3. /\ u \in Text /\ Len(u) = Len(c) + Len(t)
            /\ \A i \in 1 .. Len(c) : u[i] = c[i]
            /\ \A i \in Len(c) + 1 .. Len(c) + Len(t) : u[i] = t[i - Len(c)]
        BY <2>8, <4>2, Joined
      <4>4. Len(u) = n  BY <2>3, <2>8, <3>4, <4>1, <4>3
      <4>5. ASSUME NEW i \in 1 .. Len(s) PROVE s[i] = u[i]
        <5>1. CASE i <= m - 1
          <6>1. i \in 1 .. m - 1 /\ i \in 1 .. n  BY <2>3, <3>1, <4>5, <5>1
          <6> QED  BY <2>8, <3>1, <4>3, <6>1
        <5>2. CASE i = m
          <6>1. i \in Len(c) + 1 .. Len(c) + Len(t) /\ i - Len(c) = 1 /\ i \in 1 .. n
            BY <2>3, <2>4, <2>8, <3>4, <4>1, <5>2
          <6>2. u[i] = "ban1"  BY <4>1, <4>3, <6>1
          <6> QED  BY <3>1, <3>4, <5>2, <6>1, <6>2
        <5>3. i <= m - 1 \/ i = m  BY <2>3, <3>1, <3>4, <4>5
        <5> QED  BY <5>1, <5>2, <5>3
      <4>6. s = u  BY <3>1, <4>3, <4>4, <4>5, SameText
      <4> QED  BY <3>1, <4>1, <4>2, <4>6 DEF Of
    <3> QED  BY <3>2, <3>3, <3>4
  <2> QED  BY <1>3, <1>6, <1>8, <2>7, <2>8, <2>9, <2>10, <2>11
<1> QED  BY <1>7, <1>8

-----------------------------------------------------------------------------
(* The answers are texts of the atoms above.                                *)
StreamConstants == Answers \subseteq Text

ReadOf == SubSeq(text, 1, read)
Whole == ReplayOutput(Clean)

(* An emitter that is not stopped knows what it has read of the text, which *)
(* is not cut off yet; and what it shows begins what is shown in the end.   *)
StreamInv ==
    /\ text \in Text /\ read \in 0 .. Len(text) /\ lineEmitter \in Emitters
    /\ stream = "open" /\ lineEmitter.stopped => Stops(text) # {}
    /\ stream = "open" /\ ~lineEmitter.stopped =>
          Reading(lineEmitter, ReadOf) /\ Stops(ReadOf) = {}
    /\ stream # "canceled" => /\ Begins(lineEmitter.lines, Whole.lines)
                              /\ Begins(lineEmitter.typed, Whole.typed)
    /\ stream = "closed" /\ Clean = text =>
          lineEmitter.lines = Whole.lines /\ lineEmitter.typed = Whole.typed

LEMMA WholeIs ==
    ASSUME text \in Text
    PROVE  /\ Reading(WriteDelta(NewEmitter, Clean), Clean)
           /\ Whole = CloseEmitter(WriteDelta(NewEmitter, Clean))
           /\ Whole \in Emitters
<1>1. PICK c \in Text : c = Clean /\ Stops(c) = {}  BY CleanIs
<1>2. Reading(NewEmitter, << >>) /\ << >> \in Text  BY FreshReads, TextEmpty
<1>3. Heard(NewEmitter, c)
  <2>1. NewEmitter.thinkDone = FALSE  BY DEF NewEmitter
  <2> QED  BY <2>1 DEF Heard
<1>4. << >> \o c = c  BY DEF Text
<1>5. Reading(WriteDelta(NewEmitter, c), c)  BY <1>1, <1>2, <1>3, <1>4, WriteIs
<1>6. Whole = CloseEmitter(WriteDelta(NewEmitter, c))  BY <1>1 DEF Whole, ReplayOutput
<1>7. Whole \in Emitters  BY <1>5, <1>6, CloseIs
<1> QED  BY <1>1, <1>5, <1>6, <1>7

LEMMA StreamStarts == ASSUME StreamConstants, StreamInit PROVE StreamInv
<1>1. text \in Text /\ read = 0 /\ lineEmitter = NewEmitter /\ stream = "open"
  BY DEF StreamConstants, StreamInit
<1>2. Len(text) \in Nat /\ SubSeq(text, 1, 0) = << >>  BY <1>1 DEF Text
<1>3. Reading(NewEmitter, << >>) /\ NewEmitter \in Emitters  BY FreshReads DEF Reading
<1>4. NewEmitter.stopped = FALSE /\ NewEmitter.lines = << >> /\ NewEmitter.typed = << >>
  BY DEF NewEmitter
<1>5. Stops(<< >>) = {}  BY NothingStops
<1>6. Begins(<< >>, Whole.lines) /\ Begins(<< >>, Whole.typed)
  <2>1. Whole \in Emitters  BY <1>1, WholeIs
  <2>2. Whole.lines \in Seq(Text) /\ Whole.typed \in Text  BY <2>1 DEF Emitters
  <2>3. Len(Whole.lines) \in Nat /\ Len(Whole.typed) \in Nat  BY <2>2 DEF Text
  <2>4. Len(<< >>) = 0  BY TextEmpty
  <2> QED  BY <2>3, <2>4 DEF Begins
<1>7. ReadOf = << >> /\ read \in 0 .. Len(text)  BY <1>1, <1>2 DEF ReadOf
<1> QED  BY <1>1, <1>3, <1>4, <1>5, <1>6, <1>7 DEF StreamInv

LEMMA StreamReads ==
    ASSUME StreamInv, stream = "open", stream' = stream, text' = text,
           NEW n \in read + 1 .. Len(text), read' = n,
           lineEmitter' = WriteDelta(lineEmitter, SubSeq(text, read + 1, n))
    PROVE  StreamInv'
<1>0. /\ text \in Text /\ read \in 0 .. Len(text) /\ lineEmitter \in Emitters
      /\ lineEmitter.stopped => Stops(text) # {}
      /\ Begins(lineEmitter.lines, Whole.lines) /\ Begins(lineEmitter.typed, Whole.typed)
  BY DEF StreamInv
<1>1. Len(text) \in Nat /\ n \in 0 .. Len(text) /\ read \in Nat /\ n \in Nat
  BY <1>0 DEF Text
<1>2. Clean' = Clean /\ Whole' = Whole  BY DEF Clean, Whole
<1>3. PICK p \in Text : p = ReadOf /\ Len(p) = read /\ \A i \in 1 .. read : p[i] = text[i]
  BY <1>0, FirstPart DEF ReadOf
<1>4. PICK q \in Text : q = SubSeq(text, 1, n) /\ Len(q) = n /\ \A i \in 1 .. n : q[i] = text[i]
  BY <1>0, <1>1, FirstPart
<1>5. ReadOf' = q  BY <1>4 DEF ReadOf
<1>6. PICK d \in Text : /\ d = SubSeq(text, read + 1, n) /\ Len(d) = n - read
                        /\ \A i \in 1 .. n - read : d[i] = text[read + i]
  <2>1. SubSeq(text, read + 1, n) \in Text /\ Len(SubSeq(text, read + 1, n)) = n - read
    BY <1>0, <1>1 DEF Text
  <2>2. \A i \in 1 .. n - read : SubSeq(text, read + 1, n)[i] = text[read + i]
    BY <1>0, <1>1 DEF Text
  <2> QED  BY <2>1, <2>2
<1>7. p \o d = q
  <2>1. PICK u : u = p \o d  OBVIOUS
  <2>2. /\ u \in Text /\ Len(u) = Len(p) + Len(d)
        /\ \A i \in 1 .. Len(p) : u[i] = p[i]
        /\ \A i \in Len(p) + 1 .. Len(p) + Len(d) : u[i] = d[i - Len(p)]
    BY <2>1, Joined
  <2>3. Len(u) = Len(q)  BY <1>1, <1>3, <1>4, <1>6, <2>2
  <2>4. ASSUME NEW i \in 1 .. Len(u) PROVE u[i] = q[i]
    <3>1. CASE i <= read
      <4>1. i \in 1 .. read /\ i \in 1 .. n  BY <1>1, <1>4, <2>3, <2>4, <3>1
      <4> QED  BY <1>3, <1>4, <2>2, <4>1
    <3>2. CASE i > read
      <4>1. /\ i \in Len(p) + 1 .. Len(p) + Len(d) /\ i - read \in 1 .. n - read
            /\ read + (i - read) = i /\ i \in 1 .. n
        BY <1>1, <1>3, <1>4, <1>6, <2>3, <2>4, <3>2
      <4>2. u[i] = d[i - read]  BY <1>3, <2>2, <4>1
      <4>3. d[i - read] = text[read + (i - read)]  BY <1>6, <4>1
      <4> QED  BY <1>4, <4>1, <4>2, <4>3
    <3>3. i <= read \/ i > read  BY <1>1, <2>4
    <3> QED  BY <3>1, <3>2, <3>3
  <2>5. u = q  BY <2>2, <2>3, <2>4, SameText
  <2> QED  BY <2>1, <2>5
<1>8. d # << >>
  <2>1. Len(d) > 0  BY <1>1, <1>6
  <2>2. Len(<< >>) = 0  BY TextEmpty
  <2> QED  BY <2>1, <2>2
<1>9. PICK f : f = WriteDelta(lineEmitter, d)  OBVIOUS
<1>10. lineEmitter' = f  BY <1>6, <1>9
<1>11. CASE lineEmitter.stopped
  <2>1. f = lineEmitter  BY <1>9, <1>11 DEF WriteDelta
  <2>2. lineEmitter'.stopped /\ lineEmitter' = lineEmitter  BY <1>10, <1>11, <2>1
  <2> QED  BY <1>0, <1>1, <1>2, <1>11, <2>2 DEF StreamInv
<1>12. CASE ~lineEmitter.stopped
  <2>1. Reading(lineEmitter, p) /\ Stops(p) = {}  BY <1>3, <1>12 DEF StreamInv
  <2>2. Heard(lineEmitter, d)  BY <1>8 DEF Heard
  <2>3. CASE Stops(q) # {}
    <3>1. f \in Emitters /\ f.stopped /\ f.lines = lineEmitter.lines /\ f.typed = lineEmitter.typed
      BY <1>7, <1>9, <2>1, <2>2, <2>3, WriteIs
    <3>2. Stops(text) # {}  BY <1>0, <1>1, <1>4, <2>3, CleanIs
    <3> QED  BY <1>0, <1>1, <1>2, <1>10, <3>1, <3>2 DEF StreamInv
  <2>4. CASE Stops(q) = {}
    <3>1. Reading(f, q)  BY <1>7, <1>9, <2>1, <2>2, <2>4, WriteIs
    <3>2. f \in Emitters /\ ~f.stopped  BY <3>1 DEF Reading
    <3>3. PICK c \in Text : c = Clean  BY <1>0, CleanIs
    <3>4. Of(q, c)  BY <1>0, <1>1, <1>4, <2>4, <3>3, CleanIs
    <3>5. PICK r : r = WriteDelta(NewEmitter, c)  OBVIOUS
    <3>6. Reading(r, c) /\ Whole = CloseEmitter(r)  BY <1>0, <3>3, <3>5, WholeIs
    <3>7. Begins(f.lines, Whole.lines) /\ Begins(f.typed, Whole.typed)
      BY <3>1, <3>4, <3>6, ShownSoFar
    <3> QED  BY <1>0, <1>1, <1>2, <1>5, <1>10, <2>4, <3>1, <3>2, <3>7 DEF StreamInv
  <2> QED  BY <2>3, <2>4
<1> QED  BY <1>11, <1>12

LEMMA StreamEnds ==
    ASSUME StreamInv, stream = "open", text' = text, read' = read,
           lineEmitter' = CloseEmitter(lineEmitter),
           stream' = IF read = Len(text) THEN "closed" ELSE "canceled"
    PROVE  StreamInv'
<1>0. /\ text \in Text /\ read \in 0 .. Len(text) /\ lineEmitter \in Emitters
      /\ lineEmitter.stopped => Stops(text) # {}
      /\ Begins(lineEmitter.lines, Whole.lines) /\ Begins(lineEmitter.typed, Whole.typed)
  BY DEF StreamInv
<1>1. Clean' = Clean /\ Whole' = Whole  BY DEF Clean, Whole
<1>2. PICK f : f = CloseEmitter(lineEmitter)  OBVIOUS
<1>3. lineEmitter' = f /\ stream' # "open"  BY <1>2
<1>4. CASE lineEmitter.stopped
  <2>1. f = lineEmitter  BY <1>2, <1>4 DEF CloseEmitter
  <2>2. Clean # text  BY <1>0, <1>4, CleanIs
  <2> QED  BY <1>0, <1>1, <1>3, <2>1, <2>2 DEF StreamInv
<1>5. CASE ~lineEmitter.stopped
  <2>1. PICK p \in Text : p = ReadOf  BY <1>0, FirstPart DEF ReadOf
  <2>2. Reading(lineEmitter, p) /\ Stops(p) = {}  BY <1>5, <2>1 DEF StreamInv
  <2>3. f \in Emitters  BY <1>2, <2>1, <2>2, CloseIs
  <2>5. CASE read = Len(text)
    <3>1. p = text  BY <1>0, <2>1, <2>5 DEF ReadOf, Text
    <3>2. Clean = text  BY <1>0, <2>2, <3>1, CleanIs
    <3>3. PICK r : r = WriteDelta(NewEmitter, text)  OBVIOUS
    <3>4. Reading(r, text) /\ Whole = CloseEmitter(r)  BY <1>0, <3>2, <3>3, WholeIs
    <3>5. f.lines = Whole.lines /\ f.typed = Whole.typed
      BY <1>0, <1>2, <2>2, <3>1, <3>4, CloseSame
    <3>6. Begins(f.lines, Whole.lines) /\ Begins(f.typed, Whole.typed)
      <4>1. f.lines \in Seq(Text) /\ f.typed \in Text  BY <2>3 DEF Emitters
      <4>2. Len(f.lines) \in Nat /\ Len(f.typed) \in Nat  BY <4>1 DEF Text
      <4> QED  BY <3>5, <4>2 DEF Begins
    <3> QED  BY <1>0, <1>1, <1>3, <2>3, <3>5, <3>6 DEF StreamInv
  <2>6. CASE read # Len(text)
    <3>1. stream' = "canceled"  BY <2>6
    <3> QED  BY <1>0, <1>1, <1>3, <2>3, <3>1 DEF StreamInv
  <2> QED  BY <2>5, <2>6
<1> QED  BY <1>4, <1>5

LEMMA StreamHolds == ASSUME StreamConstants PROVE StreamSpec => []StreamInv
<1>1. StreamInit => StreamInv  BY StreamStarts
<1>2. StreamInv /\ [ConsumeStream]_streamVars => StreamInv'
  <2>1. ASSUME StreamInv, UNCHANGED streamVars PROVE StreamInv'
    BY <2>1 DEF StreamInv, streamVars, ReadOf, Whole, Clean
  <2>2. ASSUME StreamInv, ConsumeStream PROVE StreamInv'
    <3>1. CASE \E n \in read + 1 .. Len(text) :
                  /\ lineEmitter' = WriteDelta(lineEmitter, SubSeq(text, read + 1, n))
                  /\ read' = n
                  /\ UNCHANGED stream
      <4>1. PICK n \in read + 1 .. Len(text) :
                  /\ lineEmitter' = WriteDelta(lineEmitter, SubSeq(text, read + 1, n))
                  /\ read' = n
                  /\ UNCHANGED stream
        BY <3>1
      <4>2. stream = "open" /\ text' = text  BY <2>2 DEF ConsumeStream
      <4> QED  BY <2>2, <4>1, <4>2, StreamReads
    <3>2. CASE /\ lineEmitter' = CloseEmitter(lineEmitter)
               /\ stream' = IF read = Len(text) THEN "closed" ELSE "canceled"
               /\ UNCHANGED read
      <4>1. stream = "open" /\ text' = text  BY <2>2 DEF ConsumeStream
      <4> QED  BY <2>2, <3>2, <4>1, StreamEnds
    <3> QED  BY <2>2, <3>1, <3>2 DEF ConsumeStream
  <2> QED  BY <2>1, <2>2
<1> QED  BY <1>1, <1>2, PTL DEF StreamSpec

(* However a provider cuts its answer into pieces, what the screen has been *)
(* given is at any time a beginning of what it is given of the answer       *)
(* written at once, and all of it in the end, for any answer (lineEmitter). *)
THEOREM StreamsAsWhole == ASSUME StreamConstants PROVE StreamSpec => []StreamedAsWhole
<1>1. StreamInv => StreamedAsWhole
  <2> SUFFICES ASSUME StreamInv, stream # "canceled"
               PROVE  /\ IsPrefix(lineEmitter.lines, Whole.lines)
                      /\ IsPrefix(lineEmitter.typed, Whole.typed)
                      /\ stream = "closed" /\ Clean = text =>
                           lineEmitter.lines = Whole.lines /\ lineEmitter.typed = Whole.typed
    BY DEF StreamedAsWhole, Whole
  <2>1. /\ text \in Text /\ lineEmitter \in Emitters
        /\ Begins(lineEmitter.lines, Whole.lines) /\ Begins(lineEmitter.typed, Whole.typed)
        /\ stream = "closed" /\ Clean = text =>
              lineEmitter.lines = Whole.lines /\ lineEmitter.typed = Whole.typed
    BY DEF StreamInv
  <2>2. Whole \in Emitters  BY <2>1, WholeIs
  <2>3. /\ lineEmitter.lines \in Seq(Text) /\ Whole.lines \in Seq(Text)
        /\ lineEmitter.typed \in Seq(Atoms) /\ Whole.typed \in Seq(Atoms)
    BY <2>1, <2>2 DEF Emitters, Text
  <2>4. IsPrefix(lineEmitter.lines, Whole.lines)  BY <2>1, <2>3, BeginsIs
  <2>5. IsPrefix(lineEmitter.typed, Whole.typed)  BY <2>1, <2>3, BeginsIs
  <2> QED  BY <2>1, <2>4, <2>5
<1> QED  BY <1>1, StreamHolds, PTL
=============================================================================
