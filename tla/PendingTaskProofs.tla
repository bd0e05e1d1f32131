--------------------------- MODULE PendingTaskProofs ---------------------------
(***************************************************************************)
(* Theorems about PendingTask, for any runs, legs, updates and numbers of   *)
(* slots and events: claims of the task exclude each other, the file waits  *)
(* for no leg that has gone, and a leg's result is in the file until it is  *)
(* told, once.  About CommandWatch, for any buffer, report and result: no   *)
(* line with an error of a background command gets lost.  And about         *)
(* WebConfirms, for any confirmations, pages and buffers: a page shows what *)
(* waits for its user and is told what it missed.                           *)
(***************************************************************************)
EXTENDS PendingTask, CommandWatch, WebConfirms, FiniteSetTheorems, TLAPS

-----------------------------------------------------------------------------
(* What the operators on records return.                                    *)

LEMMA EmptyTypes == NewTask \in Tasks /\ NoText \in Texts
BY DEF NewTask, Tasks, NoLegs, NoUpdates, LegStates, NoText, Texts

LEMMA GoType ==
    ASSUME pc \in [Runs -> RunPCs], NEW r \in Runs, NEW from, NEW to \in RunPCs, Go(r, from, to)
    PROVE  pc' \in [Runs -> RunPCs]
BY DEF Go

LEMMA SpendType ==
    ASSUME used \subseteq Events, left \in 0..MaxEvents, NEW event \in Events, Spend(event)
    PROVE  used' \subseteq Events /\ left' \in 0..MaxEvents
BY PendingAssumption DEF Spend

LEMMA AskedType ==
    ASSUME NEW f \in Tasks, NEW b \in BOOLEAN
    PROVE  [f EXCEPT !.asks = b] \in Tasks
BY DEF Tasks

LEMMA LegSetType ==
    ASSUME NEW f \in Tasks, NEW l \in Legs, NEW s \in LegStates
    PROVE  [f EXCEPT !.legs[l] = s] \in Tasks
BY DEF Tasks

LEMMA NoLegsType ==
    ASSUME NEW f \in Tasks
    PROVE  Cleared(f) \in Tasks
BY DEF Cleared, Tasks, NoLegs, NoUpdates, LegStates

LEMMA CommittedType ==
    ASSUME NEW f \in Tasks, staged \in Reports
    PROVE  Committed(f) \in Tasks
BY DEF Committed, Tasks, Reports, LegStates

LEMMA TextOfType ==
    ASSUME NEW f \in Tasks
    PROVE  TextOf(f) \in Texts /\ Finished(f) \in SUBSET Legs
           /\ ReportOf(f) \in [Legs -> SUBSET Updates]
<1>1. Cardinality(Running(f)) \in Nat
  BY PendingAssumption, FS_Subset, FS_CardinalityType DEF Running
<1>2. Finished(f) \in SUBSET Legs /\ ReportOf(f) \in [Legs -> SUBSET Updates]
  BY DEF Finished, ReportOf, Tasks
<1>3. NoText \in Texts /\ [NoText EXCEPT !.asks = TRUE] \in Texts
  BY EmptyTypes DEF Texts
<1>4. [asks |-> FALSE, done |-> Finished(f), updates |-> ReportOf(f),
       left |-> Cardinality(Running(f))] \in Texts
  BY <1>1, <1>2 DEF Texts
<1> QED  BY <1>2, <1>3, <1>4 DEF TextOf

LEMMA AskedLegs ==
    ASSUME NEW f \in Tasks, NEW b \in BOOLEAN
    PROVE  /\ [f EXCEPT !.asks = b] # None
           /\ [f EXCEPT !.asks = b].legs = f.legs
           /\ Running([f EXCEPT !.asks = b]) = Running(f)
           /\ Finished([f EXCEPT !.asks = b]) = Finished(f)
BY NoneAssumption, AskedType DEF Tasks, Running, Finished

LEMMA LegSetLegs ==
    ASSUME NEW f \in Tasks, NEW l \in Legs, NEW s \in LegStates
    PROVE  /\ [f EXCEPT !.legs[l] = s] # None
           /\ [f EXCEPT !.legs[l] = s].legs = [f.legs EXCEPT ![l] = s]
BY NoneAssumption, LegSetType DEF Tasks

LEMMA UpdatedLegs ==
    ASSUME NEW f \in Tasks, NEW l \in Legs, NEW u \in Updates
    PROVE  /\ [f EXCEPT !.updates[l] = @ \cup {u}] \in Tasks
           /\ [f EXCEPT !.updates[l] = @ \cup {u}].legs = f.legs
BY DEF Tasks

LEMMA NoLegsLegs ==
    ASSUME NEW f \in Tasks
    PROVE  /\ Cleared(f) # None
           /\ Running(Cleared(f)) = {}
           /\ Finished(Cleared(f)) = {}
BY NoneAssumption, NoLegsType DEF Cleared, Tasks, Running, Finished, NoLegs

\* Committing a report takes no leg at work out of the file, and what it told.
LEMMA CommittedLegs ==
    ASSUME NEW f \in Tasks, staged \in Reports
    PROVE  /\ Committed(f) # None
           /\ Running(Committed(f)) \subseteq Running(f)
           /\ Running(f) \ staged.done \subseteq Running(Committed(f))
           /\ Finished(Committed(f)) = Finished(f) \ staged.done
<1>1. Committed(f).legs = [l \in Legs |-> IF l \in staged.done /\ f.legs[l] # "absent"
                                       THEN "reported" ELSE f.legs[l]]
  BY DEF Committed, Tasks
<1>2. Committed(f) # None  BY CommittedType, NoneAssumption
<1> QED  BY <1>1, <1>2 DEF Running, Finished

-----------------------------------------------------------------------------
(* Every variable keeps its type.                                           *)

\* A run that is about to stage a record has read one.
ReadInv == \A r \in Runs : pc[r] = "stage" => seen[r] # None
TypeInv == TypeOK /\ ReadInv

LEMMA TypeInit == Init => TypeOK
<1> SUFFICES ASSUME Init PROVE TypeOK  OBVIOUS
<1>1. FileTypeOK
  BY EmptyTypes DEF Init, FileTypeOK, NoUpdates
<1>2. pc \in [Runs -> RunPCs]
  BY DEF Init, RunPCs
<1>3. left \in 0..MaxEvents
  BY PendingAssumption DEF Init
<1>4. RunTypeOK
  BY PendingAssumption, <1>2, <1>3 DEF Init, RunTypeOK
<1>5. LegTypeOK
  BY DEF Init, LegTypeOK, LegPCs
<1> QED  BY <1>1, <1>4, <1>5 DEF TypeOK

LEMMA ResumeType ==
    ASSUME TypeInv, NEW r \in Runs, Resume(r) PROVE TypeOK'
<1>1. FileTypeOK'
  BY DEF TypeInv, TypeOK, FileTypeOK, Resume, Go, Claim, Spend, runVars, stopVars, legVars, bgVars
<1>2. RunTypeOK'
  BY PendingAssumption DEF TypeInv, TypeOK, RunTypeOK, Resume, Go, Claim, Spend, runVars,
     stopVars, legVars, bgVars, RunPCs, Events
<1>3. LegTypeOK'
  BY DEF TypeInv, TypeOK, LegTypeOK, Resume, Go, Claim, Spend, runVars, stopVars, legVars, bgVars
<1> QED  BY <1>1, <1>2, <1>3 DEF TypeOK

LEMMA FollowType ==
    ASSUME TypeInv, NEW r \in Runs, Follow(r) PROVE TypeOK'
<1>1. FileTypeOK'
  BY DEF TypeInv, TypeOK, FileTypeOK, Follow, Go, Spend, runVars, stopVars, legVars, bgVars
<1>2. RunTypeOK'
  BY PendingAssumption DEF TypeInv, TypeOK, RunTypeOK, Follow, Go, Spend, runVars, stopVars,
     legVars, bgVars, RunPCs, Events
<1>3. LegTypeOK'
  BY DEF TypeInv, TypeOK, LegTypeOK, Follow, Go, Spend, runVars, stopVars, legVars, bgVars
<1> QED  BY <1>1, <1>2, <1>3 DEF TypeOK

LEMMA FollowClaimType ==
    ASSUME TypeInv, NEW r \in Runs, FollowClaim(r) PROVE TypeOK'
<1>1. FileTypeOK'
  BY DEF TypeInv, TypeOK, FileTypeOK, FollowClaim, Go, Claim, runVars, stopVars, legVars, bgVars,
     logVars, spent
<1>2. RunTypeOK'
  BY DEF TypeInv, TypeOK, RunTypeOK, FollowClaim, Go, Claim, runVars, stopVars, legVars, bgVars,
     logVars, spent, RunPCs
<1>3. LegTypeOK'
  BY DEF TypeInv, TypeOK, LegTypeOK, FollowClaim, Go, Claim, runVars, stopVars, legVars, bgVars,
     logVars, spent
<1> QED  BY <1>1, <1>2, <1>3 DEF TypeOK

LEMMA AnswerType ==
    ASSUME TypeInv, NEW r \in Runs, Answer(r) PROVE TypeOK'
<1>1. FileTypeOK'
  BY DEF TypeInv, TypeOK, FileTypeOK, Answer, Go, Spend, stopVars, legVars, bgVars
<1>2. RunTypeOK'
  <2>1. used' \subseteq Events /\ left' \in 0..MaxEvents
    BY SpendType DEF TypeInv, TypeOK, RunTypeOK, Answer, Events
  <2>2. pc' \in [Runs -> RunPCs]
    BY DEF TypeInv, TypeOK, RunTypeOK, Answer, Go, RunPCs
  <2> QED
    BY <2>1, <2>2 DEF TypeInv, TypeOK, RunTypeOK, Answer, stopVars, runVars
<1>3. LegTypeOK'
  BY DEF TypeInv, TypeOK, LegTypeOK, Answer, Go, Spend, stopVars, legVars, bgVars
<1> QED  BY <1>1, <1>2, <1>3 DEF TypeOK

LEMMA ReadTaskType ==
    ASSUME TypeInv, NEW r \in Runs, ReadTask(r) PROVE TypeOK'
<1>1. FileTypeOK'
  BY DEF TypeInv, TypeOK, FileTypeOK, ReadTask, Go, stopVars, legVars, bgVars, logVars, spent
<1>2. RunTypeOK'
  BY DEF TypeInv, TypeOK, RunTypeOK, ReadTask, Go, stopVars, legVars, bgVars, logVars, spent, RunPCs
<1>3. LegTypeOK'
  BY DEF TypeInv, TypeOK, LegTypeOK, ReadTask, Go, stopVars, legVars, bgVars, logVars, spent
<1> QED  BY <1>1, <1>2, <1>3 DEF TypeOK

LEMMA StageTaskType ==
    ASSUME TypeInv, NEW r \in Runs, StageTask(r) PROVE TypeOK'
<1>1. FileTypeOK'
  <2> DEFINE f == seen[r]
  <2>1. f \in Tasks
    BY DEF TypeInv, ReadInv, TypeOK, FileTypeOK, StageTask, Go
  <2>2. TextOf(f) \in Texts /\ Finished(f) \in SUBSET Legs
        /\ ReportOf(f) \in [Legs -> SUBSET Updates]
    BY <2>1, TextOfType
  <2>3. file' \in Tasks \cup {None}
    BY <2>1, AskedType DEF TypeInv, ReadInv, TypeOK, FileTypeOK, StageTask
  <2>4. staged' \in Reports \cup {None}
    BY <2>2 DEF StageTask, Reports
  <2> QED
    BY <2>2, <2>3, <2>4 DEF TypeInv, ReadInv, TypeOK, FileTypeOK, StageTask, legVars, logVars
<1>2. RunTypeOK'
  BY DEF TypeInv, TypeOK, RunTypeOK, StageTask, Go, stopVars, legVars, bgVars, logVars, spent,
     RunPCs
<1>3. LegTypeOK'
  BY DEF TypeInv, TypeOK, LegTypeOK, StageTask, Go, stopVars, legVars, bgVars, logVars, spent
<1> QED  BY <1>1, <1>2, <1>3 DEF TypeOK

LEMMA StartRunType ==
    ASSUME TypeInv, NEW r \in Runs, StartRun(r) PROVE TypeOK'
<1>1. FileTypeOK'
  BY DEF TypeInv, TypeOK, FileTypeOK, StartRun, Go, runVars, legVars, bgVars, logVars, spent
<1>2. RunTypeOK'
  BY DEF TypeInv, TypeOK, RunTypeOK, StartRun, Go, runVars, legVars, bgVars, logVars, spent, RunPCs
<1>3. LegTypeOK'
  BY DEF TypeInv, TypeOK, LegTypeOK, StartRun, Go, runVars, legVars, bgVars, logVars, spent
<1> QED  BY <1>1, <1>2, <1>3 DEF TypeOK

LEMMA FailStartType ==
    ASSUME TypeInv, NEW r \in Runs, FailStart(r) PROVE TypeOK'
<1>1. FileTypeOK'
  BY DEF TypeInv, TypeOK, FileTypeOK, FailStart, Go, Spend, runVars, stopVars, legVars, bgVars
<1>2. RunTypeOK'
  <2>1. used' \subseteq Events /\ left' \in 0..MaxEvents
    BY SpendType DEF TypeInv, TypeOK, RunTypeOK, FailStart, Events
  <2>2. pc' \in [Runs -> RunPCs]
    BY DEF TypeInv, TypeOK, RunTypeOK, FailStart, Go, RunPCs
  <2> QED
    BY <2>1, <2>2 DEF TypeInv, TypeOK, RunTypeOK, FailStart, stopVars, runVars
<1>3. LegTypeOK'
  BY DEF TypeInv, TypeOK, LegTypeOK, FailStart, Go, Spend, runVars, stopVars, legVars, bgVars
<1> QED  BY <1>1, <1>2, <1>3 DEF TypeOK

LEMMA AskUserType ==
    ASSUME TypeInv, NEW r \in Runs, AskUser(r) PROVE TypeOK'
<1>1. FileTypeOK'
  <2>1. file' \in Tasks
    BY EmptyTypes, AskedType DEF TypeInv, ReadInv, TypeOK, FileTypeOK, AskUser
  <2> QED
    BY <2>1 DEF TypeInv, ReadInv, TypeOK, FileTypeOK, AskUser, runVars, legVars
<1>2. RunTypeOK'
  <2>1. used' \subseteq Events /\ left' \in 0..MaxEvents
    BY SpendType DEF TypeInv, TypeOK, RunTypeOK, AskUser, Events
  <2>2. pc' \in [Runs -> RunPCs]
    BY DEF TypeInv, TypeOK, RunTypeOK, AskUser, Go, RunPCs
  <2> QED
    BY <2>1, <2>2 DEF TypeInv, TypeOK, RunTypeOK, AskUser, stopVars, runVars
<1>3. LegTypeOK'
  BY DEF TypeInv, TypeOK, LegTypeOK, AskUser, Free, Spend, runVars, stopVars, legVars, bgVars
<1> QED  BY <1>1, <1>2, <1>3 DEF TypeOK

LEMMA ReplyType ==
    ASSUME TypeInv, NEW r \in Runs, Reply(r) PROVE TypeOK'
<1>1. FileTypeOK'
  <2>1. CASE r # First /\ staged # None /\ staged.text = text[r]
    <3>1. staged \in Reports  BY <2>1 DEF TypeInv, ReadInv, TypeOK, FileTypeOK
    <3>2. file' \in Tasks \cup {None}
      BY <2>1, <3>1, CommittedType DEF TypeInv, ReadInv, TypeOK, FileTypeOK, Reply, Commit
    <3>3. told' \in [Legs -> Nat]
      BY <2>1, <3>1 DEF TypeInv, ReadInv, TypeOK, FileTypeOK, Reply, Commit
    <3> QED
      BY <2>1, <3>2, <3>3 DEF TypeInv, ReadInv, TypeOK, FileTypeOK, Reply, Commit, legVars
  <2>2. CASE ~(r # First /\ staged # None /\ staged.text = text[r])
    BY <2>2 DEF TypeInv, ReadInv, TypeOK, FileTypeOK, Reply, Commit, legVars
  <2> QED  BY <2>1, <2>2
<1>2. RunTypeOK'
  BY DEF TypeInv, TypeOK, RunTypeOK, Reply, Go, RunPCs, stopVars, spent
<1>3. LegTypeOK'
  BY DEF TypeInv, TypeOK, LegTypeOK, Reply, Free, stopVars, legVars, bgVars, spent
<1> QED  BY <1>1, <1>2, <1>3 DEF TypeOK

LEMMA ReplyUnsavedType ==
    ASSUME TypeInv, NEW r \in Runs, ReplyUnsaved(r) PROVE TypeOK'
<1>1. FileTypeOK'
  BY DEF TypeInv, TypeOK, FileTypeOK, ReplyUnsaved, Free, Spend, stopVars, legVars, bgVars
<1>2. RunTypeOK'
  <2>1. used' \subseteq Events /\ left' \in 0..MaxEvents
    BY SpendType DEF TypeInv, TypeOK, RunTypeOK, ReplyUnsaved, Events
  <2>2. pc' \in [Runs -> RunPCs]
    BY DEF TypeInv, TypeOK, RunTypeOK, ReplyUnsaved, Go, RunPCs
  <2> QED
    BY <2>1, <2>2 DEF TypeInv, TypeOK, RunTypeOK, ReplyUnsaved, stopVars, runVars
<1>3. LegTypeOK'
  BY DEF TypeInv, TypeOK, LegTypeOK, ReplyUnsaved, Free, Spend, stopVars, legVars, bgVars
<1> QED  BY <1>1, <1>2, <1>3 DEF TypeOK

LEMMA FailRunType ==
    ASSUME TypeInv, NEW r \in Runs, FailRun(r) PROVE TypeOK'
<1>1. FileTypeOK'
  BY DEF TypeInv, TypeOK, FileTypeOK, FailRun, Free, Spend, runVars, stopVars, legVars, bgVars
<1>2. RunTypeOK'
  <2>1. used' \subseteq Events /\ left' \in 0..MaxEvents
    BY SpendType DEF TypeInv, TypeOK, RunTypeOK, FailRun, Events
  <2>2. pc' \in [Runs -> RunPCs]
    BY DEF TypeInv, TypeOK, RunTypeOK, FailRun, Go, RunPCs
  <2> QED
    BY <2>1, <2>2 DEF TypeInv, TypeOK, RunTypeOK, FailRun, stopVars, runVars
<1>3. LegTypeOK'
  BY DEF TypeInv, TypeOK, LegTypeOK, FailRun, Free, Spend, runVars, stopVars, legVars, bgVars
<1> QED  BY <1>1, <1>2, <1>3 DEF TypeOK

LEMMA EndCanceledType ==
    ASSUME TypeInv, NEW r \in Runs, EndCanceled(r) PROVE TypeOK'
<1>1. FileTypeOK'
  BY DEF TypeInv, TypeOK, FileTypeOK, EndCanceled, Free, Schedule, ResumeUnreported, Delete,
     runVars, stopVars, legVars, bgVars, logVars, spent
<1>2. RunTypeOK'
  BY DEF TypeInv, TypeOK, RunTypeOK, EndCanceled, RunPCs, stopVars, runVars, logVars, spent
<1>3. LegTypeOK'
  BY DEF TypeInv, TypeOK, LegTypeOK, EndCanceled, Free, Schedule, ResumeUnreported, Delete,
     runVars, stopVars, legVars, bgVars, logVars, spent
<1> QED  BY <1>1, <1>2, <1>3 DEF TypeOK

LEMMA StopRunType ==
    ASSUME TypeInv, NEW r \in Runs, StopRun(r) PROVE TypeOK'
<1>1. FileTypeOK'
  BY EmptyTypes DEF TypeInv, ReadInv, TypeOK, FileTypeOK, StopRun, legVars, logVars
<1>2. RunTypeOK'
  BY DEF TypeInv, TypeOK, RunTypeOK, StopRun, Go, legVars, bgVars, logVars, spent, RunPCs
<1>3. LegTypeOK'
  BY DEF TypeInv, TypeOK, LegTypeOK, StopRun, Go, legVars, bgVars, logVars, spent
<1> QED  BY <1>1, <1>2, <1>3 DEF TypeOK

LEMMA AfterRunType ==
    ASSUME TypeInv, NEW r \in Runs, AfterRun(r) PROVE TypeOK'
<1>1. FileTypeOK'
  BY DEF TypeInv, TypeOK, FileTypeOK, AfterRun, Go, runVars, stopVars, legVars, bgVars, logVars,
     spent
<1>2. RunTypeOK'
  BY DEF TypeInv, TypeOK, RunTypeOK, AfterRun, Go, runVars, stopVars, legVars, bgVars, logVars,
     spent, RunPCs
<1>3. LegTypeOK'
  BY DEF TypeInv, TypeOK, LegTypeOK, AfterRun, Go, runVars, stopVars, legVars, bgVars, logVars,
     spent
<1> QED  BY <1>1, <1>2, <1>3 DEF TypeOK

LEMMA FileLegType ==
    ASSUME TypeInv, NEW r \in Runs, NEW l \in Legs, FileLeg(r, l) PROVE TypeOK'
<1>1. FileTypeOK'
  <2>1. file' \in Tasks \cup {None}
    BY LegSetType DEF TypeInv, ReadInv, TypeOK, FileTypeOK, FileLeg, LegStates
  <2> QED
    BY <2>1 DEF TypeInv, ReadInv, TypeOK, FileTypeOK, FileLeg, LegRest, runVars, logVars
<1>2. RunTypeOK'
  BY DEF TypeInv, TypeOK, RunTypeOK, FileLeg, Free, GoLeg, LegRest, runVars, stopVars, bgVars,
     logVars, spent
<1>3. LegTypeOK'
  BY DEF TypeInv, TypeOK, LegTypeOK, FileLeg, Free, GoLeg, LegRest, runVars, stopVars, bgVars,
     logVars, spent, LegPCs
<1> QED  BY <1>1, <1>2, <1>3 DEF TypeOK

LEMMA CleanLookType ==
    ASSUME TypeInv, NEW c \in Cleaners, CleanLook(c) PROVE TypeOK'
<1>1. FileTypeOK'
  BY DEF TypeInv, TypeOK, FileTypeOK, CleanLook, Clean, CleanRest, runVars, stopVars, legVars,
     bgVars, logVars, spent
<1>2. RunTypeOK'
  BY DEF TypeInv, TypeOK, RunTypeOK, CleanLook, Clean, CleanRest, runVars, stopVars, legVars,
     bgVars, logVars, spent, RunPCs, Cleaners
<1>3. LegTypeOK'
  BY DEF TypeInv, TypeOK, LegTypeOK, CleanLook, Clean, CleanRest, runVars, stopVars, legVars,
     bgVars, logVars, spent
<1> QED  BY <1>1, <1>2, <1>3 DEF TypeOK

LEMMA CleanClearType ==
    ASSUME TypeInv, NEW c \in Cleaners, CleanClear(c) PROVE TypeOK'
<1>1. FileTypeOK'
  <2>1. file' \in Tasks \cup {None}
    BY AskedType DEF TypeInv, ReadInv, TypeOK, FileTypeOK, CleanClear, LegStates
  <2> QED
    BY <2>1 DEF TypeInv, ReadInv, TypeOK, FileTypeOK, CleanClear, CleanRest, runVars, legVars,
       logVars
<1>2. RunTypeOK'
  BY DEF TypeInv, TypeOK, RunTypeOK, CleanClear, Clean, Schedule, ResumeUnreported, CleanRest,
     runVars, stopVars, legVars, bgVars, logVars, spent, RunPCs, Cleaners
<1>3. LegTypeOK'
  BY DEF TypeInv, TypeOK, LegTypeOK, CleanClear, Clean, Schedule, ResumeUnreported, CleanRest,
     runVars, stopVars, legVars, bgVars, logVars, spent
<1> QED  BY <1>1, <1>2, <1>3 DEF TypeOK

LEMMA CleanRowType ==
    ASSUME TypeInv, NEW c \in Cleaners, CleanRow(c) PROVE TypeOK'
<1>1. FileTypeOK'
  BY DEF TypeInv, TypeOK, FileTypeOK, CleanRow, Spend, Clean, CleanRest, runVars, stopVars,
     legVars, bgVars, spent
<1>2. RunTypeOK'
  <2>1. used' \subseteq Events /\ left' \in 0..MaxEvents
    BY SpendType DEF TypeInv, TypeOK, RunTypeOK, CleanRow, Events, spent
  <2>2. QED
    BY <2>1 DEF TypeInv, TypeOK, RunTypeOK, CleanRow, Clean, Cleaners, RunPCs, CleanRest, runVars,
       stopVars
<1>3. LegTypeOK'
  BY DEF TypeInv, TypeOK, LegTypeOK, CleanRow, Spend, Clean, CleanRest, runVars, stopVars,
     legVars, bgVars, spent
<1> QED  BY <1>1, <1>2, <1>3 DEF TypeOK

LEMMA CleanRemoveType ==
    ASSUME TypeInv, NEW c \in Cleaners, CleanRemove(c) PROVE TypeOK'
<1>1. FileTypeOK'
  BY DEF TypeInv, TypeOK, FileTypeOK, CleanRemove, Clean, CleanRest, runVars, stopVars, legVars,
     bgVars, spent
<1>2. RunTypeOK'
  BY DEF TypeInv, TypeOK, RunTypeOK, CleanRemove, Clean, CleanRest, runVars, stopVars, legVars,
     bgVars, spent, RunPCs, Cleaners
<1>3. LegTypeOK'
  BY DEF TypeInv, TypeOK, LegTypeOK, CleanRemove, Clean, CleanRest, runVars, stopVars, legVars,
     bgVars, spent
<1> QED  BY <1>1, <1>2, <1>3 DEF TypeOK

LEMMA RegisterLegType ==
    ASSUME TypeInv, NEW l \in Legs, RegisterLeg(l) PROVE TypeOK'
<1>1. FileTypeOK'
  BY DEF TypeInv, TypeOK, FileTypeOK, RegisterLeg, GoLeg, LegRest, runVars, stopVars, bgVars,
     logVars, spent
<1>2. RunTypeOK'
  BY DEF TypeInv, TypeOK, RunTypeOK, RegisterLeg, GoLeg, LegRest, runVars, stopVars, bgVars,
     logVars, spent
<1>3. LegTypeOK'
  BY DEF TypeInv, TypeOK, LegTypeOK, RegisterLeg, GoLeg, LegRest, runVars, stopVars, bgVars,
     logVars, spent, LegPCs
<1> QED  BY <1>1, <1>2, <1>3 DEF TypeOK

LEMMA UpdateLegType ==
    ASSUME TypeInv, NEW l \in Legs, UpdateLeg(l) PROVE TypeOK'
<1>1. FileTypeOK'
  <2>1. PICK u \in Updates \ sent[l] :
          /\ sent' = [sent EXCEPT ![l] = @ \cup {u}]
          /\ file' = [file EXCEPT !.updates[l] = @ \cup {u}]
    BY DEF UpdateLeg
  <2>2. file \in Tasks  BY DEF TypeInv, ReadInv, TypeOK, FileTypeOK, UpdateLeg
  <2>3. file' \in Tasks
    BY <2>1, <2>2 DEF Tasks
  <2>4. sent' \in [Legs -> SUBSET Updates]
    BY <2>1 DEF TypeInv, ReadInv, TypeOK, FileTypeOK
  <2> QED
    BY <2>3, <2>4 DEF TypeInv, ReadInv, TypeOK, FileTypeOK, UpdateLeg, runVars
<1>2. RunTypeOK'
  BY PendingAssumption DEF TypeInv, TypeOK, RunTypeOK, UpdateLeg, Spend, GoLeg, runVars, stopVars,
     bgVars, Events
<1>3. LegTypeOK'
  BY DEF TypeInv, TypeOK, LegTypeOK, UpdateLeg, Spend, GoLeg, runVars, stopVars, bgVars, LegPCs
<1> QED  BY <1>1, <1>2, <1>3 DEF TypeOK

LEMMA UpdateScheduleType ==
    ASSUME TypeInv, NEW l \in Legs, UpdateSchedule(l) PROVE TypeOK'
<1>1. FileTypeOK'
  BY DEF TypeInv, TypeOK, FileTypeOK, UpdateSchedule, GoLeg, Schedule, LegRest, runVars, stopVars,
     logVars, spent
<1>2. RunTypeOK'
  BY DEF TypeInv, TypeOK, RunTypeOK, UpdateSchedule, GoLeg, Schedule, LegRest, runVars, stopVars,
     logVars, spent
<1>3. LegTypeOK'
  BY DEF TypeInv, TypeOK, LegTypeOK, UpdateSchedule, GoLeg, Schedule, LegRest, runVars, stopVars,
     logVars, spent, LegPCs
<1> QED  BY <1>1, <1>2, <1>3 DEF TypeOK

LEMMA EndLegType ==
    ASSUME TypeInv, NEW l \in Legs, EndLeg(l) PROVE TypeOK'
<1>1. FileTypeOK'
  BY DEF TypeInv, TypeOK, FileTypeOK, EndLeg, GoLeg, LegRest, runVars, stopVars, bgVars, logVars,
     spent
<1>2. RunTypeOK'
  BY DEF TypeInv, TypeOK, RunTypeOK, EndLeg, GoLeg, LegRest, runVars, stopVars, bgVars, logVars,
     spent
<1>3. LegTypeOK'
  BY DEF TypeInv, TypeOK, LegTypeOK, EndLeg, GoLeg, LegRest, runVars, stopVars, bgVars, logVars,
     spent, LegPCs
<1> QED  BY <1>1, <1>2, <1>3 DEF TypeOK

LEMMA TakeCanceledType ==
    ASSUME TypeInv, NEW l \in Legs, TakeCanceled(l) PROVE TypeOK'
<1>1. FileTypeOK'
  BY DEF TypeInv, TypeOK, FileTypeOK, TakeCanceled, GoLeg, LegRest, runVars, stopVars, bgVars,
     logVars, spent
<1>2. RunTypeOK'
  BY DEF TypeInv, TypeOK, RunTypeOK, TakeCanceled, GoLeg, LegRest, runVars, stopVars, bgVars,
     logVars, spent
<1>3. LegTypeOK'
  BY DEF TypeInv, TypeOK, LegTypeOK, TakeCanceled, GoLeg, LegRest, runVars, stopVars, bgVars,
     logVars, spent, LegPCs
<1> QED  BY <1>1, <1>2, <1>3 DEF TypeOK

LEMMA FinishLegType ==
    ASSUME TypeInv, NEW l \in Legs, FinishLeg(l) PROVE TypeOK'
<1>1. FileTypeOK'
  <2>1. file' \in Tasks \cup {None}
    BY LegSetType DEF TypeInv, ReadInv, TypeOK, FileTypeOK, FinishLeg, LegStates
  <2> QED
    BY <2>1 DEF TypeInv, ReadInv, TypeOK, FileTypeOK, FinishLeg, LegRest, runVars, logVars
<1>2. RunTypeOK'
  BY DEF TypeInv, TypeOK, RunTypeOK, FinishLeg, GoLeg, LegRest, runVars, stopVars, bgVars,
     logVars, spent
<1>3. LegTypeOK'
  BY DEF TypeInv, TypeOK, LegTypeOK, FinishLeg, GoLeg, LegRest, runVars, stopVars, bgVars,
     logVars, spent, LegPCs
<1> QED  BY <1>1, <1>2, <1>3 DEF TypeOK

LEMMA ScheduleLegType ==
    ASSUME TypeInv, NEW l \in Legs, ScheduleLeg(l) PROVE TypeOK'
<1>1. FileTypeOK'
  BY DEF TypeInv, TypeOK, FileTypeOK, ScheduleLeg, GoLeg, Schedule, LegRest, runVars, stopVars,
     logVars, spent
<1>2. RunTypeOK'
  BY DEF TypeInv, TypeOK, RunTypeOK, ScheduleLeg, GoLeg, Schedule, LegRest, runVars, stopVars,
     logVars, spent
<1>3. LegTypeOK'
  BY DEF TypeInv, TypeOK, LegTypeOK, ScheduleLeg, GoLeg, Schedule, LegRest, runVars, stopVars,
     logVars, spent, LegPCs
<1> QED  BY <1>1, <1>2, <1>3 DEF TypeOK

LEMMA ResumeCheckType ==
    ASSUME TypeInv, ResumeCheck PROVE TypeOK'
<1>1. FileTypeOK'
  BY DEF TypeInv, TypeOK, FileTypeOK, ResumeCheck, GoResumer, ResumerRest, runVars, stopVars,
     legVars, logVars, spent
<1>2. RunTypeOK'
  BY DEF TypeInv, TypeOK, RunTypeOK, ResumeCheck, GoResumer, ResumerRest, runVars, stopVars,
     legVars, logVars, spent
<1>3. LegTypeOK'
  BY DEF TypeInv, TypeOK, LegTypeOK, ResumeCheck, GoResumer, ResumerRest, runVars, stopVars,
     legVars, logVars, spent
<1> QED  BY <1>1, <1>2, <1>3 DEF TypeOK

LEMMA ResumePollType ==
    ASSUME TypeInv, ResumePoll PROVE TypeOK'
<1>1. FileTypeOK'
  BY DEF TypeInv, TypeOK, FileTypeOK, ResumePoll, GoResumer, ResumerRest, runVars, stopVars,
     legVars, logVars, spent
<1>2. RunTypeOK'
  BY DEF TypeInv, TypeOK, RunTypeOK, ResumePoll, GoResumer, ResumerRest, runVars, stopVars,
     legVars, logVars, spent
<1>3. LegTypeOK'
  BY DEF TypeInv, TypeOK, LegTypeOK, ResumePoll, GoResumer, ResumerRest, runVars, stopVars,
     legVars, logVars, spent
<1> QED  BY <1>1, <1>2, <1>3 DEF TypeOK

LEMMA ResumeClaimType ==
    ASSUME TypeInv, ResumeClaim PROVE TypeOK'
<1>1. FileTypeOK'
  BY DEF TypeInv, TypeOK, FileTypeOK, ResumeClaim, Claim, GoResumer, ResumerRest, runVars,
     stopVars, legVars, logVars, spent
<1>2. RunTypeOK'
  BY DEF TypeInv, TypeOK, RunTypeOK, ResumeClaim, Claim, GoResumer, ResumerRest, runVars,
     stopVars, legVars, logVars, spent
<1>3. LegTypeOK'
  BY DEF TypeInv, TypeOK, LegTypeOK, ResumeClaim, Claim, GoResumer, ResumerRest, runVars,
     stopVars, legVars, logVars, spent
<1> QED  BY <1>1, <1>2, <1>3 DEF TypeOK

LEMMA ResumeRunType ==
    ASSUME TypeInv, ResumeRun PROVE TypeOK'
<1>1. FileTypeOK'
  BY DEF TypeInv, TypeOK, FileTypeOK, ResumeRun, Go, GoResumer, ResumerRest, runVars, stopVars,
     legVars, logVars, spent
<1>2. RunTypeOK'
  BY DEF TypeInv, TypeOK, RunTypeOK, ResumeRun, Go, GoResumer, ResumerRest, runVars, stopVars,
     legVars, logVars, spent, RunPCs
<1>3. LegTypeOK'
  BY DEF TypeInv, TypeOK, LegTypeOK, ResumeRun, Go, GoResumer, ResumerRest, runVars, stopVars,
     legVars, logVars, spent
<1> QED  BY <1>1, <1>2, <1>3 DEF TypeOK

LEMMA ResumeWaitType ==
    ASSUME TypeInv, ResumeWait PROVE TypeOK'
<1>1. FileTypeOK'
  BY DEF TypeInv, TypeOK, FileTypeOK, ResumeWait, GoResumer, ResumerRest, runVars, stopVars,
     legVars, logVars, spent
<1>2. RunTypeOK'
  BY DEF TypeInv, TypeOK, RunTypeOK, ResumeWait, GoResumer, ResumerRest, runVars, stopVars,
     legVars, logVars, spent
<1>3. LegTypeOK'
  BY DEF TypeInv, TypeOK, LegTypeOK, ResumeWait, GoResumer, ResumerRest, runVars, stopVars,
     legVars, logVars, spent
<1> QED  BY <1>1, <1>2, <1>3 DEF TypeOK

LEMMA ResumeNextType ==
    ASSUME TypeInv, ResumeNext PROVE TypeOK'
<1>1. FileTypeOK'
  BY DEF TypeInv, TypeOK, FileTypeOK, ResumeNext, GoResumer, ResumerRest, runVars, stopVars,
     legVars, logVars, spent
<1>2. RunTypeOK'
  BY DEF TypeInv, TypeOK, RunTypeOK, ResumeNext, GoResumer, ResumerRest, runVars, stopVars,
     legVars, logVars, spent
<1>3. LegTypeOK'
  BY DEF TypeInv, TypeOK, LegTypeOK, ResumeNext, GoResumer, ResumerRest, runVars, stopVars,
     legVars, logVars, spent
<1> QED  BY <1>1, <1>2, <1>3 DEF TypeOK

LEMMA StopLegsType ==
    ASSUME TypeInv, StopLegs PROVE TypeOK'
<1>1. FileTypeOK'
  BY DEF TypeInv, TypeOK, FileTypeOK, StopLegs, Spend, StopRest, runVars, bgVars
<1>2. RunTypeOK'
  BY PendingAssumption DEF TypeInv, TypeOK, RunTypeOK, StopLegs, Spend, StopRest, runVars, bgVars,
     Events
<1>3. LegTypeOK'
  BY DEF TypeInv, TypeOK, LegTypeOK, StopLegs, Spend, StopRest, runVars, bgVars
<1> QED  BY <1>1, <1>2, <1>3 DEF TypeOK

LEMMA DropLegsType ==
    ASSUME TypeInv, DropLegs PROVE TypeOK'
<1>1. FileTypeOK'
  <2>1. file' \in Tasks \cup {None}
    BY NoLegsType DEF TypeInv, ReadInv, TypeOK, FileTypeOK, DropLegs, LegStates
  <2> QED
    BY <2>1 DEF TypeInv, ReadInv, TypeOK, FileTypeOK, DropLegs, StopRest, runVars, legVars
<1>2. RunTypeOK'
  BY DEF TypeInv, TypeOK, RunTypeOK, DropLegs, StopRest, runVars, legVars, bgVars, spent
<1>3. LegTypeOK'
  BY DEF TypeInv, TypeOK, LegTypeOK, DropLegs, StopRest, runVars, legVars, bgVars, spent
<1> QED  BY <1>1, <1>2, <1>3 DEF TypeOK

LEMMA CancelDeleteType ==
    ASSUME TypeInv, CancelDelete PROVE TypeOK'
<1>1. FileTypeOK'
  BY DEF TypeInv, TypeOK, FileTypeOK, CancelDelete, Schedule, ResumeUnreported, Delete, StopRest,
     runVars, legVars, bgVars, spent
<1>2. RunTypeOK'
  BY DEF TypeInv, TypeOK, RunTypeOK, CancelDelete, Schedule, ResumeUnreported, Delete, StopRest,
     runVars, legVars, bgVars, spent
<1>3. LegTypeOK'
  BY DEF TypeInv, TypeOK, LegTypeOK, CancelDelete, Schedule, ResumeUnreported, Delete, StopRest,
     runVars, legVars, bgVars, spent
<1> QED  BY <1>1, <1>2, <1>3 DEF TypeOK

LEMMA CancelRunType ==
    ASSUME TypeInv, CancelRun PROVE TypeOK'
<1>1. FileTypeOK'
  BY DEF TypeInv, TypeOK, FileTypeOK, CancelRun, StopRest, runVars, legVars, bgVars, spent
<1>2. RunTypeOK'
  BY DEF TypeInv, TypeOK, RunTypeOK, CancelRun, StopRest, runVars, legVars, bgVars, spent
<1>3. LegTypeOK'
  BY DEF TypeInv, TypeOK, LegTypeOK, CancelRun, StopRest, runVars, legVars, bgVars, spent
<1> QED  BY <1>1, <1>2, <1>3 DEF TypeOK

LEMMA CancelPromptType ==
    ASSUME TypeInv, CancelPrompt PROVE TypeOK'
<1>1. FileTypeOK'
  BY DEF TypeInv, TypeOK, FileTypeOK, CancelPrompt, Spend, Clean, runVars, stopVars, legVars, bgVars
<1>2. RunTypeOK'
  <2>1. used' \subseteq Events /\ left' \in 0..MaxEvents
    BY SpendType DEF TypeInv, TypeOK, RunTypeOK, CancelPrompt, Events, spent
  <2>2. QED
    BY <2>1 DEF TypeInv, TypeOK, RunTypeOK, CancelPrompt, Clean, Cleaners, RunPCs, runVars, stopVars
<1>3. LegTypeOK'
  BY DEF TypeInv, TypeOK, LegTypeOK, CancelPrompt, Spend, Clean, runVars, stopVars, legVars, bgVars
<1> QED  BY <1>1, <1>2, <1>3 DEF TypeOK

LEMMA LapseType ==
    ASSUME TypeInv, Lapse PROVE TypeOK'
<1>1. FileTypeOK'
  BY DEF TypeInv, TypeOK, FileTypeOK, Lapse, Spend, runVars, stopVars, legVars, bgVars, spent
<1>2. RunTypeOK'
  <2>1. used' \subseteq Events /\ left' \in 0..MaxEvents
    BY SpendType DEF TypeInv, TypeOK, RunTypeOK, Lapse, Events, spent
  <2>2. QED
    BY <2>1 DEF TypeInv, TypeOK, RunTypeOK, Lapse, runVars, stopVars
<1>3. LegTypeOK'
  BY DEF TypeInv, TypeOK, LegTypeOK, Lapse, Spend, runVars, stopVars, legVars, bgVars, spent
<1> QED  BY <1>1, <1>2, <1>3 DEF TypeOK

LEMMA RestartType ==
    ASSUME TypeInv, Restart PROVE TypeOK'
<1>1. FileTypeOK'
  <2>1. file' \in Tasks \cup {None}
    BY NoLegsType DEF TypeInv, ReadInv, TypeOK, FileTypeOK, Restart, LegStates
  <2> QED
    BY <2>1 DEF TypeInv, ReadInv, TypeOK, FileTypeOK, Restart, runVars, legVars
<1>2. RunTypeOK'
  <2>1. used' \subseteq Events /\ left' \in 0..MaxEvents
    BY SpendType DEF TypeInv, TypeOK, RunTypeOK, Restart, Events, spent
  <2>2. QED
    BY <2>1 DEF TypeInv, TypeOK, RunTypeOK, Restart, RunPCs, Cleaners
<1>3. LegTypeOK'
  BY DEF TypeInv, TypeOK, LegTypeOK, Restart, LegPCs
<1> QED  BY <1>1, <1>2, <1>3 DEF TypeOK

LEMMA TypeNext ==
    ASSUME TypeInv, [Next]_vars PROVE TypeOK'
<1>1. CASE UNCHANGED vars
  BY <1>1 DEF TypeInv, TypeOK, FileTypeOK, RunTypeOK, LegTypeOK, vars, runVars, stopVars, legVars,
              bgVars, logVars, spent
<1> QED
  BY <1>1, ResumeType, FollowType, FollowClaimType, AnswerType, ReadTaskType, StageTaskType,
     StartRunType, FailStartType, AskUserType, ReplyType, ReplyUnsavedType, FailRunType,
     EndCanceledType, StopRunType, AfterRunType, FileLegType, CleanLookType, CleanClearType,
     CleanRowType, CleanRemoveType, RegisterLegType, UpdateLegType, UpdateScheduleType, EndLegType,
     TakeCanceledType, FinishLegType, ScheduleLegType, ResumeCheckType, ResumePollType,
     ResumeClaimType, ResumeRunType, ResumeWaitType, ResumeNextType, StopLegsType, DropLegsType,
     CancelDeleteType, CancelRunType, CancelPromptType, LapseType, RestartType
  DEF Next, RunStep, CleanStep, LegStep, ResumerStep, StopStep

LEMMA ReadNext ==
    ASSUME TypeInv, [Next]_vars PROVE ReadInv'
<1> USE DEF TypeInv, TypeOK, ReadInv, RunTypeOK, FileTypeOK, RunPCs
<1>1. ASSUME NEW r \in Runs, Resume(r) PROVE ReadInv'
  BY <1>1 DEF Resume, Go, Claim, Spend, runVars, stopVars, legVars, bgVars
<1>2. ASSUME NEW r \in Runs, Follow(r) PROVE ReadInv'
  BY <1>2 DEF Follow, Go, Spend, runVars, stopVars, legVars, bgVars
<1>3. ASSUME NEW r \in Runs, FollowClaim(r) PROVE ReadInv'
  BY <1>3 DEF FollowClaim, Go, Claim, runVars, stopVars, legVars, bgVars, logVars, spent
<1>4. ASSUME NEW r \in Runs, Answer(r) PROVE ReadInv'
  BY <1>4 DEF Answer, Go, Spend, stopVars, legVars, bgVars
<1>5. ASSUME NEW r \in Runs, ReadTask(r) PROVE ReadInv'
  BY <1>5 DEF ReadTask, Go, stopVars, legVars, bgVars, logVars, spent
<1>6. ASSUME NEW r \in Runs, StageTask(r) PROVE ReadInv'
  BY <1>6 DEF StageTask, Go, stopVars, legVars, bgVars, logVars, spent
<1>7. ASSUME NEW r \in Runs, StartRun(r) PROVE ReadInv'
  BY <1>7 DEF StartRun, Go, runVars, legVars, bgVars, logVars, spent
<1>8. ASSUME NEW r \in Runs, FailStart(r) PROVE ReadInv'
  BY <1>8 DEF FailStart, Go, Spend, runVars, stopVars, legVars, bgVars
<1>9. ASSUME NEW r \in Runs, AskUser(r) PROVE ReadInv'
  BY <1>9 DEF AskUser, Free, Spend, runVars, stopVars, legVars, bgVars
<1>10. ASSUME NEW r \in Runs, Reply(r) PROVE ReadInv'
  BY <1>10 DEF Reply, Free, stopVars, legVars, bgVars, spent
<1>11. ASSUME NEW r \in Runs, ReplyUnsaved(r) PROVE ReadInv'
  BY <1>11 DEF ReplyUnsaved, Free, Spend, stopVars, legVars, bgVars
<1>12. ASSUME NEW r \in Runs, FailRun(r) PROVE ReadInv'
  BY <1>12 DEF FailRun, Free, Spend, runVars, stopVars, legVars, bgVars
<1>13. ASSUME NEW r \in Runs, EndCanceled(r) PROVE ReadInv'
  BY <1>13 DEF EndCanceled, Free, Schedule, ResumeUnreported, Delete, runVars, stopVars, legVars,
     bgVars, logVars, spent
<1>14. ASSUME NEW r \in Runs, StopRun(r) PROVE ReadInv'
  BY <1>14 DEF StopRun, Go, legVars, bgVars, logVars, spent
<1>15. ASSUME NEW r \in Runs, AfterRun(r) PROVE ReadInv'
  BY <1>15 DEF AfterRun, Go, runVars, stopVars, legVars, bgVars, logVars, spent
<1>16. ASSUME NEW r \in Runs, NEW l \in Legs, FileLeg(r, l) PROVE ReadInv'
  BY <1>16 DEF FileLeg, Free, GoLeg, LegRest, runVars, stopVars, bgVars, logVars, spent
<1>17. ASSUME NEW c \in Cleaners, CleanLook(c) PROVE ReadInv'
  BY <1>17 DEF CleanLook, Clean, CleanRest, runVars, stopVars, legVars, bgVars, logVars, spent
<1>18. ASSUME NEW c \in Cleaners, CleanClear(c) PROVE ReadInv'
  BY <1>18 DEF CleanClear, Clean, Schedule, ResumeUnreported, CleanRest, runVars, stopVars,
     legVars, bgVars, logVars, spent
<1>19. ASSUME NEW c \in Cleaners, CleanRow(c) PROVE ReadInv'
  BY <1>19 DEF CleanRow, Spend, Clean, CleanRest, runVars, stopVars, legVars, bgVars, spent
<1>20. ASSUME NEW c \in Cleaners, CleanRemove(c) PROVE ReadInv'
  BY <1>20 DEF CleanRemove, Clean, CleanRest, runVars, stopVars, legVars, bgVars, spent
<1>21. ASSUME NEW l \in Legs, RegisterLeg(l) PROVE ReadInv'
  BY <1>21 DEF RegisterLeg, GoLeg, LegRest, runVars, stopVars, bgVars, logVars, spent
<1>22. ASSUME NEW l \in Legs, UpdateLeg(l) PROVE ReadInv'
  BY <1>22 DEF UpdateLeg, Spend, GoLeg, runVars, stopVars, bgVars
<1>23. ASSUME NEW l \in Legs, UpdateSchedule(l) PROVE ReadInv'
  BY <1>23 DEF UpdateSchedule, GoLeg, Schedule, LegRest, runVars, stopVars, logVars, spent
<1>24. ASSUME NEW l \in Legs, EndLeg(l) PROVE ReadInv'
  BY <1>24 DEF EndLeg, GoLeg, LegRest, runVars, stopVars, bgVars, logVars, spent
<1>25. ASSUME NEW l \in Legs, TakeCanceled(l) PROVE ReadInv'
  BY <1>25 DEF TakeCanceled, GoLeg, LegRest, runVars, stopVars, bgVars, logVars, spent
<1>26. ASSUME NEW l \in Legs, FinishLeg(l) PROVE ReadInv'
  BY <1>26 DEF FinishLeg, GoLeg, LegRest, runVars, stopVars, bgVars, logVars, spent
<1>27. ASSUME NEW l \in Legs, ScheduleLeg(l) PROVE ReadInv'
  BY <1>27 DEF ScheduleLeg, GoLeg, Schedule, LegRest, runVars, stopVars, logVars, spent
<1>28. ASSUME ResumeCheck PROVE ReadInv'
  BY <1>28 DEF ResumeCheck, GoResumer, ResumerRest, runVars, stopVars, legVars, logVars, spent
<1>29. ASSUME ResumePoll PROVE ReadInv'
  BY <1>29 DEF ResumePoll, GoResumer, ResumerRest, runVars, stopVars, legVars, logVars, spent
<1>30. ASSUME ResumeClaim PROVE ReadInv'
  BY <1>30 DEF ResumeClaim, Claim, GoResumer, ResumerRest, runVars, stopVars, legVars, logVars,
     spent
<1>31. ASSUME ResumeRun PROVE ReadInv'
  BY <1>31 DEF ResumeRun, Go, GoResumer, ResumerRest, runVars, stopVars, legVars, logVars, spent
<1>32. ASSUME ResumeWait PROVE ReadInv'
  BY <1>32 DEF ResumeWait, GoResumer, ResumerRest, runVars, stopVars, legVars, logVars, spent
<1>33. ASSUME ResumeNext PROVE ReadInv'
  BY <1>33 DEF ResumeNext, GoResumer, ResumerRest, runVars, stopVars, legVars, logVars, spent
<1>34. ASSUME StopLegs PROVE ReadInv'
  BY <1>34 DEF StopLegs, Spend, StopRest, runVars, bgVars
<1>35. ASSUME DropLegs PROVE ReadInv'
  BY <1>35 DEF DropLegs, StopRest, runVars, legVars, bgVars, spent
<1>36. ASSUME CancelDelete PROVE ReadInv'
  BY <1>36 DEF CancelDelete, Schedule, ResumeUnreported, Delete, StopRest, runVars, legVars,
     bgVars, spent
<1>37. ASSUME CancelRun PROVE ReadInv'
  BY <1>37 DEF CancelRun, StopRest, runVars, legVars, bgVars, spent
<1>38. ASSUME CancelPrompt PROVE ReadInv'
  BY <1>38 DEF CancelPrompt, Spend, Clean, runVars, stopVars, legVars, bgVars
<1>39. ASSUME Lapse PROVE ReadInv'
  BY <1>39 DEF Lapse, Spend, runVars, stopVars, legVars, bgVars, spent
<1>40. ASSUME Restart PROVE ReadInv'
  BY <1>40 DEF Restart, Spend
<1>41. CASE UNCHANGED vars
  BY <1>41 DEF vars, runVars, stopVars, legVars, bgVars, logVars, spent
<1> QED
  BY <1>1, <1>2, <1>3, <1>4, <1>5, <1>6, <1>7, <1>8, <1>9, <1>10, <1>11, <1>12, <1>13, <1>14,
     <1>15, <1>16, <1>17, <1>18, <1>19, <1>20, <1>21, <1>22, <1>23, <1>24, <1>25, <1>26, <1>27,
     <1>28, <1>29, <1>30, <1>31, <1>32, <1>33, <1>34, <1>35, <1>36, <1>37, <1>38, <1>39, <1>40,
     <1>41
  DEF Next, RunStep, CleanStep, LegStep, ResumerStep, StopStep

LEMMA TypeInvariant == Spec => []TypeInv
<1>1. Init => TypeInv  BY TypeInit DEF Init, TypeInv, ReadInv
<1>2. TypeInv /\ [Next]_vars => TypeInv'  BY TypeNext, ReadNext DEF TypeInv
<1> QED  BY <1>1, <1>2, PTL DEF Spec

\* Every variable keeps its type, whatever order the runs, legs and cleanups come in.
THEOREM TaskTypeCorrect == Spec => []TypeOK
<1>1. TypeInv => TypeOK  BY DEF TypeInv
<1> QED  BY <1>1, TypeInvariant, PTL

-----------------------------------------------------------------------------
(* Claims exclude each other.                                               *)

\* Whoever is between its claim and its release holds the mark, alone.
ClaimInv == loose \/ ((Live # {} => marked) /\ \A x, y \in Live : x = y)

LEMMA ClaimNext ==
    ASSUME TypeInv, ClaimInv, [Next]_vars PROVE ClaimInv'
<1> USE DEF TypeInv, TypeOK, RunTypeOK, RunPCs, ClaimInv, Live, InLoop
<1>1. ASSUME NEW r \in Runs, Resume(r) PROVE ClaimInv'
  BY <1>1, PendingAssumption DEF Resume, Go, Claim, Spend, runVars, stopVars, legVars, bgVars
<1>2. ASSUME NEW r \in Runs, Follow(r) PROVE ClaimInv'
  BY <1>2, PendingAssumption DEF Follow, Go, Spend, runVars, stopVars, legVars, bgVars
<1>3. ASSUME NEW r \in Runs, FollowClaim(r) PROVE ClaimInv'
  BY <1>3, PendingAssumption DEF FollowClaim, Go, Claim, runVars, stopVars, legVars, bgVars,
     logVars, spent
<1>4. ASSUME NEW r \in Runs, Answer(r) PROVE ClaimInv'
  BY <1>4, PendingAssumption DEF Answer, Go, Spend, stopVars, legVars, bgVars
<1>5. ASSUME NEW r \in Runs, ReadTask(r) PROVE ClaimInv'
  BY <1>5, PendingAssumption DEF ReadTask, Go, stopVars, legVars, bgVars, logVars, spent
<1>6. ASSUME NEW r \in Runs, StageTask(r) PROVE ClaimInv'
  BY <1>6, PendingAssumption DEF StageTask, Go, stopVars, legVars, bgVars, logVars, spent
<1>7. ASSUME NEW r \in Runs, StartRun(r) PROVE ClaimInv'
  BY <1>7, PendingAssumption DEF StartRun, Go, runVars, legVars, bgVars, logVars, spent
<1>8. ASSUME NEW r \in Runs, FailStart(r) PROVE ClaimInv'
  BY <1>8, PendingAssumption DEF FailStart, Go, Spend, runVars, stopVars, legVars, bgVars
<1>9. ASSUME NEW r \in Runs, AskUser(r) PROVE ClaimInv'
  BY <1>9, PendingAssumption DEF AskUser, Free, Spend, runVars, stopVars, legVars, bgVars
<1>10. ASSUME NEW r \in Runs, Reply(r) PROVE ClaimInv'
  BY <1>10, PendingAssumption DEF Reply, Free, stopVars, legVars, bgVars, spent
<1>11. ASSUME NEW r \in Runs, ReplyUnsaved(r) PROVE ClaimInv'
  BY <1>11, PendingAssumption DEF ReplyUnsaved, Free, Spend, stopVars, legVars, bgVars
<1>12. ASSUME NEW r \in Runs, FailRun(r) PROVE ClaimInv'
  BY <1>12, PendingAssumption DEF FailRun, Free, Spend, runVars, stopVars, legVars, bgVars
<1>13. ASSUME NEW r \in Runs, EndCanceled(r) PROVE ClaimInv'
  BY <1>13, PendingAssumption DEF EndCanceled, Free, Schedule, ResumeUnreported, Delete, runVars,
     stopVars, legVars, bgVars, logVars, spent
<1>14. ASSUME NEW r \in Runs, StopRun(r) PROVE ClaimInv'
  BY <1>14, PendingAssumption DEF StopRun, Go, legVars, bgVars, logVars, spent
<1>15. ASSUME NEW r \in Runs, AfterRun(r) PROVE ClaimInv'
  BY <1>15, PendingAssumption DEF AfterRun, Go, runVars, stopVars, legVars, bgVars, logVars, spent
<1>16. ASSUME NEW r \in Runs, NEW l \in Legs, FileLeg(r, l) PROVE ClaimInv'
  BY <1>16, PendingAssumption DEF FileLeg, Free, GoLeg, LegRest, runVars, stopVars, bgVars,
     logVars, spent
<1>17. ASSUME NEW c \in Cleaners, CleanLook(c) PROVE ClaimInv'
  BY <1>17, PendingAssumption DEF CleanLook, Clean, CleanRest, runVars, stopVars, legVars, bgVars,
     logVars, spent
<1>18. ASSUME NEW c \in Cleaners, CleanClear(c) PROVE ClaimInv'
  BY <1>18, PendingAssumption DEF CleanClear, Clean, Schedule, ResumeUnreported, CleanRest,
     runVars, stopVars, legVars, bgVars, logVars, spent
<1>19. ASSUME NEW c \in Cleaners, CleanRow(c) PROVE ClaimInv'
  BY <1>19, PendingAssumption DEF CleanRow, Spend, Clean, CleanRest, runVars, stopVars, legVars,
     bgVars, spent
<1>20. ASSUME NEW c \in Cleaners, CleanRemove(c) PROVE ClaimInv'
  BY <1>20, PendingAssumption DEF CleanRemove, Clean, CleanRest, runVars, stopVars, legVars,
     bgVars, spent
<1>21. ASSUME NEW l \in Legs, RegisterLeg(l) PROVE ClaimInv'
  BY <1>21, PendingAssumption DEF RegisterLeg, GoLeg, LegRest, runVars, stopVars, bgVars, logVars,
     spent
<1>22. ASSUME NEW l \in Legs, UpdateLeg(l) PROVE ClaimInv'
  BY <1>22, PendingAssumption DEF UpdateLeg, Spend, GoLeg, runVars, stopVars, bgVars
<1>23. ASSUME NEW l \in Legs, UpdateSchedule(l) PROVE ClaimInv'
  BY <1>23, PendingAssumption DEF UpdateSchedule, GoLeg, Schedule, LegRest, runVars, stopVars,
     logVars, spent
<1>24. ASSUME NEW l \in Legs, EndLeg(l) PROVE ClaimInv'
  BY <1>24, PendingAssumption DEF EndLeg, GoLeg, LegRest, runVars, stopVars, bgVars, logVars, spent
<1>25. ASSUME NEW l \in Legs, TakeCanceled(l) PROVE ClaimInv'
  BY <1>25, PendingAssumption DEF TakeCanceled, GoLeg, LegRest, runVars, stopVars, bgVars,
     logVars, spent
<1>26. ASSUME NEW l \in Legs, FinishLeg(l) PROVE ClaimInv'
  BY <1>26, PendingAssumption DEF FinishLeg, GoLeg, LegRest, runVars, stopVars, bgVars, logVars,
     spent
<1>27. ASSUME NEW l \in Legs, ScheduleLeg(l) PROVE ClaimInv'
  BY <1>27, PendingAssumption DEF ScheduleLeg, GoLeg, Schedule, LegRest, runVars, stopVars,
     logVars, spent
<1>28. ASSUME ResumeCheck PROVE ClaimInv'
  BY <1>28, PendingAssumption DEF ResumeCheck, GoResumer, ResumerRest, runVars, stopVars, legVars,
     logVars, spent
<1>29. ASSUME ResumePoll PROVE ClaimInv'
  BY <1>29, PendingAssumption DEF ResumePoll, GoResumer, ResumerRest, runVars, stopVars, legVars,
     logVars, spent
<1>30. ASSUME ResumeClaim PROVE ClaimInv'
  BY <1>30, PendingAssumption DEF ResumeClaim, Claim, GoResumer, ResumerRest, runVars, stopVars,
     legVars, logVars, spent
<1>31. ASSUME ResumeRun PROVE ClaimInv'
  BY <1>31, PendingAssumption DEF ResumeRun, Go, GoResumer, ResumerRest, runVars, stopVars,
     legVars, logVars, spent
<1>32. ASSUME ResumeWait PROVE ClaimInv'
  BY <1>32, PendingAssumption DEF ResumeWait, GoResumer, ResumerRest, runVars, stopVars, legVars,
     logVars, spent
<1>33. ASSUME ResumeNext PROVE ClaimInv'
  BY <1>33, PendingAssumption DEF ResumeNext, GoResumer, ResumerRest, runVars, stopVars, legVars,
     logVars, spent
<1>34. ASSUME StopLegs PROVE ClaimInv'
  BY <1>34, PendingAssumption DEF StopLegs, Spend, StopRest, runVars, bgVars
<1>35. ASSUME DropLegs PROVE ClaimInv'
  BY <1>35, PendingAssumption DEF DropLegs, StopRest, runVars, legVars, bgVars, spent
<1>36. ASSUME CancelDelete PROVE ClaimInv'
  BY <1>36, PendingAssumption DEF CancelDelete, Schedule, ResumeUnreported, Delete, StopRest,
     runVars, legVars, bgVars, spent
<1>37. ASSUME CancelRun PROVE ClaimInv'
  BY <1>37, PendingAssumption DEF CancelRun, StopRest, runVars, legVars, bgVars, spent
<1>38. ASSUME CancelPrompt PROVE ClaimInv'
  BY <1>38, PendingAssumption DEF CancelPrompt, Spend, Clean, runVars, stopVars, legVars, bgVars
<1>39. ASSUME Lapse PROVE ClaimInv'
  BY <1>39, PendingAssumption DEF Lapse, Spend, runVars, stopVars, legVars, bgVars, spent
<1>40. ASSUME Restart PROVE ClaimInv'
  BY <1>40, PendingAssumption DEF Restart, Spend
<1>41. CASE UNCHANGED vars
  BY <1>41 DEF vars, runVars, stopVars, legVars, bgVars, logVars, spent
<1> QED
  BY <1>1, <1>2, <1>3, <1>4, <1>5, <1>6, <1>7, <1>8, <1>9, <1>10, <1>11, <1>12, <1>13, <1>14,
     <1>15, <1>16, <1>17, <1>18, <1>19, <1>20, <1>21, <1>22, <1>23, <1>24, <1>25, <1>26, <1>27,
     <1>28, <1>29, <1>30, <1>31, <1>32, <1>33, <1>34, <1>35, <1>36, <1>37, <1>38, <1>39, <1>40,
     <1>41
  DEF Next, RunStep, CleanStep, LegStep, ResumerStep, StopStep

\* ClaimOnline lets one run at the task at a time: the mark is set before a run is
\* live and released after, so two runs meet only past an answer, a lapse or a cleanup.
THEOREM ClaimsExclude == Spec => []OneRunPerClaim
<1>1. Init => ClaimInv
  BY DEF Init, ClaimInv, Live
<1>2. ClaimInv => OneRunPerClaim
  <2> SUFFICES ASSUME ~loose, \A x, y \in Live : x = y PROVE Cardinality(Live) <= 1
    BY DEF ClaimInv, OneRunPerClaim
  <2>1. CASE Live = {}  BY <2>1, FS_EmptySet
  <2>2. CASE Live # {}
    <3>1. PICK x \in Live : TRUE  BY <2>2
    <3>2. Live = {x}  BY <3>1
    <3>3. Cardinality({x}) = 1  BY FS_Singleton
    <3> QED  BY <3>2, <3>3
  <2> QED  BY <2>1, <2>2
<1> QED  BY <1>1, <1>2, TypeInvariant, ClaimNext, PTL DEF Spec

-----------------------------------------------------------------------------
(* The file waits for no leg that has gone.                                 *)

\* Only a stop leaves a flag behind or cancels a run.
StopInv == flag \/ upc # "idle" \/ (\E r \in Runs : dying[r] # "no") => Used("stop")

LEMMA StopNext ==
    ASSUME TypeInv, StopInv, [Next]_vars PROVE StopInv'
<1> USE DEF TypeInv, TypeOK, LegTypeOK, RunTypeOK, StopInv, Used
<1>1. ASSUME NEW r \in Runs, Resume(r) PROVE StopInv'
  BY <1>1 DEF Resume, Go, Claim, Spend, runVars, stopVars, legVars, bgVars
<1>2. ASSUME NEW r \in Runs, Follow(r) PROVE StopInv'
  BY <1>2 DEF Follow, Go, Spend, runVars, stopVars, legVars, bgVars
<1>3. ASSUME NEW r \in Runs, FollowClaim(r) PROVE StopInv'
  BY <1>3 DEF FollowClaim, Go, Claim, runVars, stopVars, legVars, bgVars, logVars, spent
<1>4. ASSUME NEW r \in Runs, Answer(r) PROVE StopInv'
  BY <1>4 DEF Answer, Go, Spend, stopVars, legVars, bgVars
<1>5. ASSUME NEW r \in Runs, ReadTask(r) PROVE StopInv'
  BY <1>5 DEF ReadTask, Go, stopVars, legVars, bgVars, logVars, spent
<1>6. ASSUME NEW r \in Runs, StageTask(r) PROVE StopInv'
  BY <1>6 DEF StageTask, Go, stopVars, legVars, bgVars, logVars, spent
<1>7. ASSUME NEW r \in Runs, StartRun(r) PROVE StopInv'
  BY <1>7 DEF StartRun, Go, runVars, legVars, bgVars, logVars, spent
<1>8. ASSUME NEW r \in Runs, FailStart(r) PROVE StopInv'
  BY <1>8 DEF FailStart, Go, Spend, runVars, stopVars, legVars, bgVars
<1>9. ASSUME NEW r \in Runs, AskUser(r) PROVE StopInv'
  BY <1>9 DEF AskUser, Free, Spend, runVars, stopVars, legVars, bgVars
<1>10. ASSUME NEW r \in Runs, Reply(r) PROVE StopInv'
  BY <1>10 DEF Reply, Free, stopVars, legVars, bgVars, spent
<1>11. ASSUME NEW r \in Runs, ReplyUnsaved(r) PROVE StopInv'
  BY <1>11 DEF ReplyUnsaved, Free, Spend, stopVars, legVars, bgVars
<1>12. ASSUME NEW r \in Runs, FailRun(r) PROVE StopInv'
  BY <1>12 DEF FailRun, Free, Spend, runVars, stopVars, legVars, bgVars
<1>13. ASSUME NEW r \in Runs, EndCanceled(r) PROVE StopInv'
  BY <1>13 DEF EndCanceled, Free, Schedule, ResumeUnreported, Delete, runVars, stopVars, legVars,
     bgVars, logVars, spent
<1>14. ASSUME NEW r \in Runs, StopRun(r) PROVE StopInv'
  BY <1>14 DEF StopRun, Go, legVars, bgVars, logVars, spent
<1>15. ASSUME NEW r \in Runs, AfterRun(r) PROVE StopInv'
  BY <1>15 DEF AfterRun, Go, runVars, stopVars, legVars, bgVars, logVars, spent
<1>16. ASSUME NEW r \in Runs, NEW l \in Legs, FileLeg(r, l) PROVE StopInv'
  BY <1>16 DEF FileLeg, Free, GoLeg, LegRest, runVars, stopVars, bgVars, logVars, spent
<1>17. ASSUME NEW c \in Cleaners, CleanLook(c) PROVE StopInv'
  BY <1>17 DEF CleanLook, Clean, CleanRest, runVars, stopVars, legVars, bgVars, logVars, spent
<1>18. ASSUME NEW c \in Cleaners, CleanClear(c) PROVE StopInv'
  BY <1>18 DEF CleanClear, Clean, Schedule, ResumeUnreported, CleanRest, runVars, stopVars,
     legVars, bgVars, logVars, spent
<1>19. ASSUME NEW c \in Cleaners, CleanRow(c) PROVE StopInv'
  BY <1>19 DEF CleanRow, Spend, Clean, CleanRest, runVars, stopVars, legVars, bgVars, spent
<1>20. ASSUME NEW c \in Cleaners, CleanRemove(c) PROVE StopInv'
  BY <1>20 DEF CleanRemove, Clean, CleanRest, runVars, stopVars, legVars, bgVars, spent
<1>21. ASSUME NEW l \in Legs, RegisterLeg(l) PROVE StopInv'
  BY <1>21 DEF RegisterLeg, GoLeg, LegRest, runVars, stopVars, bgVars, logVars, spent
<1>22. ASSUME NEW l \in Legs, UpdateLeg(l) PROVE StopInv'
  BY <1>22 DEF UpdateLeg, Spend, GoLeg, runVars, stopVars, bgVars
<1>23. ASSUME NEW l \in Legs, UpdateSchedule(l) PROVE StopInv'
  BY <1>23 DEF UpdateSchedule, GoLeg, Schedule, LegRest, runVars, stopVars, logVars, spent
<1>24. ASSUME NEW l \in Legs, EndLeg(l) PROVE StopInv'
  BY <1>24 DEF EndLeg, GoLeg, LegRest, runVars, stopVars, bgVars, logVars, spent
<1>25. ASSUME NEW l \in Legs, TakeCanceled(l) PROVE StopInv'
  BY <1>25 DEF TakeCanceled, GoLeg, LegRest, runVars, stopVars, bgVars, logVars, spent
<1>26. ASSUME NEW l \in Legs, FinishLeg(l) PROVE StopInv'
  BY <1>26 DEF FinishLeg, GoLeg, LegRest, runVars, stopVars, bgVars, logVars, spent
<1>27. ASSUME NEW l \in Legs, ScheduleLeg(l) PROVE StopInv'
  BY <1>27 DEF ScheduleLeg, GoLeg, Schedule, LegRest, runVars, stopVars, logVars, spent
<1>28. ASSUME ResumeCheck PROVE StopInv'
  BY <1>28 DEF ResumeCheck, GoResumer, ResumerRest, runVars, stopVars, legVars, logVars, spent
<1>29. ASSUME ResumePoll PROVE StopInv'
  BY <1>29 DEF ResumePoll, GoResumer, ResumerRest, runVars, stopVars, legVars, logVars, spent
<1>30. ASSUME ResumeClaim PROVE StopInv'
  BY <1>30 DEF ResumeClaim, Claim, GoResumer, ResumerRest, runVars, stopVars, legVars, logVars,
     spent
<1>31. ASSUME ResumeRun PROVE StopInv'
  BY <1>31 DEF ResumeRun, Go, GoResumer, ResumerRest, runVars, stopVars, legVars, logVars, spent
<1>32. ASSUME ResumeWait PROVE StopInv'
  BY <1>32 DEF ResumeWait, GoResumer, ResumerRest, runVars, stopVars, legVars, logVars, spent
<1>33. ASSUME ResumeNext PROVE StopInv'
  BY <1>33 DEF ResumeNext, GoResumer, ResumerRest, runVars, stopVars, legVars, logVars, spent
<1>34. ASSUME StopLegs PROVE StopInv'
  BY <1>34 DEF StopLegs, Spend, StopRest, runVars, bgVars
<1>35. ASSUME DropLegs PROVE StopInv'
  BY <1>35 DEF DropLegs, StopRest, runVars, legVars, bgVars, spent
<1>36. ASSUME CancelDelete PROVE StopInv'
  BY <1>36 DEF CancelDelete, Schedule, ResumeUnreported, Delete, StopRest, runVars, legVars,
     bgVars, spent
<1>37. ASSUME CancelRun PROVE StopInv'
  BY <1>37 DEF CancelRun, StopRest, runVars, legVars, bgVars, spent
<1>38. ASSUME CancelPrompt PROVE StopInv'
  BY <1>38 DEF CancelPrompt, Spend, Clean, runVars, stopVars, legVars, bgVars
<1>39. ASSUME Lapse PROVE StopInv'
  BY <1>39 DEF Lapse, Spend, runVars, stopVars, legVars, bgVars, spent
<1>40. ASSUME Restart PROVE StopInv'
  BY <1>40 DEF Restart, Spend
<1>41. CASE UNCHANGED vars
  BY <1>41 DEF vars, runVars, stopVars, legVars, bgVars, logVars, spent
<1> QED
  BY <1>1, <1>2, <1>3, <1>4, <1>5, <1>6, <1>7, <1>8, <1>9, <1>10, <1>11, <1>12, <1>13, <1>14,
     <1>15, <1>16, <1>17, <1>18, <1>19, <1>20, <1>21, <1>22, <1>23, <1>24, <1>25, <1>26, <1>27,
     <1>28, <1>29, <1>30, <1>31, <1>32, <1>33, <1>34, <1>35, <1>36, <1>37, <1>38, <1>39, <1>40,
     <1>41
  DEF Next, RunStep, CleanStep, LegStep, ResumerStep, StopStep

\* A leg the file calls running is at work, and a run that stages what it has read
\* stages it in a file that is there.
LegInv ==
    ~loose /\ ~Used("stop") =>
        /\ \A r \in Runs : pc[r] = "stage" => file # None
        /\ file # None => \A l \in Running(file) : lpc[l] \notin {"idle", "done", "over"}

LEMMA LegNext ==
    ASSUME TypeInv, ClaimInv, StopInv, LegInv, [Next]_vars PROVE LegInv'
<1> USE DEF TypeInv, TypeOK, FileTypeOK, LegTypeOK, RunTypeOK, Tasks, LegInv, Used, Running
<1>1. ASSUME NEW r \in Runs, Resume(r) PROVE LegInv'
  BY <1>1 DEF Resume, Go, Claim, Spend, runVars, stopVars, legVars, bgVars
<1>2. ASSUME NEW r \in Runs, Follow(r) PROVE LegInv'
  BY <1>2 DEF Follow, Go, Spend, runVars, stopVars, legVars, bgVars
<1>3. ASSUME NEW r \in Runs, FollowClaim(r) PROVE LegInv'
  BY <1>3 DEF FollowClaim, Go, Claim, runVars, stopVars, legVars, bgVars, logVars, spent
<1>4. ASSUME NEW r \in Runs, Answer(r) PROVE LegInv'
  BY <1>4 DEF Answer, Go, Spend, stopVars, legVars, bgVars
<1>5. ASSUME NEW r \in Runs, ReadTask(r) PROVE LegInv'
  BY <1>5 DEF ReadTask, Go, stopVars, legVars, bgVars, logVars, spent
<1>6. ASSUME NEW r \in Runs, StageTask(r) PROVE LegInv'
  <2>1. seen[r] \in Tasks
    BY <1>6 DEF ReadInv, StageTask, Go
  <2>2. file # None => file' # None /\ file'.legs = file.legs
    BY <1>6, <2>1, AskedLegs DEF ReadInv, StageTask
  <2> QED
    BY <1>6, <2>1, <2>2 DEF StageTask, Go, stopVars, legVars, bgVars, logVars, spent
<1>7. ASSUME NEW r \in Runs, StartRun(r) PROVE LegInv'
  BY <1>7 DEF StartRun, Go, runVars, legVars, bgVars, logVars, spent
<1>8. ASSUME NEW r \in Runs, FailStart(r) PROVE LegInv'
  BY <1>8 DEF FailStart, Go, Spend, runVars, stopVars, legVars, bgVars
<1>9. ASSUME NEW r \in Runs, AskUser(r) PROVE LegInv'
  <2>1. file # None => file' # None /\ file'.legs = file.legs
    BY <1>9, AskedLegs DEF ReadInv, AskUser
  <2>2. file = None => file' # None /\ Running(file') = {} /\ Finished(file') = {}
    BY <1>9, AskedLegs, EmptyTypes DEF AskUser, NewTask, NoLegs, Finished
  <2> QED
    BY <1>9, <2>1, <2>2 DEF AskUser, Free, Spend, runVars, stopVars, legVars, bgVars
<1>10. ASSUME NEW r \in Runs, Reply(r) PROVE LegInv'
  <2>1. CASE ~(r # First /\ staged # None /\ staged.text = text[r])
    BY <1>10, <2>1 DEF Reply, Commit, Free, runVars, stopVars, bgVars, legVars, logVars, spent
  <2>2. CASE r # First /\ staged # None /\ staged.text = text[r]
    <3>1. /\ staged # None /\ staged' = None
          /\ file' = IF file = None THEN None ELSE Committed(file)
          /\ told' = [l \in Legs |-> IF l \in staged.done THEN told[l] + 1 ELSE told[l]]
      BY <1>10, <2>2 DEF Reply, Commit
    <3>2. staged \in Reports  BY <3>1 DEF ReadInv
    <3>3. ASSUME file # None
          PROVE  /\ file \in Tasks /\ file' # None
                 /\ Running(file') \subseteq Running(file)
                 /\ Running(file) \ staged.done \subseteq Running(file')
                 /\ Finished(file') = Finished(file) \ staged.done
      <4>1. file \in Tasks  BY <3>3 DEF ReadInv
      <4>2. file' = Committed(file)  BY <3>1, <3>3
      <4> QED  BY <3>2, <4>1, <4>2, CommittedLegs
    <3> QED
      BY <1>10, <3>1, <3>3 DEF Reply, Free, spent, bgVars, legVars
  <2> QED  BY <2>1, <2>2
<1>11. ASSUME NEW r \in Runs, ReplyUnsaved(r) PROVE LegInv'
  BY <1>11 DEF ReplyUnsaved, Free, Spend, stopVars, legVars, bgVars
<1>12. ASSUME NEW r \in Runs, FailRun(r) PROVE LegInv'
  BY <1>12 DEF FailRun, Free, Spend, runVars, stopVars, legVars, bgVars
<1>13. ASSUME NEW r \in Runs, EndCanceled(r) PROVE LegInv'
  BY <1>13 DEF EndCanceled, Free, Schedule, ResumeUnreported, Delete, runVars, stopVars, legVars,
     bgVars, logVars, spent, StopInv
<1>14. ASSUME NEW r \in Runs, StopRun(r) PROVE LegInv'
  BY <1>14 DEF StopRun, Go, legVars, bgVars, logVars, spent
<1>15. ASSUME NEW r \in Runs, AfterRun(r) PROVE LegInv'
  BY <1>15 DEF AfterRun, Go, runVars, stopVars, legVars, bgVars, logVars, spent
<1>16. ASSUME NEW r \in Runs, NEW l \in Legs, FileLeg(r, l) PROVE LegInv'
  <2>1. file' # None /\ file'.legs = [file.legs EXCEPT ![l] = "running"]
    BY <1>16, LegSetLegs DEF ReadInv, FileLeg, LegStates
  <2>2. file.legs \in [Legs -> LegStates]
    BY <1>16 DEF ReadInv, FileLeg
  <2> QED
    BY <1>16, <2>1, <2>2 DEF FileLeg, Free, GoLeg, LegRest, runVars, stopVars, bgVars, logVars,
       spent, LegPCs
<1>17. ASSUME NEW c \in Cleaners, CleanLook(c) PROVE LegInv'
  BY <1>17 DEF CleanLook, Clean, CleanRest, runVars, stopVars, legVars, bgVars, logVars, spent
<1>18. ASSUME NEW c \in Cleaners, CleanClear(c) PROVE LegInv'
  <2>1. file # None => file' # None /\ file'.legs = file.legs
    BY <1>18, AskedLegs DEF ReadInv, CleanClear
  <2>2. file = None => file' = None
    BY <1>18 DEF CleanClear
  <2> QED
    BY <1>18, <2>1, <2>2 DEF CleanClear, Clean, Schedule, ResumeUnreported, CleanRest, runVars,
       stopVars, legVars, bgVars, logVars, spent
<1>19. ASSUME NEW c \in Cleaners, CleanRow(c) PROVE LegInv'
  BY <1>19 DEF CleanRow, Spend, Clean, CleanRest, runVars, stopVars, legVars, bgVars, spent
<1>20. ASSUME NEW c \in Cleaners, CleanRemove(c) PROVE LegInv'
  <2>1. file' = None /\ loose' = (loose \/ Busy \/ Live # {})  BY <1>20 DEF CleanRemove
  <2>2. \A r \in Runs : pc'[r] = "stage" => r \in Live
    BY <1>20 DEF ReadInv, CleanRemove, Clean, Live
  <2>3. used' = used  BY <1>20 DEF CleanRemove, spent
  <2> QED  BY <2>1, <2>2, <2>3
<1>21. ASSUME NEW l \in Legs, RegisterLeg(l) PROVE LegInv'
  BY <1>21 DEF RegisterLeg, GoLeg, LegRest, runVars, stopVars, bgVars, logVars, spent
<1>22. ASSUME NEW l \in Legs, UpdateLeg(l) PROVE LegInv'
  <2>1. file \in Tasks  BY <1>22 DEF ReadInv, UpdateLeg
  <2>2. PICK u \in Updates : file' = [file EXCEPT !.updates[l] = @ \cup {u}]
    BY <1>22 DEF UpdateLeg
  <2>3. file' \in Tasks /\ file'.legs = file.legs  BY <2>1, <2>2, UpdatedLegs
  <2>4. file # None /\ file' # None  BY <2>1, <2>3, NoneAssumption
  <2> QED
    BY <1>22, <2>1, <2>2, <2>3, <2>4 DEF UpdateLeg, Spend, GoLeg, runVars, stopVars, bgVars
<1>23. ASSUME NEW l \in Legs, UpdateSchedule(l) PROVE LegInv'
  BY <1>23 DEF UpdateSchedule, GoLeg, Schedule, LegRest, runVars, stopVars, logVars, spent
<1>24. ASSUME NEW l \in Legs, EndLeg(l) PROVE LegInv'
  BY <1>24 DEF EndLeg, GoLeg, LegRest, runVars, stopVars, bgVars, logVars, spent
<1>25. ASSUME NEW l \in Legs, TakeCanceled(l) PROVE LegInv'
  BY <1>25 DEF TakeCanceled, GoLeg, LegRest, runVars, stopVars, bgVars, logVars, spent, StopInv
<1>26. ASSUME NEW l \in Legs, FinishLeg(l) PROVE LegInv'
  <2> DEFINE found == file # None /\ file.legs[l] # "absent"
  <2>1. found => file' # None /\ file'.legs = [file.legs EXCEPT ![l] = "done"]
    BY <1>26, LegSetLegs DEF ReadInv, FinishLeg, LegStates
  <2>2. file # None => file.legs \in [Legs -> LegStates]
    BY DEF ReadInv
  <2>3. ~found => file' = file  BY <1>26 DEF FinishLeg
  <2> QED
    BY <1>26, <2>1, <2>2, <2>3 DEF FinishLeg, GoLeg, LegRest, runVars, stopVars, bgVars, logVars,
       spent
<1>27. ASSUME NEW l \in Legs, ScheduleLeg(l) PROVE LegInv'
  BY <1>27 DEF ScheduleLeg, GoLeg, Schedule, LegRest, runVars, stopVars, logVars, spent
<1>28. ASSUME ResumeCheck PROVE LegInv'
  BY <1>28 DEF ResumeCheck, GoResumer, ResumerRest, runVars, stopVars, legVars, logVars, spent
<1>29. ASSUME ResumePoll PROVE LegInv'
  BY <1>29 DEF ResumePoll, GoResumer, ResumerRest, runVars, stopVars, legVars, logVars, spent
<1>30. ASSUME ResumeClaim PROVE LegInv'
  BY <1>30 DEF ResumeClaim, Claim, GoResumer, ResumerRest, runVars, stopVars, legVars, logVars,
     spent
<1>31. ASSUME ResumeRun PROVE LegInv'
  BY <1>31 DEF ResumeRun, Go, GoResumer, ResumerRest, runVars, stopVars, legVars, logVars, spent
<1>32. ASSUME ResumeWait PROVE LegInv'
  BY <1>32 DEF ResumeWait, GoResumer, ResumerRest, runVars, stopVars, legVars, logVars, spent
<1>33. ASSUME ResumeNext PROVE LegInv'
  BY <1>33 DEF ResumeNext, GoResumer, ResumerRest, runVars, stopVars, legVars, logVars, spent
<1>34. ASSUME StopLegs PROVE LegInv'
  BY <1>34 DEF StopLegs, Spend, StopRest, runVars, bgVars
<1>35. ASSUME DropLegs PROVE LegInv'
  <2>1. file = None => file' = None  BY <1>35 DEF DropLegs
  <2>2. ASSUME file # None
        PROVE  file' # None /\ Running(file') = {} /\ Finished(file') = {}
    <3>1. file \in Tasks  BY <2>2 DEF ReadInv
    <3>2. file' = Cleared(file)  BY <1>35, <2>2 DEF DropLegs
    <3> QED  BY <3>1, <3>2, NoLegsLegs
  <2> QED
    BY <1>35, <2>1, <2>2 DEF DropLegs, StopRest, runVars, legVars, bgVars, spent
<1>36. ASSUME CancelDelete PROVE LegInv'
  BY <1>36 DEF CancelDelete, Schedule, ResumeUnreported, Delete, StopRest, runVars, legVars,
     bgVars, spent, StopInv
<1>37. ASSUME CancelRun PROVE LegInv'
  BY <1>37 DEF CancelRun, StopRest, runVars, legVars, bgVars, spent
<1>38. ASSUME CancelPrompt PROVE LegInv'
  BY <1>38 DEF CancelPrompt, Spend, Clean, runVars, stopVars, legVars, bgVars
<1>39. ASSUME Lapse PROVE LegInv'
  BY <1>39 DEF Lapse, Spend, runVars, stopVars, legVars, bgVars, spent
<1>40. ASSUME Restart PROVE LegInv'
  <2>1. file = None => file' = None  BY <1>40 DEF Restart
  <2>2. ASSUME file # None
        PROVE  file' # None /\ Running(file') = {} /\ Finished(file') = {}
    <3>1. file \in Tasks  BY <2>2 DEF ReadInv
    <3>2. file' = Cleared(file)  BY <1>40, <2>2 DEF Restart
    <3> QED  BY <3>1, <3>2, NoLegsLegs
  <2> QED
    BY <1>40, <2>1, <2>2 DEF Restart, Spend
<1>41. CASE UNCHANGED vars
  BY <1>41 DEF vars, runVars, stopVars, legVars, bgVars, logVars, spent
<1> QED
  BY <1>1, <1>2, <1>3, <1>4, <1>5, <1>6, <1>7, <1>8, <1>9, <1>10, <1>11, <1>12, <1>13, <1>14,
     <1>15, <1>16, <1>17, <1>18, <1>19, <1>20, <1>21, <1>22, <1>23, <1>24, <1>25, <1>26, <1>27,
     <1>28, <1>29, <1>30, <1>31, <1>32, <1>33, <1>34, <1>35, <1>36, <1>37, <1>38, <1>39, <1>40,
     <1>41
  DEF Next, RunStep, CleanStep, LegStep, ResumerStep, StopStep

\* A task never waits for a leg that has gone: what the file calls running has its
\* goroutine, until the user stops the task (StopBackground).
THEOREM LegsAccounted == Spec => []UnstoppedLegsAccounted
<1>1. Init => ClaimInv /\ StopInv /\ LegInv
  BY DEF Init, ClaimInv, Live, StopInv, LegInv, Running, NewTask, NoLegs
<1>2. LegInv => UnstoppedLegsAccounted
  BY DEF LegInv, UnstoppedLegsAccounted, Accounted
<1> QED  BY <1>1, <1>2, TypeInvariant, ClaimNext, StopNext, LegNext, PTL DEF Spec

-----------------------------------------------------------------------------
(* Results are kept until they are told, and told once.                     *)

\* What is not told yet: the results a file, a record that was read or a staged
\* report has of legs that are done.
Ended(l) == lpc[l] \in {"done", "over"}
Untold(l) == told[l] = 0 /\ Ended(l)
ToldInv ==
    ~loose =>
        /\ \A l \in Legs : told[l] <= 1 /\ (told[l] > 0 => Ended(l))
        /\ file # None => \A l \in Finished(file) : Untold(l)
        /\ \A r \in Runs : pc[r] = "stage" => \A l \in Finished(seen[r]) : Untold(l)
        /\ staged # None => \A l \in staged.done : Untold(l)

LEMMA ToldNext ==
    ASSUME TypeInv, ClaimInv, ToldInv, [Next]_vars PROVE ToldInv'
<1> USE DEF TypeInv, ReadInv, TypeOK, FileTypeOK, LegTypeOK, RunTypeOK, Tasks, ToldInv, Untold, Ended, Finished
<1>1. ASSUME NEW r \in Runs, Resume(r) PROVE ToldInv'
  BY <1>1 DEF Resume, Go, Claim, Spend, runVars, stopVars, legVars, bgVars
<1>2. ASSUME NEW r \in Runs, Follow(r) PROVE ToldInv'
  BY <1>2 DEF Follow, Go, Spend, runVars, stopVars, legVars, bgVars
<1>3. ASSUME NEW r \in Runs, FollowClaim(r) PROVE ToldInv'
  BY <1>3 DEF FollowClaim, Go, Claim, runVars, stopVars, legVars, bgVars, logVars, spent
<1>4. ASSUME NEW r \in Runs, Answer(r) PROVE ToldInv'
  BY <1>4 DEF Answer, Go, Spend, stopVars, legVars, bgVars
<1>5. ASSUME NEW r \in Runs, ReadTask(r) PROVE ToldInv'
  BY <1>5 DEF ReadTask, Go, stopVars, legVars, bgVars, logVars, spent
<1>6. ASSUME NEW r \in Runs, StageTask(r) PROVE ToldInv'
  BY <1>6 DEF StageTask, Go, stopVars, legVars, bgVars, logVars, spent
<1>7. ASSUME NEW r \in Runs, StartRun(r) PROVE ToldInv'
  BY <1>7 DEF StartRun, Go, runVars, legVars, bgVars, logVars, spent
<1>8. ASSUME NEW r \in Runs, FailStart(r) PROVE ToldInv'
  BY <1>8 DEF FailStart, Go, Spend, runVars, stopVars, legVars, bgVars
<1>9. ASSUME NEW r \in Runs, AskUser(r) PROVE ToldInv'
  <2>1. file # None => file' # None /\ file'.legs = file.legs
    BY <1>9, AskedLegs DEF AskUser
  <2>2. file = None => file' # None /\ Running(file') = {} /\ Finished(file') = {}
    BY <1>9, AskedLegs, EmptyTypes DEF AskUser, NewTask, NoLegs, Running
  <2> QED
    BY <1>9, <2>1, <2>2 DEF Used, AskUser, Free, Spend, runVars, stopVars, legVars, bgVars, LegPCs
<1>10. ASSUME NEW r \in Runs, Reply(r) PROVE ToldInv'
  <2>1. CASE ~(r # First /\ staged # None /\ staged.text = text[r])
    BY <1>10, <2>1 DEF Used, Reply, Commit, Free, runVars, stopVars, bgVars, legVars, logVars, spent
  <2>2. CASE r # First /\ staged # None /\ staged.text = text[r]
    <3>1. /\ staged # None /\ staged' = None
          /\ file' = IF file = None THEN None ELSE Committed(file)
          /\ told' = [l \in Legs |-> IF l \in staged.done THEN told[l] + 1 ELSE told[l]]
      BY <1>10, <2>2 DEF Reply, Commit
    <3>2. staged \in Reports  BY <3>1
    <3>3. ASSUME file # None
          PROVE  /\ file \in Tasks /\ file' # None
                 /\ Running(file') \subseteq Running(file)
                 /\ Running(file) \ staged.done \subseteq Running(file')
                 /\ Finished(file') = Finished(file) \ staged.done
      <4>1. file \in Tasks  BY <3>3
      <4>2. file' = Committed(file)  BY <3>1, <3>3
      <4> QED  BY <3>2, <4>1, <4>2, CommittedLegs
    <3>4. r \in Live  BY <1>10 DEF Reply, Free, Live
    <3>5. ~loose => \A q \in Runs : pc'[q] # "stage"
      BY <1>10, <3>4 DEF ClaimInv, Live, Reply, Free
    <3>6. \A l \in Legs : /\ l \in staged.done => told'[l] = told[l] + 1
                        /\ l \notin staged.done => told'[l] = told[l]
      BY <3>1
    <3>7. \A l \in Legs : told[l] \in Nat  OBVIOUS
    <3>8. UNCHANGED <<lpc, loose>>  BY <1>10 DEF Reply, legVars
    <3> QED
      BY <3>1, <3>2, <3>3, <3>5, <3>6, <3>7, <3>8 DEF Reports
  <2> QED  BY <2>1, <2>2
<1>11. ASSUME NEW r \in Runs, ReplyUnsaved(r) PROVE ToldInv'
  BY <1>11 DEF ReplyUnsaved, Free, Spend, stopVars, legVars, bgVars
<1>12. ASSUME NEW r \in Runs, FailRun(r) PROVE ToldInv'
  BY <1>12 DEF FailRun, Free, Spend, runVars, stopVars, legVars, bgVars
<1>13. ASSUME NEW r \in Runs, EndCanceled(r) PROVE ToldInv'
  BY <1>13 DEF EndCanceled, Free, Schedule, ResumeUnreported, Delete, runVars, stopVars, legVars,
     bgVars, logVars, spent
<1>14. ASSUME NEW r \in Runs, StopRun(r) PROVE ToldInv'
  BY <1>14 DEF StopRun, Go, legVars, bgVars, logVars, spent
<1>15. ASSUME NEW r \in Runs, AfterRun(r) PROVE ToldInv'
  BY <1>15 DEF AfterRun, Go, runVars, stopVars, legVars, bgVars, logVars, spent
<1>16. ASSUME NEW r \in Runs, NEW l \in Legs, FileLeg(r, l) PROVE ToldInv'
  BY <1>16 DEF FileLeg, Free, GoLeg, LegRest, runVars, stopVars, bgVars, logVars, spent
<1>17. ASSUME NEW c \in Cleaners, CleanLook(c) PROVE ToldInv'
  BY <1>17 DEF CleanLook, Clean, CleanRest, runVars, stopVars, legVars, bgVars, logVars, spent
<1>18. ASSUME NEW c \in Cleaners, CleanClear(c) PROVE ToldInv'
  BY <1>18 DEF CleanClear, Clean, Schedule, ResumeUnreported, CleanRest, runVars, stopVars,
     legVars, bgVars, logVars, spent
<1>19. ASSUME NEW c \in Cleaners, CleanRow(c) PROVE ToldInv'
  BY <1>19 DEF CleanRow, Spend, Clean, CleanRest, runVars, stopVars, legVars, bgVars, spent
<1>20. ASSUME NEW c \in Cleaners, CleanRemove(c) PROVE ToldInv'
  BY <1>20 DEF CleanRemove, Clean, CleanRest, runVars, stopVars, legVars, bgVars, spent
<1>21. ASSUME NEW l \in Legs, RegisterLeg(l) PROVE ToldInv'
  BY <1>21 DEF RegisterLeg, GoLeg, LegRest, runVars, stopVars, bgVars, logVars, spent
<1>22. ASSUME NEW l \in Legs, UpdateLeg(l) PROVE ToldInv'
  BY <1>22 DEF UpdateLeg, Spend, GoLeg, runVars, stopVars, bgVars
<1>23. ASSUME NEW l \in Legs, UpdateSchedule(l) PROVE ToldInv'
  BY <1>23 DEF UpdateSchedule, GoLeg, Schedule, LegRest, runVars, stopVars, logVars, spent
<1>24. ASSUME NEW l \in Legs, EndLeg(l) PROVE ToldInv'
  BY <1>24 DEF EndLeg, GoLeg, LegRest, runVars, stopVars, bgVars, logVars, spent
<1>25. ASSUME NEW l \in Legs, TakeCanceled(l) PROVE ToldInv'
  BY <1>25 DEF TakeCanceled, GoLeg, LegRest, runVars, stopVars, bgVars, logVars, spent
<1>26. ASSUME NEW l \in Legs, FinishLeg(l) PROVE ToldInv'
  BY <1>26 DEF FinishLeg, GoLeg, LegRest, runVars, stopVars, bgVars, logVars, spent
<1>27. ASSUME NEW l \in Legs, ScheduleLeg(l) PROVE ToldInv'
  BY <1>27 DEF ScheduleLeg, GoLeg, Schedule, LegRest, runVars, stopVars, logVars, spent
<1>28. ASSUME ResumeCheck PROVE ToldInv'
  BY <1>28 DEF ResumeCheck, GoResumer, ResumerRest, runVars, stopVars, legVars, logVars, spent
<1>29. ASSUME ResumePoll PROVE ToldInv'
  BY <1>29 DEF ResumePoll, GoResumer, ResumerRest, runVars, stopVars, legVars, logVars, spent
<1>30. ASSUME ResumeClaim PROVE ToldInv'
  BY <1>30 DEF ResumeClaim, Claim, GoResumer, ResumerRest, runVars, stopVars, legVars, logVars,
     spent
<1>31. ASSUME ResumeRun PROVE ToldInv'
  BY <1>31 DEF ResumeRun, Go, GoResumer, ResumerRest, runVars, stopVars, legVars, logVars, spent
<1>32. ASSUME ResumeWait PROVE ToldInv'
  BY <1>32 DEF ResumeWait, GoResumer, ResumerRest, runVars, stopVars, legVars, logVars, spent
<1>33. ASSUME ResumeNext PROVE ToldInv'
  BY <1>33 DEF ResumeNext, GoResumer, ResumerRest, runVars, stopVars, legVars, logVars, spent
<1>34. ASSUME StopLegs PROVE ToldInv'
  BY <1>34 DEF StopLegs, Spend, StopRest, runVars, bgVars
<1>35. ASSUME DropLegs PROVE ToldInv'
  <2>1. file = None => file' = None  BY <1>35 DEF DropLegs
  <2>2. ASSUME file # None
        PROVE  file' # None /\ Running(file') = {} /\ Finished(file') = {}
    <3>1. file \in Tasks  BY <2>2
    <3>2. file' = Cleared(file)  BY <1>35, <2>2 DEF DropLegs
    <3> QED  BY <3>1, <3>2, NoLegsLegs
  <2> QED
    BY <1>35, <2>1, <2>2 DEF Used, DropLegs, StopRest, runVars, legVars, bgVars, spent, LegPCs
<1>36. ASSUME CancelDelete PROVE ToldInv'
  BY <1>36 DEF CancelDelete, Schedule, ResumeUnreported, Delete, StopRest, runVars, legVars,
     bgVars, spent
<1>37. ASSUME CancelRun PROVE ToldInv'
  BY <1>37 DEF CancelRun, StopRest, runVars, legVars, bgVars, spent
<1>38. ASSUME CancelPrompt PROVE ToldInv'
  BY <1>38 DEF CancelPrompt, Spend, Clean, runVars, stopVars, legVars, bgVars
<1>39. ASSUME Lapse PROVE ToldInv'
  BY <1>39 DEF Lapse, Spend, runVars, stopVars, legVars, bgVars, spent
<1>40. ASSUME Restart PROVE ToldInv'
  <2>1. file = None => file' = None  BY <1>40 DEF Restart
  <2>2. ASSUME file # None
        PROVE  file' # None /\ Running(file') = {} /\ Finished(file') = {}
    <3>1. file \in Tasks  BY <2>2
    <3>2. file' = Cleared(file)  BY <1>40, <2>2 DEF Restart
    <3> QED  BY <3>1, <3>2, NoLegsLegs
  <2> QED
    BY <1>40, <2>1, <2>2 DEF Used, Restart, Spend, LegPCs
<1>41. CASE UNCHANGED vars
  BY <1>41 DEF vars, runVars, stopVars, legVars, bgVars, logVars, spent
<1> QED
  BY <1>1, <1>2, <1>3, <1>4, <1>5, <1>6, <1>7, <1>8, <1>9, <1>10, <1>11, <1>12, <1>13, <1>14,
     <1>15, <1>16, <1>17, <1>18, <1>19, <1>20, <1>21, <1>22, <1>23, <1>24, <1>25, <1>26, <1>27,
     <1>28, <1>29, <1>30, <1>31, <1>32, <1>33, <1>34, <1>35, <1>36, <1>37, <1>38, <1>39, <1>40,
     <1>41
  DEF Next, RunStep, CleanStep, LegStep, ResumerStep, StopStep

\* CommitBackgroundReport never commits the result of a leg twice.
THEOREM ResultsToldOnce == Spec => []ToldOnce
<1>1. Init => ClaimInv /\ ToldInv
  BY PendingAssumption DEF Init, ClaimInv, Live, ToldInv, Finished, NewTask, NoLegs
<1>2. ToldInv => ToldOnce
  BY DEF ToldInv, ToldOnce
<1> QED  BY <1>1, <1>2, TypeInvariant, ClaimNext, ToldNext, PTL DEF Spec

\* A leg at work is in the file, and one that has ended left its result there.
KeptInv ==
    ~loose /\ Undisturbed =>
        \A l \in Legs :
            /\ lpc[l] \notin {"idle", "done", "over"} => file # None /\ file.legs[l] = "running"
            /\ Ended(l) => Kept(l)

LEMMA KeptNext ==
    ASSUME TypeInv, ClaimInv, StopInv, ToldInv, KeptInv, [Next]_vars PROVE KeptInv'
<1> USE DEF TypeInv, TypeOK, FileTypeOK, LegTypeOK, RunTypeOK, Tasks, KeptInv, Ended, Kept, Used, Undisturbed
<1>1. ASSUME NEW r \in Runs, Resume(r) PROVE KeptInv'
  BY <1>1 DEF Resume, Go, Claim, Spend, runVars, stopVars, legVars, bgVars
<1>2. ASSUME NEW r \in Runs, Follow(r) PROVE KeptInv'
  BY <1>2 DEF Follow, Go, Spend, runVars, stopVars, legVars, bgVars
<1>3. ASSUME NEW r \in Runs, FollowClaim(r) PROVE KeptInv'
  BY <1>3 DEF FollowClaim, Go, Claim, runVars, stopVars, legVars, bgVars, logVars, spent
<1>4. ASSUME NEW r \in Runs, Answer(r) PROVE KeptInv'
  BY <1>4 DEF Answer, Go, Spend, stopVars, legVars, bgVars
<1>5. ASSUME NEW r \in Runs, ReadTask(r) PROVE KeptInv'
  BY <1>5 DEF ReadTask, Go, stopVars, legVars, bgVars, logVars, spent
<1>6. ASSUME NEW r \in Runs, StageTask(r) PROVE KeptInv'
  <2>1. seen[r] \in Tasks
    BY <1>6 DEF ReadInv, StageTask, Go
  <2>2. file # None => file' # None /\ file'.legs = file.legs
    BY <1>6, <2>1, AskedLegs DEF ReadInv, StageTask
  <2> QED
    BY <1>6, <2>1, <2>2 DEF Running, StageTask, Go, stopVars, legVars, bgVars, logVars, spent,
       LegPCs
<1>7. ASSUME NEW r \in Runs, StartRun(r) PROVE KeptInv'
  BY <1>7 DEF StartRun, Go, runVars, legVars, bgVars, logVars, spent
<1>8. ASSUME NEW r \in Runs, FailStart(r) PROVE KeptInv'
  BY <1>8 DEF FailStart, Go, Spend, runVars, stopVars, legVars, bgVars
<1>9. ASSUME NEW r \in Runs, AskUser(r) PROVE KeptInv'
  <2>1. file # None => file' # None /\ file'.legs = file.legs
    BY <1>9, AskedLegs DEF ReadInv, AskUser
  <2>2. file = None => file' # None /\ Running(file') = {} /\ Finished(file') = {}
    BY <1>9, AskedLegs, EmptyTypes DEF AskUser, NewTask, NoLegs, Running, Finished
  <2> QED
    BY <1>9, <2>1, <2>2 DEF Running, AskUser, Free, Spend, runVars, stopVars, legVars, bgVars,
       LegPCs
<1>10. ASSUME NEW r \in Runs, Reply(r) PROVE KeptInv'
  <2>1. CASE ~(r # First /\ staged # None /\ staged.text = text[r])
    BY <1>10, <2>1 DEF Reply, Commit, Free, runVars, stopVars, bgVars, legVars, logVars, spent
  <2>2. CASE r # First /\ staged # None /\ staged.text = text[r]
    <3>1. /\ staged # None /\ staged' = None
          /\ file' = IF file = None THEN None ELSE Committed(file)
          /\ told' = [l \in Legs |-> IF l \in staged.done THEN told[l] + 1 ELSE told[l]]
      BY <1>10, <2>2 DEF Reply, Commit
    <3>2. staged \in Reports  BY <3>1 DEF ReadInv
    <3>3. ASSUME file # None
          PROVE  /\ file \in Tasks /\ file' # None
                 /\ Running(file') \subseteq Running(file)
                 /\ Running(file) \ staged.done \subseteq Running(file')
                 /\ Finished(file') = Finished(file) \ staged.done
      <4>1. file \in Tasks  BY <3>3 DEF ReadInv
      <4>2. file' = Committed(file)  BY <3>1, <3>3
      <4> QED  BY <3>2, <4>1, <4>2, CommittedLegs
    <3>4. \A l \in Legs : /\ l \in staged.done => told'[l] = told[l] + 1
                        /\ l \notin staged.done => told'[l] = told[l]
      BY <3>1
    <3>5. \A l \in Legs : told[l] \in Nat  BY DEF ReadInv
    <3>6. UNCHANGED <<lpc, loose, used>>  BY <1>10 DEF Reply, legVars, spent
    <3>7. ~loose => \A l \in staged.done : Ended(l)
      BY <3>1 DEF ToldInv, Untold
    <3> QED
      BY <3>1, <3>2, <3>3, <3>4, <3>5, <3>6, <3>7
      DEF Running, Finished, Reports
  <2> QED  BY <2>1, <2>2
<1>11. ASSUME NEW r \in Runs, ReplyUnsaved(r) PROVE KeptInv'
  BY <1>11 DEF ReplyUnsaved, Free, Spend, stopVars, legVars, bgVars
<1>12. ASSUME NEW r \in Runs, FailRun(r) PROVE KeptInv'
  BY <1>12 DEF FailRun, Free, Spend, runVars, stopVars, legVars, bgVars
<1>13. ASSUME NEW r \in Runs, EndCanceled(r) PROVE KeptInv'
  BY <1>13 DEF EndCanceled, Free, Schedule, ResumeUnreported, Delete, runVars, stopVars, legVars,
     bgVars, logVars, spent, StopInv
<1>14. ASSUME NEW r \in Runs, StopRun(r) PROVE KeptInv'
  BY <1>14 DEF StopRun, Go, legVars, bgVars, logVars, spent
<1>15. ASSUME NEW r \in Runs, AfterRun(r) PROVE KeptInv'
  BY <1>15 DEF AfterRun, Go, runVars, stopVars, legVars, bgVars, logVars, spent
<1>16. ASSUME NEW r \in Runs, NEW l \in Legs, FileLeg(r, l) PROVE KeptInv'
  <2>1. file' # None /\ file'.legs = [file.legs EXCEPT ![l] = "running"]
    BY <1>16, LegSetLegs DEF ReadInv, FileLeg, LegStates
  <2>2. file.legs \in [Legs -> LegStates]
    BY <1>16 DEF ReadInv, FileLeg
  <2> QED
    BY <1>16, <2>1, <2>2 DEF Running, FileLeg, Free, GoLeg, LegRest, runVars, stopVars, bgVars,
       logVars, spent, LegPCs
<1>17. ASSUME NEW c \in Cleaners, CleanLook(c) PROVE KeptInv'
  BY <1>17 DEF CleanLook, Clean, CleanRest, runVars, stopVars, legVars, bgVars, logVars, spent
<1>18. ASSUME NEW c \in Cleaners, CleanClear(c) PROVE KeptInv'
  <2>1. file # None => file' # None /\ file'.legs = file.legs
    BY <1>18, AskedLegs DEF ReadInv, CleanClear
  <2>2. file = None => file' = None
    BY <1>18 DEF CleanClear
  <2> QED
    BY <1>18, <2>1, <2>2 DEF Running, CleanClear, Clean, Schedule, ResumeUnreported, CleanRest,
       runVars, stopVars, legVars, bgVars, logVars, spent, LegPCs
<1>19. ASSUME NEW c \in Cleaners, CleanRow(c) PROVE KeptInv'
  BY <1>19 DEF CleanRow, Spend, Clean, CleanRest, runVars, stopVars, legVars, bgVars, spent
<1>20. ASSUME NEW c \in Cleaners, CleanRemove(c) PROVE KeptInv'
  <2>1. ~loose' => ~Busy /\ ~loose  BY <1>20 DEF CleanRemove
  <2>2. UNCHANGED <<lpc, told, used>>  BY <1>20 DEF CleanRemove, CleanRest, legVars, spent
  <2>3. ~Busy => file = None \/ \A l \in Legs : file.legs[l] \notin {"running", "done"}
    BY DEF Busy, Running, Finished
  <2> QED  BY <2>1, <2>2, <2>3
<1>21. ASSUME NEW l \in Legs, RegisterLeg(l) PROVE KeptInv'
  BY <1>21 DEF RegisterLeg, GoLeg, LegRest, runVars, stopVars, bgVars, logVars, spent
<1>22. ASSUME NEW l \in Legs, UpdateLeg(l) PROVE KeptInv'
  <2>1. file \in Tasks  BY <1>22 DEF ReadInv, UpdateLeg
  <2>2. PICK u \in Updates : file' = [file EXCEPT !.updates[l] = @ \cup {u}]
    BY <1>22 DEF UpdateLeg
  <2>3. file' \in Tasks /\ file'.legs = file.legs  BY <2>1, <2>2, UpdatedLegs
  <2>4. file # None /\ file' # None  BY <2>1, <2>3, NoneAssumption
  <2> QED
    BY <1>22, <2>1, <2>2, <2>3, <2>4 DEF Running, UpdateLeg, Spend, GoLeg, runVars, stopVars,
       bgVars, LegPCs
<1>23. ASSUME NEW l \in Legs, UpdateSchedule(l) PROVE KeptInv'
  BY <1>23 DEF UpdateSchedule, GoLeg, Schedule, LegRest, runVars, stopVars, logVars, spent
<1>24. ASSUME NEW l \in Legs, EndLeg(l) PROVE KeptInv'
  BY <1>24 DEF EndLeg, GoLeg, LegRest, runVars, stopVars, bgVars, logVars, spent
<1>25. ASSUME NEW l \in Legs, TakeCanceled(l) PROVE KeptInv'
  BY <1>25 DEF TakeCanceled, GoLeg, LegRest, runVars, stopVars, bgVars, logVars, spent, StopInv
<1>26. ASSUME NEW l \in Legs, FinishLeg(l) PROVE KeptInv'
  <2> DEFINE found == file # None /\ file.legs[l] # "absent"
  <2>1. found => file' # None /\ file'.legs = [file.legs EXCEPT ![l] = "done"]
    BY <1>26, LegSetLegs DEF ReadInv, FinishLeg, LegStates
  <2>2. file # None => file.legs \in [Legs -> LegStates]
    BY DEF ReadInv
  <2>3. ~found => file' = file  BY <1>26 DEF FinishLeg
  <2> QED
    BY <1>26, <2>1, <2>2, <2>3 DEF Running, FinishLeg, GoLeg, LegRest, runVars, stopVars, bgVars,
       logVars, spent, LegPCs
<1>27. ASSUME NEW l \in Legs, ScheduleLeg(l) PROVE KeptInv'
  BY <1>27 DEF ScheduleLeg, GoLeg, Schedule, LegRest, runVars, stopVars, logVars, spent
<1>28. ASSUME ResumeCheck PROVE KeptInv'
  BY <1>28 DEF ResumeCheck, GoResumer, ResumerRest, runVars, stopVars, legVars, logVars, spent
<1>29. ASSUME ResumePoll PROVE KeptInv'
  BY <1>29 DEF ResumePoll, GoResumer, ResumerRest, runVars, stopVars, legVars, logVars, spent
<1>30. ASSUME ResumeClaim PROVE KeptInv'
  BY <1>30 DEF ResumeClaim, Claim, GoResumer, ResumerRest, runVars, stopVars, legVars, logVars,
     spent
<1>31. ASSUME ResumeRun PROVE KeptInv'
  BY <1>31 DEF ResumeRun, Go, GoResumer, ResumerRest, runVars, stopVars, legVars, logVars, spent
<1>32. ASSUME ResumeWait PROVE KeptInv'
  BY <1>32 DEF ResumeWait, GoResumer, ResumerRest, runVars, stopVars, legVars, logVars, spent
<1>33. ASSUME ResumeNext PROVE KeptInv'
  BY <1>33 DEF ResumeNext, GoResumer, ResumerRest, runVars, stopVars, legVars, logVars, spent
<1>34. ASSUME StopLegs PROVE KeptInv'
  BY <1>34 DEF StopLegs, Spend, StopRest, runVars, bgVars
<1>35. ASSUME DropLegs PROVE KeptInv'
  BY <1>35 DEF DropLegs, StopRest, runVars, legVars, bgVars, spent, StopInv
<1>36. ASSUME CancelDelete PROVE KeptInv'
  BY <1>36 DEF CancelDelete, Schedule, ResumeUnreported, Delete, StopRest, runVars, legVars,
     bgVars, spent, StopInv
<1>37. ASSUME CancelRun PROVE KeptInv'
  BY <1>37 DEF CancelRun, StopRest, runVars, legVars, bgVars, spent
<1>38. ASSUME CancelPrompt PROVE KeptInv'
  BY <1>38 DEF CancelPrompt, Spend, Clean, runVars, stopVars, legVars, bgVars
<1>39. ASSUME Lapse PROVE KeptInv'
  BY <1>39 DEF Lapse, Spend, runVars, stopVars, legVars, bgVars, spent
<1>40. ASSUME Restart PROVE KeptInv'
  BY <1>40 DEF Restart, Spend
<1>41. CASE UNCHANGED vars
  BY <1>41 DEF vars, runVars, stopVars, legVars, bgVars, logVars, spent
<1> QED
  BY <1>1, <1>2, <1>3, <1>4, <1>5, <1>6, <1>7, <1>8, <1>9, <1>10, <1>11, <1>12, <1>13, <1>14,
     <1>15, <1>16, <1>17, <1>18, <1>19, <1>20, <1>21, <1>22, <1>23, <1>24, <1>25, <1>26, <1>27,
     <1>28, <1>29, <1>30, <1>31, <1>32, <1>33, <1>34, <1>35, <1>36, <1>37, <1>38, <1>39, <1>40,
     <1>41
  DEF Next, RunStep, CleanStep, LegStep, ResumerStep, StopStep

\* The result of a leg that has ended is in the file or in the history.
THEOREM ResultsStay == Spec => []ResultsKept
<1>1. Init => ClaimInv /\ StopInv /\ ToldInv /\ KeptInv
  BY PendingAssumption DEF Init, ClaimInv, Live, StopInv, ToldInv, Finished, NewTask, NoLegs,
     KeptInv, Ended
<1>2. KeptInv => ResultsKept
  BY DEF KeptInv, ResultsKept, Ended
<1> QED
  BY <1>1, <1>2, TypeInvariant, ClaimNext, StopNext, ToldNext, KeptNext, PTL DEF Spec

\* The two halves of what a report owes the user, as the runs check them.
THEOREM ResultsCount == Spec => []EachResultCounts
<1>1. ResultsKept /\ ToldOnce => EachResultCounts  BY DEF EachResultCounts
<1> QED  BY <1>1, ResultsStay, ResultsToldOnce, PTL

-----------------------------------------------------------------------------
(* The watch over a background command's output.                            *)

\* The lines the result shows reach back at least as far as the buffer does, and
\* only a segment the decision model has is in hand.
WatchShape ==
    /\ output \in Seq({"error", "plain"})
    /\ taken \in Nat /\ full \in Nat
    /\ taken <= Len(output) /\ full <= Len(output)
    /\ Len(output) - BufferLines <= full
    /\ watcher = [pc |-> watcher.pc, segment |-> watcher.segment, told |-> watcher.told]
    /\ watcher.pc # "decide" => watcher.segment = {}

LEMMA WatcherSet ==
    ASSUME WatchShape, NEW next, NEW segment, NEW now,
           \/ watcher' = [watcher EXCEPT !.pc = next, !.segment = segment]
           \/ watcher' = [watcher EXCEPT !.pc = next, !.segment = segment, !.told = now]
    PROVE  /\ watcher' = [pc |-> watcher'.pc, segment |-> watcher'.segment,
                          told |-> watcher'.told]
           /\ watcher'.pc = next /\ watcher'.segment = segment
<1>1. watcher = [pc |-> watcher.pc, segment |-> watcher.segment, told |-> watcher.told]
  BY DEF WatchShape
<1>2. CASE watcher' = [watcher EXCEPT !.pc = next, !.segment = segment]
  <2>1. watcher' = [pc |-> next, segment |-> segment, told |-> watcher.told]  BY <1>1, <1>2
  <2> QED  BY <2>1
<1>3. CASE watcher' = [watcher EXCEPT !.pc = next, !.segment = segment, !.told = now]
  <2>1. watcher' = [pc |-> next, segment |-> segment, told |-> now]  BY <1>1, <1>3
  <2> QED  BY <2>1
<1> QED  BY <1>2, <1>3

LEMMA WatchStep ==
    ASSUME WatchShape, NoErrorLost, [WatchNext]_watchVars
    PROVE  WatchShape' /\ NoErrorLost'
<1> DEFINE n == Len(output)
<1>1. /\ n \in Nat /\ taken \in Nat /\ full \in Nat /\ taken <= n /\ full <= n
      /\ n - BufferLines <= full
      /\ BufferLines \in Nat \ {0} /\ TailLines \in Nat /\ BufferLines <= TailLines
  BY WatchAssumption DEF WatchShape
<1>2. ASSUME NEW line \in {"error", "plain"}, AddLine(line)
      PROVE  WatchShape' /\ NoErrorLost'
  <2> DEFINE room == IF (n + 1) - BufferLines > full THEN (n + 1) - BufferLines ELSE full
  <2>1. /\ output' = Append(output, line) /\ command = "running" /\ full' = room
        /\ cut \subseteq cut' /\ \A i \in Held : i <= room => i \in cut'
        /\ hit' = (hit \/ line = "error")
        /\ UNCHANGED << taken, agent, watcher, command, reported, judged >>
    <3>1. output' = Append(output, line)  BY <1>2, Zenon DEF AddLine
    <3>4. UNCHANGED << taken, agent, watcher, command, reported, judged >>  BY <1>2, Zenon DEF AddLine
    <3>5. command = "running"  BY <1>2, Zenon DEF AddLine
    <3>3. full' = room /\ cut' = cut \cup {i \in Held : i <= room}  BY <1>2, Zenon DEF AddLine
    <3>2. hit' = (hit \/ line = "error")  BY <1>2, Zenon DEF AddLine
    <3> HIDE DEF room
    <3> QED  BY <3>1, <3>2, <3>3, <3>4, <3>5
  <2>2. /\ output' \in Seq({"error", "plain"}) /\ Len(output') = n + 1
        /\ \A i \in 1 .. n : output'[i] = output[i]
        /\ output'[n + 1] = line
    BY <2>1 DEF WatchShape
  <2> HIDE DEF n
  <2>3. room \in Nat /\ room <= n /\ (n + 1) - BufferLines <= room  BY <1>1
  <2>4. WatchShape'  BY <1>1, <2>1, <2>2, <2>3 DEF WatchShape
  <2> HIDE DEF room
  <2>5. NoErrorLost'
    <3> SUFFICES ASSUME NEW i \in 1 .. n + 1, output'[i] = "error"
                 PROVE  \/ i \in (reported \cup judged \cup cut \cup watcher.segment)'
                        \/ i \in Held' /\ (hit' \/ (watcher.pc)' = "settle")
      BY <2>2 DEF NoErrorLost, Lines
    <3>1. CASE i = n + 1
      <4>1. i \in Held'  BY <1>1, <2>1, <2>2, <2>3, <3>1 DEF Held, Lines
      <4>2. hit'  BY <2>1, <2>2, <3>1
      <4> QED  BY <4>1, <4>2
    <3>2. CASE i \in 1 .. n
      <4>1. /\ i \in Lines /\ output[i] = "error"  BY <2>2, <3>2 DEF Lines, n
      <4>2. CASE i \in reported \cup judged \cup cut \cup watcher.segment
        BY <2>1, <4>2
      <4>3. CASE /\ i \in Held /\ (hit \/ watcher.pc = "settle")
        <5>1. CASE i <= room  BY <2>1, <4>3, <5>1
        <5>2. CASE ~(i <= room)
          <6>1. i \in Held'  BY <1>1, <2>1, <2>2, <2>3, <3>2, <4>3, <5>2 DEF Held, Lines
          <6>2. hit' \/ (watcher.pc)' = "settle"  BY <2>1, <4>3
          <6> QED  BY <6>1, <6>2
        <5> QED  BY <5>1, <5>2
      <4> QED  BY <2>1, <4>1, <4>2, <4>3 DEF NoErrorLost
    <3> QED  BY <1>1, <3>1, <3>2
  <2> QED  BY <2>4, <2>5
<1>3. CASE Exit \/ Finish
  <2>1. /\ UNCHANGED << output, taken, full, hit, agent, watcher, reported, judged, cut >>
        /\ command' # "running"
    BY <1>3 DEF Exit, Finish
  <2>2. WatchShape'  BY <2>1 DEF WatchShape
  <2>3. Lines' = Lines /\ Held' = Held /\ TailText' = TailText
    BY <2>1 DEF Lines, Held, TailText
  <2>4. NoErrorLost'
    <3>1. CASE command = "running"  BY <2>1, <2>3, <3>1 DEF NoErrorLost
    <3>2. CASE command # "running"  BY <2>1, <2>3, <3>2 DEF NoErrorLost
    <3> QED  BY <3>1, <3>2
  <2> QED  BY <2>2, <2>4
<1>4. CASE Wake
  <2>1. /\ UNCHANGED << output, taken, full, agent, command, reported, judged, cut >>
        /\ watcher' = [watcher EXCEPT !.pc = "settle", !.segment = {}]
        /\ watcher.pc = "wait"
    BY <1>4 DEF Wake, Goto
  <2>2. /\ watcher' = [pc |-> watcher'.pc, segment |-> watcher'.segment,
                       told |-> watcher'.told]
        /\ watcher'.pc = "settle" /\ watcher'.segment = {} /\ watcher.segment = {}
    BY <2>1, WatcherSet DEF WatchShape
  <2>3. WatchShape'  BY <2>1, <2>2 DEF WatchShape
  <2>4. Lines' = Lines /\ Held' = Held  BY <2>1 DEF Lines, Held
  <2> QED  BY <2>1, <2>2, <2>3, <2>4 DEF NoErrorLost
<1>5. CASE WatchEnds
  <2>1. /\ UNCHANGED << output, taken, full, hit, agent, command, reported, judged, cut >>
        /\ watcher' = [watcher EXCEPT !.pc = "gone", !.segment = {}]
        /\ watcher.pc \in {"wait", "settle"} /\ command # "running"
    BY <1>5 DEF WatchEnds, Goto
  <2>2. /\ watcher' = [pc |-> watcher'.pc, segment |-> watcher'.segment,
                       told |-> watcher'.told]
        /\ watcher'.pc = "gone" /\ watcher'.segment = {} /\ watcher.segment = {}
    BY <2>1, WatcherSet DEF WatchShape
  <2>3. WatchShape'  BY <2>1, <2>2 DEF WatchShape
  <2>4. Lines' = Lines /\ Held' = Held /\ TailText' = TailText
    BY <2>1 DEF Lines, Held, TailText
  <2>5. \A i \in Held : i \in TailText
    <3>1. \A i \in Held : i \in 1 .. n /\ i > full  BY DEF Held, Lines
    <3> HIDE DEF n
    <3>2. \A i \in Held : i > n - TailLines  BY <1>1, <3>1
    <3> QED  BY <3>1, <3>2 DEF TailText, Lines, n
  <2> QED  BY <2>1, <2>2, <2>3, <2>4, <2>5 DEF NoErrorLost
<1>6. CASE TakeLines
  <2> DEFINE T == TailWatchLines(Held)
  <2>1. /\ taken' = n /\ watcher.pc = "settle"
        /\ cut' = cut \cup (Held \ T)
        /\ UNCHANGED << output, full, hit, agent, command, judged >>
    BY <1>6 DEF TakeLines
  <2>2. \/ Held = {} /\ watcher' = Goto("wait") /\ reported' = reported
        \/ /\ watcher' = [watcher EXCEPT !.pc = "decide", !.segment = T]
           /\ reported' = reported
        \/ /\ watcher' = [watcher EXCEPT !.pc = "wait", !.segment = {}, !.told = TRUE]
           /\ reported' = reported \cup T
    BY <1>6 DEF TakeLines, Tells
  <2> HIDE DEF T
  <2>3. /\ watcher' = [pc |-> watcher'.pc, segment |-> watcher'.segment,
                       told |-> watcher'.told]
        /\ watcher'.pc # "decide" => watcher'.segment = {}
        /\ Held \subseteq T \cup (Held \ T)
        /\ Held = {} \/ T \subseteq reported' \cup watcher'.segment
        /\ reported \subseteq reported' /\ watcher.segment = {}
    <3>1. CASE Held = {} /\ watcher' = Goto("wait") /\ reported' = reported
      BY <2>1, <3>1, WatcherSet DEF Goto, WatchShape
    <3>2. CASE /\ watcher' = [watcher EXCEPT !.pc = "decide", !.segment = T]
               /\ reported' = reported
      BY <2>1, <3>2, WatcherSet DEF WatchShape
    <3>3. CASE /\ watcher' = [watcher EXCEPT !.pc = "wait", !.segment = {}, !.told = TRUE]
               /\ reported' = reported \cup T
      BY <2>1, <3>3, WatcherSet DEF WatchShape
    <3> QED  BY <2>2, <3>1, <3>2, <3>3
  <2>4. WatchShape'  BY <1>1, <2>1, <2>3 DEF WatchShape
  <2>5. \A i \in Held : i \in (reported \cup judged \cup cut \cup watcher.segment)'
    BY <2>1, <2>3
  <2> QED  BY <2>1, <2>3, <2>4, <2>5 DEF NoErrorLost, Lines
<1>7. CASE DecideWatch
  <2>1. UNCHANGED << output, taken, full, agent, command >> /\ watcher.pc = "decide"
    BY <1>7 DEF DecideWatch
  <2>2. \/ /\ watcher' = Goto("gone") /\ cut' = cut \cup watcher.segment
           /\ UNCHANGED << hit, reported, judged >>
        \/ /\ watcher' = Goto("wait") /\ judged' = judged \cup watcher.segment
           /\ UNCHANGED << hit, reported, cut >>
        \/ /\ watcher' = [watcher EXCEPT !.pc = "wait", !.segment = {}, !.told = TRUE]
           /\ reported' = reported \cup watcher.segment
           /\ UNCHANGED << hit, judged, cut >>
    BY <1>7 DEF DecideWatch, Judged, Tells
  <2>3. /\ watcher' = [pc |-> watcher'.pc, segment |-> watcher'.segment,
                       told |-> watcher'.told]
        /\ watcher'.segment = {}
    BY <2>2, WatcherSet DEF Goto
  <2>4. /\ hit' = hit
        /\ reported \cup judged \cup cut \cup watcher.segment
             \subseteq reported' \cup judged' \cup cut'
    BY <2>2
  <2>5. WatchShape'  BY <2>1, <2>3 DEF WatchShape
  <2>6. Lines' = Lines /\ Held' = Held /\ TailText' = TailText
    BY <2>1 DEF Lines, Held, TailText
  <2> QED  BY <2>1, <2>4, <2>5, <2>6 DEF NoErrorLost
<1>8. CASE UNCHANGED watchVars
  BY <1>8 DEF watchVars, WatchShape, NoErrorLost, Lines, Held, TailText
<1> QED  BY <1>2, <1>3, <1>4, <1>5, <1>6, <1>7, <1>8 DEF WatchNext

\* No line of a background command with an error keyword gets lost, for any number of lines
\* and any sizes of buffer, report and result (watchOutput): it has been reported, or judged,
\* or is with the decision model, or it is held and about to be taken or shown by the result,
\* unless it found no room or the time ran out while the model had it.
THEOREM ErrorsKept == WatchSpec => []NoErrorLost
<1>1. WatchInit => WatchShape /\ NoErrorLost
  BY WatchAssumption DEF WatchInit, WatchShape, NoErrorLost, Lines
<1>2. WatchShape /\ NoErrorLost /\ [WatchNext]_watchVars => WatchShape' /\ NoErrorLost'
  BY WatchStep
<1> QED  BY <1>1, <1>2, PTL DEF WatchSpec

-----------------------------------------------------------------------------
(* The confirmations of the browser.  A page's box holds the numbers of     *)
(* events, in the order they were published.                                *)

WebConstants == Done \notin Confirms /\ MaxVisits \in Int

Posts == {<< >>} \cup (Confirms \X {"looked", "untracked"})
Boxes == [pc : {"off", "joins", "live"}, since : Nat, queue : Seq(Nat), merged : Seq(Nat),
          got : SUBSET Nat, lost : SUBSET Nat, told : SUBSET Nat, ended : Nat,
          cards : SUBSET Confirms, post : Posts, visits : Int]

WebTypes ==
    /\ entry \in [Confirms -> {"new", "queued", "claimed", "answered", "gone"}]
    /\ \/ emitter = Resting
       \/ \E s \in {"picked", "tracked"}, c \in Confirms : emitter = [pc |-> s, id |-> << c >>]
    /\ outstanding \subseteq Confirms
    /\ page \in [Pages -> Boxes]
    /\ events \in Seq(Confirms \cup {Done})
    /\ unseen \in [Pages -> SUBSET Confirms]

Rising(s) == \A i, j \in DOMAIN s : i < j => s[i] < s[j]

(* Of n events the box carries those its page still has to see, in order:   *)
(* what waits in its connection is older than what waits in the             *)
(* subscription, and what no longer waits was shown or was lost.            *)
Carries(box, n) ==
    /\ Rising(box.queue) /\ Rising(box.merged)
    /\ \A i \in DOMAIN box.merged, j \in DOMAIN box.queue : box.merged[i] < box.queue[j]
    /\ Numbers(box) \subseteq 1 .. n
    /\ box.since <= n /\ box.ended <= n
    /\ box.pc = "live" => box.since + 1 .. n \subseteq box.got \cup Numbers(box)
    /\ box.since + 1 .. box.ended \subseteq box.got \cup box.told

EventInv == \A p \in Pages : Carries(page[p], Len(events))

(* A confirmation that waits for its answer is outstanding, unless the loop *)
(* has it still to track or an answer to it is on its way.                  *)
Answering(c) == \E p \in Pages : page[p].post = << c, "untracked" >>
TrackInv ==
    \A c \in Confirms :
        entry[c] = "claimed" /\ emitter # [pc |-> "picked", id |-> << c >>] =>
            c \in outstanding \/ Answering(c)

(* It is before the user already while the page is about to subscribe.      *)
ShownInv ==
    \A c \in Confirms, p \in Pages :
        entry[c] = "claimed" /\ emitter.id # << c >> /\ page[p].pc # "off" =>
            \/ Answering(c)
            \/ c \in page[p].cards \cup unseen[p]
            \/ page[p].pc = "live" /\ \E n \in Numbers(page[p]) : events[n] = c

WebInv == WebTypes /\ EventInv /\ TrackInv /\ ShownInv

LEMMA LastRange ==
    ASSUME NEW S, NEW s \in Seq(S), NEW x \in S
    PROVE  Append(s, x) \in Seq(S) /\ Range(Append(s, x)) = Range(s) \cup {x}
<1>1. DOMAIN s = 1 .. Len(s) /\ DOMAIN Append(s, x) = 1 .. Len(s) + 1 /\ Len(s) \in Nat
  OBVIOUS
<1>2. \A i \in 1 .. Len(s) : Append(s, x)[i] = s[i]  OBVIOUS
<1>3. Append(s, x)[Len(s) + 1] = x  OBVIOUS
<1> QED  BY <1>1, <1>2, <1>3 DEF Range

LEMMA HeadRange ==
    ASSUME NEW S, NEW s \in Seq(S), s # << >>
    PROVE  /\ Tail(s) \in Seq(S) /\ Head(s) \in S
           /\ Range(s) = {Head(s)} \cup Range(Tail(s))
<1>1. DOMAIN s = 1 .. Len(s) /\ DOMAIN Tail(s) = 1 .. Len(s) - 1 /\ Len(s) \in Nat \ {0}
  OBVIOUS
<1>2. \A i \in 1 .. Len(s) - 1 : Tail(s)[i] = s[i + 1]  OBVIOUS
<1>3. Head(s) = s[1]  OBVIOUS
<1>4. \A i \in 2 .. Len(s) : i - 1 \in 1 .. Len(s) - 1 /\ s[i] = Tail(s)[i - 1]  BY <1>1, <1>2
<1>5. \A i \in 1 .. Len(s) : i = 1 \/ i \in 2 .. Len(s)  OBVIOUS
<1>6. \A i \in 1 .. Len(s) - 1 : i + 1 \in 1 .. Len(s)  BY <1>1
<1>7. Range(s) \subseteq {Head(s)} \cup Range(Tail(s))  BY <1>1, <1>3, <1>4, <1>5 DEF Range
<1>8. 1 \in 1 .. Len(s)  BY <1>1
<1>9. {Head(s)} \cup Range(Tail(s)) \subseteq Range(s)  BY <1>1, <1>2, <1>3, <1>6, <1>8 DEF Range
<1>10. Tail(s) \in Seq(S) /\ Head(s) \in S  OBVIOUS
<1> QED  BY <1>7, <1>9, <1>10

LEMMA RisingHead ==
    ASSUME NEW s \in Seq(Nat), s # << >>, Rising(s)
    PROVE  Rising(Tail(s)) /\ \A i \in DOMAIN Tail(s) : Head(s) < Tail(s)[i]
<1>1. DOMAIN s = 1 .. Len(s) /\ DOMAIN Tail(s) = 1 .. Len(s) - 1 /\ Len(s) \in Nat \ {0}
  OBVIOUS
<1>2. \A i \in 1 .. Len(s) - 1 : Tail(s)[i] = s[i + 1] /\ i + 1 \in DOMAIN s  BY <1>1
<1>3. Head(s) = s[1] /\ 1 \in DOMAIN s  BY <1>1
<1>4. \A i \in DOMAIN Tail(s) : Head(s) < Tail(s)[i]
  <2> SUFFICES ASSUME NEW i \in 1 .. Len(s) - 1 PROVE s[1] < s[i + 1]  BY <1>1, <1>2, <1>3
  <2>1. i + 1 \in DOMAIN s /\ 1 < i + 1  BY <1>1
  <2> QED  BY <1>3, <2>1 DEF Rising
<1>5. Rising(Tail(s))
  <2> SUFFICES ASSUME NEW i \in 1 .. Len(s) - 1, NEW j \in 1 .. Len(s) - 1, i < j
               PROVE  s[i + 1] < s[j + 1]
    BY <1>1, <1>2 DEF Rising
  <2>1. i + 1 \in DOMAIN s /\ j + 1 \in DOMAIN s /\ i + 1 < j + 1  BY <1>1
  <2> QED  BY <2>1 DEF Rising
<1> QED  BY <1>4, <1>5

LEMMA RisingLast ==
    ASSUME NEW s \in Seq(Nat), NEW n \in Nat, Rising(s), \A i \in DOMAIN s : s[i] < n
    PROVE  Rising(Append(s, n))
<1>1. DOMAIN s = 1 .. Len(s) /\ DOMAIN Append(s, n) = 1 .. Len(s) + 1 /\ Len(s) \in Nat
  OBVIOUS
<1>2. \A i \in 1 .. Len(s) : Append(s, n)[i] = s[i]  OBVIOUS
<1>3. Append(s, n)[Len(s) + 1] = n  OBVIOUS
<1> QED  BY <1>1, <1>2, <1>3 DEF Rising

(* An event more. *)
LEMMA SendCarries ==
    ASSUME NEW box \in Boxes, NEW n \in Nat, Carries(box, n)
    PROVE  LET grown == Send(box, n + 1) IN
           /\ grown \in Boxes /\ Carries(grown, n + 1)
           /\ grown.pc = box.pc /\ grown.cards = box.cards /\ grown.post = box.post
           /\ Numbers(box) \subseteq Numbers(grown)
           /\ box.pc = "live" => n + 1 \in Numbers(grown)
<1> DEFINE grown == Send(box, n + 1)
<1>0. /\ box.queue \in Seq(Nat) /\ box.merged \in Seq(Nat) /\ box.since \in Nat
      /\ box.ended \in Nat /\ box.lost \subseteq Nat
  BY DEF Boxes
<1>1. CASE box.pc # "live"
  BY <1>0, <1>1 DEF Send, Carries
<1>2. CASE box.pc = "live" /\ Len(box.queue) < Queue
  <2>1. grown = [box EXCEPT !.queue = Append(box.queue, n + 1)]  BY <1>2 DEF Send
  <2>2. Append(box.queue, n + 1) \in Seq(Nat)
        /\ Range(Append(box.queue, n + 1)) = Range(box.queue) \cup {n + 1}
    BY <1>0, LastRange
  <2>3. grown \in Boxes  BY <2>1, <2>2 DEF Boxes
  <2>4. /\ grown.queue = Append(box.queue, n + 1) /\ grown.merged = box.merged
        /\ grown.lost = box.lost /\ grown.told = box.told /\ grown.got = box.got
        /\ grown.since = box.since /\ grown.ended = box.ended /\ grown.pc = box.pc
        /\ grown.cards = box.cards /\ grown.post = box.post
    BY <2>1 DEF Boxes
  <2>5. Numbers(grown) = Numbers(box) \cup {n + 1}  BY <2>2, <2>4 DEF Numbers
  <2>6. (\A i \in DOMAIN box.queue : box.queue[i] \in 1 .. n)
        /\ (\A i \in DOMAIN box.merged : box.merged[i] \in 1 .. n)
    BY <1>0 DEF Carries, Numbers, Range
  <2>7. Rising(grown.queue)
    <3>1. \A i \in DOMAIN box.queue : box.queue[i] < n + 1  BY <2>6
    <3>2. Rising(box.queue) /\ n + 1 \in Nat  BY DEF Carries
    <3> QED  BY <1>0, <2>4, <3>1, <3>2, RisingLast
  <2>8. \A i \in DOMAIN grown.merged, j \in DOMAIN grown.queue : grown.merged[i] < grown.queue[j]
    <3> SUFFICES ASSUME NEW i \in DOMAIN box.merged, NEW j \in DOMAIN Append(box.queue, n + 1)
                 PROVE  box.merged[i] < Append(box.queue, n + 1)[j]
      BY <2>4
    <3>1. DOMAIN box.queue = 1 .. Len(box.queue) /\ Len(box.queue) \in Nat
          /\ DOMAIN Append(box.queue, n + 1) = 1 .. Len(box.queue) + 1
      BY <1>0
    <3>2. CASE j = Len(box.queue) + 1
      <4>1. Append(box.queue, n + 1)[j] = n + 1  BY <1>0, <3>2
      <4> QED  BY <4>1, <2>6
    <3>3. CASE j \in DOMAIN box.queue
      <4>1. Append(box.queue, n + 1)[j] = box.queue[j]  BY <1>0, <3>1, <3>3
      <4> QED  BY <4>1, <3>3 DEF Carries
    <3> QED  BY <3>1, <3>2, <3>3
  <2>9. Carries(grown, n + 1)
    <3>1. grown.since <= n + 1 /\ grown.ended <= n + 1  BY <1>0, <2>4 DEF Carries
    <3>2. Numbers(grown) \subseteq 1 .. n + 1  BY <2>5 DEF Carries
    <3>3. grown.since + 1 .. n + 1 \subseteq grown.got \cup Numbers(grown)
      BY <1>0, <1>2, <2>4, <2>5 DEF Carries
    <3>4. grown.since + 1 .. grown.ended \subseteq grown.got \cup grown.told
      BY <2>4 DEF Carries
    <3>5. Rising(grown.merged)  BY <2>4 DEF Carries
    <3> QED  BY <2>7, <2>8, <3>1, <3>2, <3>3, <3>4, <3>5 DEF Carries
  <2> QED  BY <2>3, <2>4, <2>5, <2>9
<1>3. CASE box.pc = "live" /\ ~ (Len(box.queue) < Queue)
  <2>1. grown = [box EXCEPT !.lost = box.lost \cup {n + 1}]  BY <1>3 DEF Send, Lost
  <2>2. grown \in Boxes
    <3>1. box.lost \cup {n + 1} \in SUBSET Nat  BY <1>0
    <3> QED  BY <2>1, <3>1 DEF Boxes
  <2>3. /\ grown.queue = box.queue /\ grown.merged = box.merged
        /\ grown.lost = box.lost \cup {n + 1} /\ grown.told = box.told /\ grown.got = box.got
        /\ grown.since = box.since /\ grown.ended = box.ended /\ grown.pc = box.pc
        /\ grown.cards = box.cards /\ grown.post = box.post
    BY <2>1 DEF Boxes
  <2>4. Numbers(grown) = Numbers(box) \cup {n + 1}  BY <2>3 DEF Numbers
  <2>5. grown.since <= n + 1 /\ grown.ended <= n + 1  BY <1>0, <2>3 DEF Carries
  <2>6. Numbers(grown) \subseteq 1 .. n + 1  BY <2>4 DEF Carries
  <2>7. grown.since + 1 .. n + 1 \subseteq grown.got \cup Numbers(grown)
    BY <1>0, <1>3, <2>3, <2>4 DEF Carries
  <2>8. Carries(grown, n + 1)  BY <2>3, <2>5, <2>6, <2>7 DEF Carries
  <2> QED  BY <2>2, <2>3, <2>4, <2>8
<1> QED  BY <1>1, <1>2, <1>3

(* The oldest event of the subscription goes on to the connection. *)
LEMMA FanCarries ==
    ASSUME NEW box \in Boxes, NEW n \in Nat, Carries(box, n), box.queue # << >>
    PROVE  LET rest == [box EXCEPT !.queue = Tail(@)]
               fan == IF Len(box.merged) < Merged
                      THEN [rest EXCEPT !.merged = Append(@, Head(box.queue))]
                      ELSE Lost(rest, Head(box.queue))
           IN /\ fan \in Boxes /\ Carries(fan, n)
              /\ fan.pc = box.pc /\ fan.cards = box.cards /\ fan.post = box.post
              /\ Numbers(fan) = Numbers(box)
<1> DEFINE h == Head(box.queue)
           rest == [box EXCEPT !.queue = Tail(@)]
           fan == IF Len(box.merged) < Merged THEN [rest EXCEPT !.merged = Append(@, h)]
                  ELSE Lost(rest, h)
<1>0. /\ box.queue \in Seq(Nat) /\ box.merged \in Seq(Nat) /\ box.since \in Nat
      /\ box.ended \in Nat /\ box.lost \subseteq Nat /\ box.pc \in {"off", "joins", "live"}
  BY DEF Boxes
<1>1. /\ Tail(box.queue) \in Seq(Nat) /\ h \in Nat
      /\ Range(box.queue) = {h} \cup Range(Tail(box.queue))
  BY <1>0, HeadRange
<1>2. Rising(Tail(box.queue)) /\ \A i \in DOMAIN Tail(box.queue) : h < Tail(box.queue)[i]
  BY <1>0, RisingHead DEF Carries
<1>3. /\ DOMAIN box.queue = 1 .. Len(box.queue) /\ Len(box.queue) \in Nat \ {0}
      /\ DOMAIN Tail(box.queue) = 1 .. Len(box.queue) - 1 /\ h = box.queue[1]
      /\ \A i \in 1 .. Len(box.queue) - 1 : Tail(box.queue)[i] = box.queue[i + 1]
  BY <1>0
<1>4. \A i \in DOMAIN box.merged, j \in DOMAIN Tail(box.queue) :
          box.merged[i] < Tail(box.queue)[j]
  <2> SUFFICES ASSUME NEW i \in DOMAIN box.merged, NEW j \in 1 .. Len(box.queue) - 1
               PROVE  box.merged[i] < box.queue[j + 1]
    BY <1>3
  <2>1. j + 1 \in DOMAIN box.queue  BY <1>3
  <2> QED  BY <2>1 DEF Carries
<1>5. \A i \in DOMAIN box.merged : box.merged[i] < h
  <2>1. 1 \in DOMAIN box.queue  BY <1>3
  <2> QED  BY <1>3, <2>1 DEF Carries
<1>6. CASE Len(box.merged) < Merged
  <2> DEFINE new == Append(box.merged, h)
  <2>1. fan = [box EXCEPT !.queue = Tail(box.queue), !.merged = new]  BY <1>6 DEF Boxes
  <2>2. new \in Seq(Nat) /\ Range(new) = Range(box.merged) \cup {h}  BY <1>0, <1>1, LastRange
  <2>3. fan \in Boxes  BY <1>1, <2>1, <2>2 DEF Boxes
  <2>4. /\ fan.queue = Tail(box.queue) /\ fan.merged = new
        /\ fan.lost = box.lost /\ fan.told = box.told /\ fan.got = box.got
        /\ fan.since = box.since /\ fan.ended = box.ended /\ fan.pc = box.pc
        /\ fan.cards = box.cards /\ fan.post = box.post
    BY <2>1 DEF Boxes
  <2>5. Numbers(fan) = Numbers(box)  BY <1>1, <2>2, <2>4 DEF Numbers
  <2>6. Rising(new)  BY <1>0, <1>1, <1>5, RisingLast DEF Carries
  <2>7. \A i \in DOMAIN new, j \in DOMAIN Tail(box.queue) : new[i] < Tail(box.queue)[j]
    <3> SUFFICES ASSUME NEW i \in DOMAIN new, NEW j \in DOMAIN Tail(box.queue)
                 PROVE  new[i] < Tail(box.queue)[j]
      OBVIOUS
    <3>1. /\ DOMAIN new = 1 .. Len(box.merged) + 1 /\ Len(box.merged) \in Nat
          /\ DOMAIN box.merged = 1 .. Len(box.merged)
      BY <1>0
    <3>2. CASE i = Len(box.merged) + 1
      <4>1. new[i] = h  BY <1>0, <3>2
      <4> QED  BY <4>1, <1>2
    <3>3. CASE i \in DOMAIN box.merged
      <4>1. new[i] = box.merged[i]  BY <1>0, <3>1, <3>3
      <4> QED  BY <4>1, <3>3, <1>4
    <3> QED  BY <3>1, <3>2, <3>3
  <2>8. Carries(fan, n)
    <3>1. Rising(fan.queue) /\ Rising(fan.merged)  BY <1>2, <2>4, <2>6
    <3>2. \A i \in DOMAIN fan.merged, j \in DOMAIN fan.queue : fan.merged[i] < fan.queue[j]
      BY <2>4, <2>7
    <3> QED  BY <2>4, <2>5, <3>1, <3>2 DEF Carries
  <2> QED  BY <2>3, <2>4, <2>5, <2>8
<1>7. CASE ~ (Len(box.merged) < Merged)
  <2>1. fan = [box EXCEPT !.queue = Tail(box.queue), !.lost = box.lost \cup {h}]
    BY <1>7 DEF Lost, Boxes
  <2>2. box.lost \cup {h} \in SUBSET Nat  BY <1>0, <1>1
  <2>3. fan \in Boxes  BY <1>1, <2>1, <2>2 DEF Boxes
  <2>4. /\ fan.queue = Tail(box.queue) /\ fan.merged = box.merged
        /\ fan.lost = box.lost \cup {h} /\ fan.told = box.told /\ fan.got = box.got
        /\ fan.since = box.since /\ fan.ended = box.ended /\ fan.pc = box.pc
        /\ fan.cards = box.cards /\ fan.post = box.post
    BY <2>1 DEF Boxes
  <2>5. Numbers(fan) = Numbers(box)  BY <1>1, <2>4 DEF Numbers
  <2>6. Carries(fan, n)  BY <1>2, <1>4, <2>4, <2>5 DEF Carries
  <2> QED  BY <2>3, <2>4, <2>5, <2>6
<1> QED  BY <1>6, <1>7

(* The page sees the oldest event of its connection. *)
LEMMA ShowCarries ==
    ASSUME WebTypes, NEW box \in Boxes, Carries(box, Len(events)), box.pc = "live",
           box.merged # << >>
    PROVE  LET shown == Shown([box EXCEPT !.merged = Tail(@)], Head(box.merged)) IN
           /\ shown \in Boxes /\ Carries(shown, Len(events))
           /\ shown.pc = box.pc /\ shown.post = box.post /\ box.cards \subseteq shown.cards
           /\ \A n \in Numbers(box) :
                 n \in Numbers(shown) \/ events[n] = Done \/ events[n] \in shown.cards
<1> DEFINE h == Head(box.merged)
           rest == [box EXCEPT !.merged = Tail(@)]
           shown == Shown(rest, h)
<1>0. /\ box.queue \in Seq(Nat) /\ box.merged \in Seq(Nat) /\ box.since \in Nat
      /\ box.ended \in Nat /\ box.lost \subseteq Nat /\ box.got \subseteq Nat
      /\ box.told \subseteq Nat /\ box.cards \subseteq Confirms
      /\ Len(events) \in Nat /\ box.pc \in {"off", "joins", "live"}
  BY DEF Boxes, WebTypes
<1>1. /\ Tail(box.merged) \in Seq(Nat) /\ h \in Nat
      /\ Range(box.merged) = {h} \cup Range(Tail(box.merged))
  BY <1>0, HeadRange
<1>2. Rising(Tail(box.merged)) /\ \A i \in DOMAIN Tail(box.merged) : h < Tail(box.merged)[i]
  BY <1>0, RisingHead DEF Carries
<1>3. /\ DOMAIN box.merged = 1 .. Len(box.merged) /\ Len(box.merged) \in Nat \ {0}
      /\ DOMAIN Tail(box.merged) = 1 .. Len(box.merged) - 1 /\ h = box.merged[1]
      /\ \A i \in 1 .. Len(box.merged) - 1 : Tail(box.merged)[i] = box.merged[i + 1]
  BY <1>0
<1>4. \A i \in DOMAIN Tail(box.merged), j \in DOMAIN box.queue :
          Tail(box.merged)[i] < box.queue[j]
  <2> SUFFICES ASSUME NEW i \in 1 .. Len(box.merged) - 1, NEW j \in DOMAIN box.queue
               PROVE  box.merged[i + 1] < box.queue[j]
    BY <1>3
  <2>1. i + 1 \in DOMAIN box.merged  BY <1>3
  <2> QED  BY <2>1 DEF Carries
<1>5. \A i \in DOMAIN box.queue : h < box.queue[i]
  <2>1. 1 \in DOMAIN box.merged  BY <1>3
  <2> QED  BY <1>3, <2>1 DEF Carries
<1>6. h \in 1 .. Len(events)
  BY <1>1 DEF Carries, Numbers
<1>7. \A k \in Range(box.queue) \cup Range(Tail(box.merged)) : h < k
  BY <1>2, <1>5 DEF Range
<1>8. CASE events[h] = Done
  <2>1. shown = [box EXCEPT !.merged = Tail(box.merged), !.told = box.told \cup box.lost,
                           !.lost = {}, !.ended = h, !.got = box.got \cup {h}]
    BY <1>8 DEF Shown, Boxes
  <2>2. /\ box.told \cup box.lost \in SUBSET Nat /\ {} \in SUBSET Nat
        /\ box.got \cup {h} \in SUBSET Nat
    BY <1>0, <1>1
  <2>3. shown \in Boxes  BY <1>1, <2>1, <2>2 DEF Boxes
  <2>4. /\ shown.queue = box.queue /\ shown.merged = Tail(box.merged)
        /\ shown.lost = {} /\ shown.told = box.told \cup box.lost
        /\ shown.got = box.got \cup {h} /\ shown.ended = h
        /\ shown.since = box.since /\ shown.pc = box.pc
        /\ shown.cards = box.cards /\ shown.post = box.post
    BY <2>1 DEF Boxes
  <2>5. Numbers(box) = Numbers(shown) \cup {h}  BY <1>1, <2>4 DEF Numbers
  <2>6. shown.since + 1 .. shown.ended \subseteq shown.got \cup shown.told
    <3> SUFFICES ASSUME NEW k \in box.since + 1 .. h
                 PROVE  k \in box.got \cup {h} \cup box.told \cup box.lost
      BY <2>4
    <3>0. k \in Nat /\ k <= h  BY <1>0, <1>1
    <3>1. k \in box.got \cup Numbers(box)  BY <1>0, <1>6 DEF Carries
    <3>2. CASE k \in Range(box.queue) \cup Range(Tail(box.merged))
      <4>1. h < k  BY <1>7, <3>2
      <4> QED  BY <3>0, <4>1, <1>1
    <3> QED  BY <1>1, <3>1, <3>2 DEF Numbers
  <2>7. shown.since + 1 .. Len(events) \subseteq shown.got \cup Numbers(shown)
    BY <2>4, <2>5 DEF Carries
  <2>8. Carries(shown, Len(events))
    <3>1. Rising(shown.queue) /\ Rising(shown.merged)  BY <1>2, <2>4 DEF Carries
    <3>2. \A i \in DOMAIN shown.merged, j \in DOMAIN shown.queue :
              shown.merged[i] < shown.queue[j]
      BY <1>4, <2>4
    <3>3. shown.ended <= Len(events) /\ shown.since <= Len(events)
      BY <1>0, <1>6, <2>4 DEF Carries
    <3>4. Numbers(shown) \subseteq 1 .. Len(events)  BY <2>5 DEF Carries
    <3> QED  BY <2>6, <2>7, <3>1, <3>2, <3>3, <3>4 DEF Carries
  <2> QED  BY <1>8, <2>3, <2>4, <2>5, <2>8
<1>9. CASE events[h] # Done
  <2>1. events[h] \in Confirms  BY <1>6, <1>9 DEF WebTypes
  <2>2. shown = [box EXCEPT !.merged = Tail(box.merged), !.cards = box.cards \cup {events[h]},
                           !.got = box.got \cup {h}]
    BY <1>9 DEF Shown, Boxes
  <2>3. /\ box.cards \cup {events[h]} \in SUBSET Confirms
        /\ box.got \cup {h} \in SUBSET Nat
    BY <1>0, <1>1, <2>1
  <2>4. shown \in Boxes  BY <1>1, <2>2, <2>3 DEF Boxes
  <2>5. /\ shown.queue = box.queue /\ shown.merged = Tail(box.merged)
        /\ shown.lost = box.lost /\ shown.told = box.told
        /\ shown.got = box.got \cup {h} /\ shown.ended = box.ended
        /\ shown.since = box.since /\ shown.pc = box.pc
        /\ shown.cards = box.cards \cup {events[h]} /\ shown.post = box.post
    BY <2>2 DEF Boxes
  <2>6. Numbers(box) = Numbers(shown) \cup {h}  BY <1>1, <2>5 DEF Numbers
  <2>7. shown.since + 1 .. shown.ended \subseteq shown.got \cup shown.told
    BY <2>5 DEF Carries
  <2>8. shown.since + 1 .. Len(events) \subseteq shown.got \cup Numbers(shown)
    BY <2>5, <2>6 DEF Carries
  <2>9. Carries(shown, Len(events))
    <3>1. Rising(shown.queue) /\ Rising(shown.merged)  BY <1>2, <2>5 DEF Carries
    <3>2. \A i \in DOMAIN shown.merged, j \in DOMAIN shown.queue :
              shown.merged[i] < shown.queue[j]
      BY <1>4, <2>5
    <3>3. shown.ended <= Len(events) /\ shown.since <= Len(events)
      BY <2>5 DEF Carries
    <3>4. Numbers(shown) \subseteq 1 .. Len(events)  BY <2>6 DEF Carries
    <3> QED  BY <2>7, <2>8, <3>1, <3>2, <3>3, <3>4 DEF Carries
  <2> QED  BY <2>4, <2>5, <2>6, <2>9
<1> QED  BY <1>8, <1>9

LEMMA OffIs ==
    /\ Off \in Boxes
    /\ Off.pc = "off" /\ Off.queue = << >> /\ Off.merged = << >> /\ Off.lost = {}
    /\ Off.told = {} /\ Off.since = 0 /\ Off.ended = 0
<1>1. PICK empty : empty = << >>  OBVIOUS
<1>2. PICK none : none = {}  OBVIOUS
<1>3. Off = [pc |-> "off", since |-> 0, queue |-> empty, merged |-> empty, got |-> none,
             lost |-> none, told |-> none, ended |-> 0, cards |-> none, post |-> empty,
             visits |-> 0]
  BY <1>1, <1>2 DEF Off
<1>4. empty \in Seq(Nat) /\ empty \in Posts /\ none \in SUBSET Nat /\ none \in SUBSET Confirms
  BY <1>1, <1>2 DEF Posts
<1>5. Off \in Boxes  BY <1>3, <1>4 DEF Boxes
<1> QED  BY <1>1, <1>2, <1>3, <1>5

LEMMA NothingCarried ==
    ASSUME NEW box \in Boxes, NEW n \in Nat, box.queue = << >>, box.merged = << >>,
           box.lost = {}, box.told = {}, box.since = 0, box.ended = 0, box.pc # "live"
    PROVE  Carries(box, n)
<1>1. DOMAIN << >> = {} /\ Range(<< >>) = {}  BY DEF Range
<1> QED  BY <1>1 DEF Carries, Rising, Numbers

LEMMA WebStart ==
    ASSUME WebConstants, NEW needed, NEW opened, NEW visits \in Int,
           WebInit(needed, opened, visits)
    PROVE  WebInv
<1>1. << >> \in Seq(Nat) /\ << >> \in Seq(Confirms \cup {Done})  OBVIOUS
<1>2. \A v \in Int : /\ [Off EXCEPT !.visits = v] \in Boxes
                     /\ [Off EXCEPT !.visits = v].pc = "off"
                     /\ [Off EXCEPT !.visits = v].queue = << >>
                     /\ [Off EXCEPT !.visits = v].merged = << >>
                     /\ [Off EXCEPT !.visits = v].lost = {} /\ [Off EXCEPT !.visits = v].told = {}
                     /\ [Off EXCEPT !.visits = v].since = 0
                     /\ [Off EXCEPT !.visits = v].ended = 0
  BY OffIs DEF Boxes
<1>3. \A p \in Pages : \E v \in Int : page[p] = [Off EXCEPT !.visits = v]
  BY DEF WebInit, WebConstants
<1>4. WebTypes
  <2>1. \A p \in Pages : page[p] \in Boxes  BY <1>2, <1>3
  <2>2. page \in [Pages -> Boxes]  BY <2>1 DEF WebInit
  <2> QED  BY <1>1, <2>2 DEF WebInit, WebTypes
<1>5. EventInv
  <2> SUFFICES ASSUME NEW p \in Pages PROVE Carries(page[p], Len(events))
    BY DEF EventInv
  <2>1. /\ page[p] \in Boxes /\ page[p].pc = "off"
        /\ page[p].queue = << >> /\ page[p].merged = << >>
        /\ page[p].since = 0 /\ page[p].ended = 0 /\ page[p].lost = {} /\ page[p].told = {}
    BY <1>2, <1>3
  <2>2. Len(events) \in Nat /\ page[p].pc # "live"  BY <1>4, <2>1 DEF WebTypes
  <2> QED  BY <2>1, <2>2, NothingCarried
<1>6. \A c \in Confirms : entry[c] # "claimed"  BY DEF WebInit
<1> QED  BY <1>4, <1>5, <1>6 DEF WebInv, TrackInv, ShownInv

-----------------------------------------------------------------------------
(* The registry and the loop do not touch the pages. *)

LEMMA EmitterStep ==
    ASSUME WebInv, UNCHANGED << page, events, unseen >>,
           \/ \E c \in Confirms : Ask(c) \/ Expire(c) \/ AskReturns(c) \/ Pick(c)
           \/ Rest \/ EmitExpired \/ TrackConfirm
    PROVE  WebInv'
<1>1. WebTypes'
  <2> USE DEF WebInv, WebTypes
  <2>1. ASSUME NEW c \in Confirms, Ask(c) PROVE WebTypes'  BY <2>1 DEF Ask
  <2>2. ASSUME NEW c \in Confirms, Expire(c) PROVE WebTypes'  BY <2>2 DEF Expire
  <2>3. ASSUME NEW c \in Confirms, AskReturns(c) PROVE WebTypes'  BY <2>3 DEF AskReturns
  <2>4. ASSUME NEW c \in Confirms, Pick(c) PROVE WebTypes'  BY <2>4 DEF Pick
  <2>5. CASE Rest  BY <2>5 DEF Rest
  <2>6. CASE EmitExpired  BY <2>6 DEF EmitExpired, Resolved
  <2>7. CASE TrackConfirm
    <3>1. PICK c \in Confirms : emitter = [pc |-> "picked", id |-> << c >>]
      BY <2>7 DEF TrackConfirm, Resting
    <3>2. emitter' = [pc |-> "tracked", id |-> << c >>] /\ outstanding' \subseteq Confirms
      BY <2>7, <3>1 DEF TrackConfirm
    <3> QED  BY <2>7, <3>2 DEF TrackConfirm
  <2> QED  BY <2>1, <2>2, <2>3, <2>4, <2>5, <2>6, <2>7
<1>2. EventInv'  BY DEF WebInv, EventInv
<1>3. /\ \A c \in Confirms : Answering(c)' <=> Answering(c)
      /\ \A c \in Confirms : entry'[c] = "claimed" =>
            \/ entry[c] = "claimed"
            \/ emitter' = [pc |-> "picked", id |-> << c >>]
  <2> USE DEF WebInv, WebTypes
  <2>1. \A c \in Confirms : Answering(c)' <=> Answering(c)  BY DEF Answering
  <2>2. ASSUME NEW d \in Confirms, Ask(d) \/ Expire(d) \/ AskReturns(d) \/ Pick(d),
               NEW c \in Confirms, entry'[c] = "claimed"
        PROVE  entry[c] = "claimed" \/ emitter' = [pc |-> "picked", id |-> << c >>]
    BY <2>2 DEF Ask, Expire, AskReturns, Pick
  <2>3. ASSUME Rest \/ EmitExpired \/ TrackConfirm, NEW c \in Confirms, entry'[c] = "claimed"
        PROVE  entry[c] = "claimed"
    BY <2>3 DEF Rest, EmitExpired, TrackConfirm, Resolved
  <2> QED  BY <2>1, <2>2, <2>3
<1>4. \A c \in Confirms : entry'[c] = "claimed" /\ emitter' # [pc |-> "picked", id |-> << c >>]
          => \/ emitter # [pc |-> "picked", id |-> << c >>] /\ outstanding \subseteq outstanding'
             \/ c \in outstanding'
  <2> SUFFICES ASSUME NEW c \in Confirms, entry'[c] = "claimed",
                      emitter' # [pc |-> "picked", id |-> << c >>]
               PROVE  \/ emitter # [pc |-> "picked", id |-> << c >>]
                         /\ outstanding \subseteq outstanding'
                      \/ c \in outstanding'
    OBVIOUS
  <2> USE DEF WebInv, WebTypes
  <2>1. ASSUME NEW d \in Confirms, Ask(d) \/ Expire(d) \/ AskReturns(d)
        PROVE  emitter' = emitter /\ outstanding' = outstanding
    BY <2>1 DEF Ask, Expire, AskReturns
  <2>2. ASSUME NEW d \in Confirms, Pick(d)
        PROVE  emitter = Resting /\ outstanding' = outstanding
    BY <2>2 DEF Pick
  <2>3. CASE Rest  BY <2>3 DEF Rest
  <2>4. CASE EmitExpired
    <3>1. emitter # [pc |-> "picked", id |-> << c >>]
      <4> SUFFICES ASSUME emitter = [pc |-> "picked", id |-> << c >>] PROVE FALSE  OBVIOUS
      <4>1. entry'[c] # "claimed"  BY <2>4 DEF EmitExpired, Resolved
      <4> QED  BY <4>1
    <3> QED  BY <2>4, <3>1 DEF EmitExpired
  <2>5. CASE TrackConfirm
    <3>1. PICK d \in Confirms : emitter = [pc |-> "picked", id |-> << d >>]
      BY <2>5 DEF TrackConfirm, Resting
    <3>2. outstanding' = outstanding \cup {d}  BY <2>5, <3>1 DEF TrackConfirm
    <3> QED  BY <3>1, <3>2
  <2>6. Resting # [pc |-> "picked", id |-> << c >>]  BY DEF Resting
  <2> QED  BY <2>1, <2>2, <2>3, <2>4, <2>5, <2>6
<1>5. TrackInv'
  <2>1. \A c \in Confirms : entry[c] = "claimed" /\ emitter # [pc |-> "picked", id |-> << c >>]
            => c \in outstanding \/ Answering(c)
    BY DEF WebInv, TrackInv
  <2> QED  BY <2>1, <1>3, <1>4 DEF TrackInv
<1>6. \A c \in Confirms : entry'[c] = "claimed" /\ emitter'.id # << c >> =>
          entry[c] = "claimed" /\ emitter.id # << c >>
  <2> SUFFICES ASSUME NEW c \in Confirms, entry'[c] = "claimed", emitter'.id # << c >>
               PROVE  entry[c] = "claimed" /\ emitter.id # << c >>
    OBVIOUS
  <2>1. entry[c] = "claimed"  BY <1>3
  <2> USE DEF WebInv, WebTypes
  <2>2. ASSUME NEW d \in Confirms, Ask(d) \/ Expire(d) \/ AskReturns(d)
        PROVE  emitter' = emitter
    BY <2>2 DEF Ask, Expire, AskReturns
  <2>3. ASSUME NEW d \in Confirms, Pick(d) PROVE emitter.id # << c >>
    BY <2>3 DEF Pick, Resting
  <2>4. CASE Rest  BY <2>1, <2>4 DEF Rest
  <2>5. CASE EmitExpired
    <3>1. entry'[emitter.id[1]] # "claimed"  BY <2>5 DEF EmitExpired, Resolved, Resting
    <3> QED  BY <2>1, <3>1
  <2>6. CASE TrackConfirm
    <3>1. emitter'.id = emitter.id  BY <2>6 DEF TrackConfirm, Resting
    <3> QED  BY <2>1, <3>1
  <2> QED  BY <2>1, <2>2, <2>3, <2>4, <2>5, <2>6
<1>7. ShownInv'
  <2>1. \A p \in Pages : Numbers(page[p])' = Numbers(page[p])  OBVIOUS
  <2> QED  BY <1>3, <1>6 DEF WebInv, ShownInv
<1> QED  BY <1>1, <1>2, <1>5, <1>7 DEF WebInv

-----------------------------------------------------------------------------
(* An event is published. *)

LEMMA PubStep ==
    ASSUME WebInv, NEW e \in Confirms \cup {Done}, Pub(e)
    PROVE  /\ events' \in Seq(Confirms \cup {Done}) /\ page' \in [Pages -> Boxes] /\ EventInv'
           /\ Len(events') = Len(events) + 1 /\ events'[Len(events) + 1] = e
           /\ \A n \in 1 .. Len(events) : events'[n] = events[n]
           /\ \A p \in Pages :
                 /\ page'[p].pc = page[p].pc /\ page'[p].cards = page[p].cards
                 /\ page'[p].post = page[p].post
                 /\ Numbers(page[p]) \subseteq Numbers(page'[p])
                 /\ page[p].pc = "live" => Len(events) + 1 \in Numbers(page'[p])
<1>1. events \in Seq(Confirms \cup {Done}) /\ Len(events) \in Nat /\ page \in [Pages -> Boxes]
  BY DEF WebInv, WebTypes
<1>2. events' = Append(events, e)  BY DEF Pub
<1>3. /\ events' \in Seq(Confirms \cup {Done}) /\ Len(events') = Len(events) + 1
      /\ events'[Len(events) + 1] = e /\ \A n \in 1 .. Len(events) : events'[n] = events[n]
  BY <1>1, <1>2
<1>4. page' = [p \in Pages |-> Send(page[p], Len(events) + 1)]  BY <1>3 DEF Pub
<1>5. \A p \in Pages : page[p] \in Boxes /\ Carries(page[p], Len(events))
  BY <1>1 DEF WebInv, EventInv
<1>6. \A p \in Pages :
          /\ page'[p] \in Boxes /\ Carries(page'[p], Len(events) + 1)
          /\ page'[p].pc = page[p].pc /\ page'[p].cards = page[p].cards
          /\ page'[p].post = page[p].post
          /\ Numbers(page[p]) \subseteq Numbers(page'[p])
          /\ page[p].pc = "live" => Len(events) + 1 \in Numbers(page'[p])
  <2> SUFFICES ASSUME NEW p \in Pages
               PROVE  /\ page'[p] \in Boxes /\ Carries(page'[p], Len(events) + 1)
                      /\ page'[p].pc = page[p].pc /\ page'[p].cards = page[p].cards
                      /\ page'[p].post = page[p].post
                      /\ Numbers(page[p]) \subseteq Numbers(page'[p])
                      /\ page[p].pc = "live" => Len(events) + 1 \in Numbers(page'[p])
    OBVIOUS
  <2>1. page'[p] = Send(page[p], Len(events) + 1)  BY <1>4
  <2> QED  BY <1>1, <1>5, <2>1, SendCarries
<1>7. page' \in [Pages -> Boxes]  BY <1>4, <1>6
<1>8. EventInv'  BY <1>3, <1>6 DEF EventInv
<1> QED  BY <1>3, <1>6, <1>7, <1>8

LEMMA EmitStep == ASSUME WebInv, Emit PROVE WebInv'
<1>1. PICK d \in Confirms : emitter = [pc |-> "tracked", id |-> << d >>]
  BY DEF Emit, WebInv, WebTypes, Resting
<1>2. /\ Pub(d) /\ emitter' = Resting /\ UNCHANGED << entry, expired, woken, outstanding >>
      /\ unseen' = [p \in Pages |-> unseen[p] \cup {c \in {d} : page[p].pc = "joins"}]
  BY <1>1 DEF Emit
<1>3. /\ events' \in Seq(Confirms \cup {Done}) /\ page' \in [Pages -> Boxes] /\ EventInv'
      /\ events'[Len(events) + 1] = d
      /\ \A n \in 1 .. Len(events) : events'[n] = events[n]
      /\ \A p \in Pages :
            /\ page'[p].pc = page[p].pc /\ page'[p].cards = page[p].cards
            /\ page'[p].post = page[p].post
            /\ Numbers(page[p]) \subseteq Numbers(page'[p])
            /\ page[p].pc = "live" => Len(events) + 1 \in Numbers(page'[p])
  BY <1>2, PubStep
<1>4. WebTypes'
  <2>1. unseen' \in [Pages -> SUBSET Confirms]  BY <1>2 DEF WebInv, WebTypes
  <2> QED  BY <1>2, <1>3, <2>1 DEF WebInv, WebTypes
<1>5. \A c \in Confirms : Answering(c)' <=> Answering(c)  BY <1>3 DEF Answering
<1>6. TrackInv'
  <2>1. \A c \in Confirms : emitter # [pc |-> "picked", id |-> << c >>]  BY <1>1
  <2> QED  BY <1>2, <1>5, <2>1 DEF WebInv, TrackInv
<1>7. ShownInv'
  <2> SUFFICES ASSUME NEW c \in Confirms, NEW p \in Pages, entry[c] = "claimed",
                      page[p].pc # "off", ~ Answering(c), c \notin page[p].cards \cup unseen'[p]
               PROVE  page[p].pc = "live" /\ \E n \in Numbers(page'[p]) : events'[n] = c
    BY <1>2, <1>3, <1>5 DEF ShownInv
  <2>1. page[p].pc \in {"joins", "live"} /\ unseen[p] \subseteq unseen'[p]
    BY <1>2 DEF WebInv, WebTypes, Boxes
  <2>2. CASE c = d
    <3>1. page[p].pc = "live"  BY <1>2, <2>1, <2>2
    <3> QED  BY <1>3, <2>2, <3>1
  <2>3. CASE c # d
    <3>1. emitter.id # << c >>  BY <1>1, <2>3
    <3>2. page[p].pc = "live" /\ \E n \in Numbers(page[p]) : events[n] = c
      BY <2>1, <3>1 DEF WebInv, ShownInv
    <3>3. Numbers(page[p]) \subseteq 1 .. Len(events)  BY DEF WebInv, EventInv, Carries
    <3> QED  BY <1>3, <3>2, <3>3
  <2> QED  BY <2>2, <2>3
<1> QED  BY <1>3, <1>4, <1>6, <1>7 DEF WebInv

LEMMA RunEndsStep == ASSUME WebInv, RunEnds PROVE WebInv'
<1>1. Pub(Done) /\ UNCHANGED << entry, expired, woken, emitter, outstanding, unseen >>
  BY DEF RunEnds
<1>2. /\ events' \in Seq(Confirms \cup {Done}) /\ page' \in [Pages -> Boxes] /\ EventInv'
      /\ \A n \in 1 .. Len(events) : events'[n] = events[n]
      /\ \A p \in Pages :
            /\ page'[p].pc = page[p].pc /\ page'[p].cards = page[p].cards
            /\ page'[p].post = page[p].post
            /\ Numbers(page[p]) \subseteq Numbers(page'[p])
  BY <1>1, PubStep
<1>3. WebTypes'  BY <1>1, <1>2 DEF WebInv, WebTypes
<1>4. \A c \in Confirms : Answering(c)' <=> Answering(c)  BY <1>2 DEF Answering
<1>5. TrackInv'  BY <1>1, <1>4 DEF WebInv, TrackInv
<1>6. ShownInv'
  <2>1. \A p \in Pages : Numbers(page[p]) \subseteq 1 .. Len(events)
    BY DEF WebInv, EventInv, Carries
  <2>2. \A p \in Pages : \A n \in Numbers(page[p]) :
            n \in Numbers(page'[p]) /\ events'[n] = events[n]
    BY <1>2, <2>1
  <2> QED  BY <1>1, <1>2, <1>4, <2>2 DEF WebInv, ShownInv
<1> QED  BY <1>2, <1>3, <1>5, <1>6 DEF WebInv

-----------------------------------------------------------------------------
(* One page acts, on its own box. *)

PageChanges(p, box) == page' = [page EXCEPT ![p] = box] /\ box \in Boxes

LEMMA PageKeeps ==
    ASSUME WebInv, NEW p \in Pages, NEW box, PageChanges(p, box),
           UNCHANGED << emitter, events >>, outstanding' \subseteq Confirms,
           unseen' \in [Pages -> SUBSET Confirms], \A q \in Pages \ {p} : unseen'[q] = unseen[q],
           Carries(box, Len(events)),
           entry' \in [Confirms -> {"new", "queued", "claimed", "answered", "gone"}],
           \A c \in Confirms : entry'[c] = "claimed" =>
               /\ entry[c] = "claimed"
               /\ page[p].post = << c, "untracked" >> => box.post = << c, "untracked" >>
               /\ c \in outstanding' \/ box.post = << c, "untracked" >> \/ c \notin outstanding
               /\ \/ Answering(c) \/ box.pc = "off" \/ c \in box.cards \cup unseen'[p]
                  \/ emitter.id = << c >>
                  \/ box.pc = "live" /\ \E n \in Numbers(box) : events[n] = c
    PROVE  WebInv'
<1>1. /\ page' \in [Pages -> Boxes] /\ page'[p] = box
      /\ \A q \in Pages : q # p => page'[q] = page[q]
  BY DEF PageChanges, WebInv, WebTypes
<1>2. WebTypes'  BY <1>1 DEF WebInv, WebTypes
<1>3. EventInv'  BY <1>1 DEF WebInv, EventInv
<1>4. \A c \in Confirms : entry'[c] = "claimed" /\ Answering(c) => Answering(c)'
  BY <1>1 DEF Answering
<1>5. TrackInv'
  <2> SUFFICES ASSUME NEW c \in Confirms, entry'[c] = "claimed",
                      emitter # [pc |-> "picked", id |-> << c >>]
               PROVE  c \in outstanding' \/ Answering(c)'
    BY DEF TrackInv
  <2>1. c \in outstanding \/ Answering(c)  BY DEF WebInv, TrackInv
  <2>2. box.post = << c, "untracked" >> => Answering(c)'  BY <1>1 DEF Answering
  <2> QED  BY <1>4, <2>1, <2>2
<1>6. ShownInv'
  <2> SUFFICES ASSUME NEW c \in Confirms, NEW q \in Pages, entry'[c] = "claimed",
                      emitter.id # << c >>, page'[q].pc # "off", ~ Answering(c)'
               PROVE  \/ c \in page'[q].cards \cup unseen'[q]
                      \/ page'[q].pc = "live" /\ \E n \in Numbers(page'[q]) : events[n] = c
    BY DEF ShownInv
  <2>1. entry[c] = "claimed" /\ ~ Answering(c)  BY <1>4
  <2>2. CASE q = p  BY <1>1, <2>1, <2>2
  <2>3. CASE q # p
    <3>1. page'[q] = page[q] /\ unseen'[q] = unseen[q]  BY <1>1, <2>3
    <3> QED  BY <2>1, <3>1 DEF WebInv, ShownInv
  <2> QED  BY <2>2, <2>3
<1> QED  BY <1>2, <1>3, <1>5, <1>6 DEF WebInv

LEMMA BoxFacts ==
    ASSUME WebInv, NEW p \in Pages
    PROVE  /\ page[p] \in Boxes /\ Carries(page[p], Len(events)) /\ Len(events) \in Nat
           /\ \A c \in Confirms : entry[c] = "claimed" =>
                 \/ Answering(c) \/ page[p].pc = "off" \/ c \in page[p].cards \cup unseen[p]
                 \/ emitter.id = << c >>
                 \/ page[p].pc = "live" /\ \E n \in Numbers(page[p]) : events[n] = c
BY DEF WebInv, WebTypes, EventInv, ShownInv

LEMMA ConnectStep ==
    ASSUME WebConstants, WebInv, NEW p \in Pages, Connect(p)
    PROVE  WebInv'
<1> DEFINE box == [Off EXCEPT !.pc = "joins", !.cards = page[p].cards \cup OutstandingConfirms,
                              !.post = page[p].post, !.visits = page[p].visits + 1]
<1>1. /\ page[p] \in Boxes /\ Len(events) \in Nat /\ OutstandingConfirms \subseteq Confirms
      /\ page[p].cards \subseteq Confirms /\ page[p].post \in Posts /\ page[p].visits \in Int
  BY DEF WebInv, WebTypes, OutstandingConfirms, Boxes
<1>2. page[p].cards \cup OutstandingConfirms \in SUBSET Confirms /\ page[p].visits + 1 \in Int
  BY <1>1
<1>3. /\ box \in Boxes
      /\ box.queue = << >> /\ box.merged = << >> /\ box.lost = {} /\ box.told = {}
      /\ box.since = 0 /\ box.ended = 0 /\ box.pc = "joins"
      /\ box.cards = page[p].cards \cup OutstandingConfirms /\ box.post = page[p].post
  BY <1>1, <1>2, OffIs DEF Boxes
<1>4. PageChanges(p, box)  BY <1>3 DEF Connect, PageChanges
<1>5. Carries(box, Len(events))  BY <1>1, <1>3, NothingCarried
<1>6. ASSUME NEW c \in Confirms, entry[c] = "claimed"
      PROVE  /\ c \in outstanding => c \in OutstandingConfirms
             /\ Answering(c) \/ c \in box.cards \/ emitter.id = << c >>
  <2>1. c \in outstanding => c \in OutstandingConfirms
    BY <1>6 DEF OutstandingConfirms, EntryExists
  <2>2. c \in outstanding \/ Answering(c) \/ emitter.id = << c >>
    <3>1. emitter = [pc |-> "picked", id |-> << c >>] => emitter.id = << c >>  OBVIOUS
    <3> QED  BY <1>6, <3>1 DEF WebInv, TrackInv
  <2> QED  BY <1>3, <2>1, <2>2
<1>7. /\ outstanding' = OutstandingConfirms /\ UNCHANGED << entry, emitter, events >>
      /\ unseen' = [unseen EXCEPT ![p] = {}] /\ unseen \in [Pages -> SUBSET Confirms]
      /\ entry \in [Confirms -> {"new", "queued", "claimed", "answered", "gone"}]
  BY DEF Connect, WebInv, WebTypes
<1>8. unseen' \in [Pages -> SUBSET Confirms] /\ \A q \in Pages \ {p} : unseen'[q] = unseen[q]
  BY <1>7
<1>9. box.post = page[p].post  BY <1>3
<1> HIDE DEF box
<1> QED  BY <1>1, <1>4, <1>5, <1>6, <1>7, <1>8, <1>9, PageKeeps

(* The page's own steps that leave the rest alone. *)
OwnStep(p) == Subscribe(p) \/ Disconnect(p) \/ FanIn(p) \/ Write(p) \/ PasswordRejected(p)
              \/ \E c \in Confirms : PostConfirm(p, c)

LEMMA OwnKeeps ==
    ASSUME WebInv, NEW p \in Pages, NEW box, PageChanges(p, box), Carries(box, Len(events)),
           UNCHANGED << entry, emitter, outstanding, events, unseen >>,
           \A c \in Confirms : page[p].post = << c, "untracked" >> => box.post = << c, "untracked" >>,
           \A c \in Confirms : entry[c] = "claimed" =>
               \/ Answering(c) \/ box.pc = "off" \/ c \in box.cards \cup unseen[p]
               \/ emitter.id = << c >>
               \/ box.pc = "live" /\ \E n \in Numbers(box) : events[n] = c
    PROVE  WebInv'
<1>1. /\ outstanding \subseteq Confirms /\ unseen \in [Pages -> SUBSET Confirms]
      /\ entry \in [Confirms -> {"new", "queued", "claimed", "answered", "gone"}]
  BY DEF WebInv, WebTypes
<1> QED  BY <1>1, PageKeeps

LEMMA OwnStepKeeps == ASSUME WebConstants, WebInv, NEW p \in Pages, OwnStep(p) PROVE WebInv'
<1>0. /\ page[p] \in Boxes /\ Carries(page[p], Len(events)) /\ Len(events) \in Nat
      /\ \A c \in Confirms : entry[c] = "claimed" =>
            \/ Answering(c) \/ page[p].pc = "off" \/ c \in page[p].cards \cup unseen[p]
            \/ emitter.id = << c >>
            \/ page[p].pc = "live" /\ \E n \in Numbers(page[p]) : events[n] = c
      /\ page[p].post \in Posts /\ page \in [Pages -> Boxes]
  <2>1. page[p].post \in Posts /\ page \in [Pages -> Boxes]  BY DEF WebInv, WebTypes, Boxes
  <2> QED  BY <2>1, BoxFacts
<1>1. CASE Subscribe(p)
  <2> DEFINE box == [page[p] EXCEPT !.pc = "live", !.since = Len(events)]
  <2>1. box \in Boxes  BY <1>0 DEF Boxes
  <2>2. PageChanges(p, box)  BY <1>0, <1>1, <2>1 DEF Subscribe, PageChanges
  <2>3. /\ box.queue = page[p].queue /\ box.merged = page[p].merged /\ box.pc = "live"
        /\ box.lost = page[p].lost /\ box.told = page[p].told /\ box.got = page[p].got
        /\ box.since = Len(events) /\ box.ended = page[p].ended
        /\ box.cards = page[p].cards /\ box.post = page[p].post
    BY <1>0 DEF Boxes
  <2>4. Carries(box, Len(events))
    <3>1. Numbers(box) = Numbers(page[p])  BY <2>3 DEF Numbers
    <3>2. box.ended <= Len(events) /\ box.ended \in Nat  BY <1>0, <2>3 DEF Carries, Boxes
    <3>3. /\ box.since + 1 .. Len(events) \subseteq box.got \cup Numbers(box)
          /\ box.since + 1 .. box.ended \subseteq box.got \cup box.told
      BY <1>0, <2>3, <3>2
    <3>4. Rising(box.queue) /\ Rising(box.merged) /\ box.since <= Len(events)
      BY <1>0, <2>3 DEF Carries
    <3> QED  BY <1>0, <2>3, <3>1, <3>2, <3>3, <3>4 DEF Carries
  <2>5. page[p].pc = "joins" /\ UNCHANGED << entry, emitter, outstanding, events, unseen >>
    BY <1>1 DEF Subscribe
  <2> HIDE DEF box
  <2> QED  BY <1>0, <2>2, <2>3, <2>4, <2>5, OwnKeeps
<1>2. CASE Disconnect(p)
  <2> DEFINE box == [Off EXCEPT !.cards = page[p].cards, !.post = page[p].post,
                                !.visits = page[p].visits]
  <2>1. page[p].cards \in SUBSET Confirms /\ page[p].visits \in Int  BY <1>0 DEF Boxes
  <2>2. box \in Boxes  BY <1>0, <2>1, OffIs DEF Boxes
  <2>3. PageChanges(p, box)  BY <1>2, <2>2 DEF Disconnect, PageChanges
  <2>4. /\ box.queue = << >> /\ box.merged = << >> /\ box.lost = {} /\ box.told = {}
        /\ box.since = 0 /\ box.ended = 0 /\ box.pc = "off" /\ box.post = page[p].post
    BY OffIs DEF Boxes
  <2>5. Carries(box, Len(events))  BY <1>0, <2>2, <2>4, NothingCarried
  <2>6. UNCHANGED << entry, emitter, outstanding, events, unseen >>  BY <1>2 DEF Disconnect
  <2> HIDE DEF box
  <2> QED  BY <2>3, <2>4, <2>5, <2>6, OwnKeeps
<1>3. CASE FanIn(p)
  <2> DEFINE rest == [page[p] EXCEPT !.queue = Tail(@)]
             h == Head(page[p].queue)
             box == IF Len(page[p].merged) < Merged THEN [rest EXCEPT !.merged = Append(@, h)]
                    ELSE Lost(rest, h)
  <2>1. page[p].queue # << >>  BY <1>3 DEF FanIn
  <2>2. /\ box \in Boxes /\ Carries(box, Len(events))
        /\ box.pc = page[p].pc /\ box.cards = page[p].cards /\ box.post = page[p].post
        /\ Numbers(box) = Numbers(page[p])
    BY <1>0, <2>1, FanCarries
  <2>3. page' = [page EXCEPT ![p] = box]
    <3>1. rest.merged = page[p].merged  BY <1>0 DEF Boxes
    <3> QED  BY <1>3, <3>1 DEF FanIn
  <2>4. PageChanges(p, box)  BY <2>2, <2>3 DEF PageChanges
  <2>5. UNCHANGED << entry, emitter, outstanding, events, unseen >>  BY <1>3 DEF FanIn
  <2> HIDE DEF box
  <2> QED  BY <1>0, <2>2, <2>4, <2>5, OwnKeeps
<1>4. CASE Write(p)
  <2> DEFINE box == Shown([page[p] EXCEPT !.merged = Tail(@)], Head(page[p].merged))
  <2>1. page[p].merged # << >> /\ page[p].pc = "live"  BY <1>4 DEF Write
  <2>2. /\ box \in Boxes /\ Carries(box, Len(events))
        /\ box.pc = page[p].pc /\ box.post = page[p].post /\ page[p].cards \subseteq box.cards
        /\ \A n \in Numbers(page[p]) :
              n \in Numbers(box) \/ events[n] = Done \/ events[n] \in box.cards
    BY <1>0, <2>1, ShowCarries DEF WebInv
  <2>3. PageChanges(p, box)  BY <1>4, <2>2 DEF Write, PageChanges
  <2>4. UNCHANGED << entry, emitter, outstanding, events, unseen >>  BY <1>4 DEF Write
  <2>5. Done \notin Confirms  BY DEF WebConstants
  <2> HIDE DEF box
  <2> QED  BY <1>0, <2>1, <2>2, <2>3, <2>4, <2>5, OwnKeeps
<1>5. CASE PasswordRejected(p) \/ \E c \in Confirms : PostConfirm(p, c)
  <2>1. PICK post \in Posts : /\ page' = [page EXCEPT ![p].post = post]
                              /\ \A c \in Confirms : page[p].post # << c, "untracked" >>
    <3>1. CASE PasswordRejected(p)
      <4>1. page[p].post # << >> /\ page[p].post[2] = "looked" /\ << >> \in Posts
            /\ page' = [page EXCEPT ![p].post = << >>]
        BY <3>1 DEF PasswordRejected, Posts
      <4>2. \A c \in Confirms : page[p].post # << c, "untracked" >>  BY <4>1
      <4> QED  BY <4>1, <4>2
    <3>2. ASSUME NEW d \in Confirms, PostConfirm(p, d)
          PROVE  \E post \in Posts : /\ page' = [page EXCEPT ![p].post = post]
                                     /\ \A c \in Confirms : page[p].post # << c, "untracked" >>
      <4>1. page[p].post = << >> /\ << d, "looked" >> \in Posts
            /\ page' = [page EXCEPT ![p].post = << d, "looked" >>]
        BY <3>2 DEF PostConfirm, Posts
      <4>2. \A c \in Confirms : page[p].post # << c, "untracked" >>  BY <4>1
      <4> QED  BY <4>1, <4>2
    <3> QED  BY <1>5, <3>1, <3>2
  <2> DEFINE box == [page[p] EXCEPT !.post = post]
  <2>2. box \in Boxes  BY <1>0 DEF Boxes
  <2>3. PageChanges(p, box)  BY <1>0, <2>1, <2>2 DEF PageChanges
  <2>4. /\ box.queue = page[p].queue /\ box.merged = page[p].merged /\ box.pc = page[p].pc
        /\ box.lost = page[p].lost /\ box.told = page[p].told /\ box.got = page[p].got
        /\ box.since = page[p].since /\ box.ended = page[p].ended
        /\ box.cards = page[p].cards
    BY <1>0 DEF Boxes
  <2>5. Numbers(box) = Numbers(page[p])  BY <2>4 DEF Numbers
  <2>6. Carries(box, Len(events))  BY <1>0, <2>4, <2>5 DEF Carries
  <2>7. UNCHANGED << entry, emitter, outstanding, events, unseen >>
    BY <1>5 DEF PasswordRejected, PostConfirm
  <2> HIDE DEF box
  <2> QED  BY <1>0, <2>1, <2>3, <2>4, <2>5, <2>6, <2>7, OwnKeeps
<1> QED  BY <1>1, <1>2, <1>3, <1>4, <1>5 DEF OwnStep

(* A card goes, or its answer goes on. *)
LEMMA AnswerStep ==
    ASSUME WebInv, NEW p \in Pages,
           \/ Untrack(p) \/ ResolveToolConfirm(p)
           \/ \E c \in Confirms : PostFails(p, c)
    PROVE  WebInv'
<1>0. /\ page[p] \in Boxes /\ Carries(page[p], Len(events)) /\ Len(events) \in Nat
      /\ \A c \in Confirms : entry[c] = "claimed" =>
            \/ Answering(c) \/ page[p].pc = "off" \/ c \in page[p].cards \cup unseen[p]
            \/ emitter.id = << c >>
            \/ page[p].pc = "live" /\ \E n \in Numbers(page[p]) : events[n] = c
      /\ page[p].post \in Posts /\ page \in [Pages -> Boxes] /\ outstanding \subseteq Confirms
      /\ unseen \in [Pages -> SUBSET Confirms] /\ page[p].cards \subseteq Confirms
      /\ entry \in [Confirms -> {"new", "queued", "claimed", "answered", "gone"}]
  <2>1. /\ page[p].post \in Posts /\ page \in [Pages -> Boxes] /\ outstanding \subseteq Confirms
        /\ unseen \in [Pages -> SUBSET Confirms] /\ page[p].cards \subseteq Confirms
        /\ entry \in [Confirms -> {"new", "queued", "claimed", "answered", "gone"}]
    BY DEF WebInv, WebTypes, Boxes
  <2> QED  BY <2>1, BoxFacts
<1>1. CASE Untrack(p)
  <2>1. PICK d \in Confirms : page[p].post = << d, "looked" >>
    BY <1>0, <1>1 DEF Untrack, Posts
  <2> DEFINE box == [page[p] EXCEPT !.post = << d, "untracked" >>]
  <2>2. << d, "untracked" >> \in Posts  BY DEF Posts
  <2>3. box \in Boxes  BY <1>0, <2>2 DEF Boxes
  <2>4. [page[p].post EXCEPT ![2] = "untracked"] = << d, "untracked" >>  BY <2>1
  <2>5. PageChanges(p, box)  BY <1>0, <1>1, <2>3, <2>4 DEF Untrack, PageChanges
  <2>6. /\ box.queue = page[p].queue /\ box.merged = page[p].merged /\ box.pc = page[p].pc
        /\ box.lost = page[p].lost /\ box.told = page[p].told /\ box.got = page[p].got
        /\ box.since = page[p].since /\ box.ended = page[p].ended
        /\ box.cards = page[p].cards /\ box.post = << d, "untracked" >>
    BY <1>0 DEF Boxes
  <2>7. Numbers(box) = Numbers(page[p])  BY <2>6 DEF Numbers
  <2>8. Carries(box, Len(events))  BY <1>0, <2>6, <2>7 DEF Carries
  <2>9. /\ UNCHANGED << entry, emitter, events, unseen >> /\ outstanding' = outstanding \ {d}
    BY <1>1, <2>1 DEF Untrack
  <2>10. \A c \in Confirms : page[p].post # << c, "untracked" >>  BY <2>1
  <2>11. \A c \in Confirms : c \in outstanding' \/ box.post = << c, "untracked" >>
                             \/ c \notin outstanding
    BY <2>6, <2>9
  <2> HIDE DEF box
  <2> QED  BY <1>0, <2>5, <2>6, <2>7, <2>8, <2>9, <2>10, <2>11, PageKeeps
<1>2. ASSUME NEW d \in Confirms, page[p].post = << >> \/ page[p].post = << d, "untracked" >>,
             CardGone(p, d), UNCHANGED << emitter, outstanding, events >>,
             entry' = entry \/ entry' = Resolved(d),
             page[p].post = << d, "untracked" >> => entry' = Resolved(d)
      PROVE  WebInv'
  <2> DEFINE box == [page[p] EXCEPT !.cards = page[p].cards \ {d}, !.post = << >>]
  <2>1. << >> \in Posts /\ page[p].cards \ {d} \in SUBSET Confirms  BY <1>0 DEF Posts
  <2>2. box \in Boxes  BY <1>0, <2>1 DEF Boxes
  <2>3. PageChanges(p, box)  BY <1>0, <1>2, <2>2 DEF CardGone, PageChanges, Boxes
  <2>4. /\ box.queue = page[p].queue /\ box.merged = page[p].merged /\ box.pc = page[p].pc
        /\ box.lost = page[p].lost /\ box.told = page[p].told /\ box.got = page[p].got
        /\ box.since = page[p].since /\ box.ended = page[p].ended
        /\ box.cards = page[p].cards \ {d} /\ box.post = << >>
    BY <1>0 DEF Boxes
  <2>5. Numbers(box) = Numbers(page[p])  BY <2>4 DEF Numbers
  <2>6. Carries(box, Len(events))  BY <1>0, <2>4, <2>5 DEF Carries
  <2>7. /\ unseen'[p] = unseen[p] \cup {d} /\ unseen' \in [Pages -> SUBSET Confirms]
        /\ \A q \in Pages \ {p} : unseen'[q] = unseen[q]
    BY <1>0, <1>2 DEF CardGone
  <2>8. /\ entry' \in [Confirms -> {"new", "queued", "claimed", "answered", "gone"}]
        /\ \A c \in Confirms : entry'[c] = "claimed" => entry[c] = "claimed"
        /\ entry' = Resolved(d) => entry'[d] # "claimed"
    BY <1>0, <1>2 DEF Resolved
  <2>9. \A c \in Confirms : entry'[c] = "claimed" => page[p].post # << c, "untracked" >>
    BY <1>2, <2>8
  <2>10. \A c \in page[p].cards \cup unseen[p] : c \in box.cards \cup unseen'[p]
    BY <2>4, <2>7
  <2> HIDE DEF box
  <2> QED  BY <1>0, <1>2, <2>3, <2>4, <2>5, <2>6, <2>7, <2>8, <2>9, <2>10, PageKeeps
<1>3. CASE ResolveToolConfirm(p)
  <2>1. PICK d \in Confirms : page[p].post = << d, "untracked" >>
    BY <1>0, <1>3 DEF ResolveToolConfirm, Posts
  <2> QED  BY <1>2, <1>3, <2>1 DEF ResolveToolConfirm
<1>4. ASSUME NEW d \in Confirms, PostFails(p, d) PROVE WebInv'
  <2>1. page[p].post # << d, "untracked" >>  BY <1>4 DEF PostFails
  <2> QED  BY <1>2, <1>4, <2>1 DEF PostFails
<1> QED  BY <1>1, <1>3, <1>4

LEMMA WebStep == ASSUME WebConstants, WebInv, [WebNext]_webVars PROVE WebInv'
<1>1. CASE UNCHANGED webVars
  <2>1. UNCHANGED << entry, emitter, outstanding, page, events, unseen >>  BY <1>1 DEF webVars
  <2>2. WebTypes'  BY <2>1 DEF WebInv, WebTypes
  <2>3. EventInv'  BY <2>1 DEF WebInv, EventInv
  <2>4. \A c \in Confirms : Answering(c)' <=> Answering(c)  BY <2>1 DEF Answering
  <2>5. TrackInv'  BY <2>1, <2>4 DEF WebInv, TrackInv
  <2>6. ShownInv'  BY <2>1, <2>4 DEF WebInv, ShownInv
  <2> QED  BY <2>2, <2>3, <2>5, <2>6 DEF WebInv
<1>2. CASE \E c \in Confirms : Ask(c) \/ Expire(c) \/ AskReturns(c) \/ Pick(c)
  <2>1. UNCHANGED << page, events, unseen >>  BY <1>2 DEF Ask, Expire, AskReturns, Pick
  <2> QED  BY <1>2, <2>1, EmitterStep
<1>3. CASE Rest \/ EmitExpired \/ TrackConfirm
  <2>1. UNCHANGED << page, events, unseen >>  BY <1>3 DEF Rest, EmitExpired, TrackConfirm
  <2> QED  BY <1>3, <2>1, EmitterStep
<1>4. CASE Emit  BY <1>4, EmitStep
<1>5. CASE RunEnds  BY <1>5, RunEndsStep
<1>6. ASSUME NEW p \in Pages, Connect(p) PROVE WebInv'  BY <1>6, ConnectStep
<1>7. ASSUME NEW p \in Pages, OwnStep(p) PROVE WebInv'  BY <1>7, OwnStepKeeps
<1>8. ASSUME NEW p \in Pages,
             Untrack(p) \/ ResolveToolConfirm(p) \/ \E c \in Confirms : PostFails(p, c)
      PROVE  WebInv'
  BY <1>8, AnswerStep
<1> QED  BY <1>1, <1>2, <1>3, <1>4, <1>5, <1>6, <1>7, <1>8 DEF WebNext, OwnStep

\* Whichever confirmations a run needs and whoever follows its session: one that waits for
\* its answer is before the user on every page that follows the session, or on its way
\* there, but for the cases ConfirmsShown names (confirm.go, multilog.go).
THEOREM ConfirmsAreShown ==
    ASSUME WebConstants, NEW needed, NEW opened, NEW visits \in Int
    PROVE  WebSpec(needed, opened, visits) => []ConfirmsShown
<1>1. WebInit(needed, opened, visits) => WebInv  BY WebStart
<1>2. WebInv /\ [WebNext]_webVars => WebInv'  BY WebStep
<1>3. WebInv => ConfirmsShown
  <2> SUFFICES ASSUME WebInv, NEW c \in Confirms, NEW p \in Pages, entry[c] = "claimed",
                      emitter.id # << c >>, ~ Posted(c), page[p].pc = "live"
               PROVE  c \in page[p].cards \cup unseen[p] \cup {events[n] : n \in Numbers(page[p])}
    BY DEF ConfirmsShown
  <2>1. ~ Answering(c)
    <3> SUFFICES ASSUME NEW q \in Pages, page[q].post = << c, "untracked" >> PROVE FALSE
      BY DEF Answering
    <3>1. page[q].post # << >> /\ page[q].post[1] = c  OBVIOUS
    <3> QED  BY <3>1 DEF Posted
  <2> QED  BY <2>1 DEF WebInv, ShownInv
<1> QED  BY <1>1, <1>2, <1>3, PTL DEF WebSpec

\* However slow the pages' connections are: a page that has seen a run end has got every
\* event published before it, since it follows the session, or was told that the event was
\* lost (multilog.go).
THEOREM LossesAreTold ==
    ASSUME WebConstants, NEW needed, NEW opened, NEW visits \in Int
    PROVE  WebSpec(needed, opened, visits) => []TruncationTold
<1>1. WebInit(needed, opened, visits) => WebInv  BY WebStart
<1>2. WebInv /\ [WebNext]_webVars => WebInv'  BY WebStep
<1>3. WebInv => TruncationTold  BY DEF WebInv, EventInv, Carries, TruncationTold
<1> QED  BY <1>1, <1>2, <1>3, PTL DEF WebSpec
=============================================================================
