------------------------------ MODULE WeaveProofs ------------------------------
(***************************************************************************)
(* Proofs about Scheduler, Weave and Diagnostics, for any finite sets of   *)
(* threads, strands and weaves, disciplined or not.                        *)
(***************************************************************************)
EXTENDS Diagnostics, SequenceTheorems, FiniteSetTheorems, TLAPS

-----------------------------------------------------------------------------
(***************************************************************************)
(* The scheduler.  The inductive invariant is the type invariant, the      *)
(* bookkeeping of the spawns in progress (SpawnTree), the accuracy of      *)
(* ACTIVE_STRANDS and the join guarantee itself.  SpawnTree is what makes  *)
(* the guarantee inductive: a strand not yet started is held by exactly    *)
(* one spawner of the same program, and that spawner is itself counted, or *)
(* is a thread that is not waiting yet.                                    *)
(***************************************************************************)
ChildOf(a) ==
    /\ child[a] \in Strands => /\ pc[child[a]] = IF pc[a] = "sp_active"
                                                 THEN "reserved" ELSE "counted"
                               /\ root[child[a]] = RootOf(a)
    /\ child[a] \in Strands <=> pc[a] \in SpawnLabels

SpawnTree ==
    /\ \A a \in Actors : ChildOf(a)
    /\ \A a, b \in Actors : child[a] \in Strands /\ child[a] = child[b] => a = b
    /\ \A s \in Strands : pc[s] \in {"reserved", "counted"}
                             => \E a \in Actors : child[a] = s
    /\ \A s \in Strands : pc[s] = "unborn" <=> root[s] = None

IInv == TypeOK /\ SpawnTree /\ ActiveIsCounted /\ JoinGuarantee

-----------------------------------------------------------------------------
(* Type correctness.                                                       *)

(* Only a counted strand decrements, so the counter does not go below 0.   *)
LEMMA CountedFinite ==
    /\ IsFiniteSet(Counted)
    /\ Cardinality(Counted) \in Nat
    /\ Cardinality(Counted) = 0 => Counted = {}
<1>1. Counted \in SUBSET Strands
  BY DEF Counted
<1>2. IsFiniteSet(Counted)
  BY <1>1, FS_Subset, SchedulerConstants
<1> QED
  BY <1>2, FS_CardinalityType, FS_EmptySet

LEMMA TypeInit == Init => TypeOK
  BY SchedulerConstants
  DEF Init, TypeOK, Actors, StrandLabels, ThreadLabels, SpawnLabels,
      ExitLabels, WaitLabels

(* The labels and the type of every variable survive each step.            *)
LEMMA TypeStep ==
    ASSUME TypeOK, SpawnTree, ActiveIsCounted, [Next]_vars
    PROVE  TypeOK'
<1> USE SchedulerConstants
    DEF Actors, StrandLabels, ThreadLabels, SpawnLabels, ExitLabels, WaitLabels,
        counters, locals, history
<1>1. ASSUME NEW a \in Actors, NEW s \in Strands, SpawnTakeId(a, s)
      PROVE  TypeOK'
  BY <1>1 DEF SpawnTakeId, TypeOK, RootOf, SpawnTree
<1>2. ASSUME NEW a \in Actors, SpawnCountActive(a)
      PROVE  TypeOK'
  <2>1. child[a] \in Strands
    BY <1>2 DEF SpawnCountActive, SpawnTree, ChildOf
  <2> QED
    BY <1>2, <2>1 DEF SpawnCountActive, TypeOK, Maximum
<1>3. ASSUME NEW a \in Actors, SpawnCountTotal(a)
      PROVE  TypeOK'
  BY <1>3 DEF SpawnCountTotal, TypeOK
<1>4. ASSUME NEW a \in Actors, SpawnLoadPeak(a)
      PROVE  TypeOK'
  BY <1>4 DEF SpawnLoadPeak, LoopOrGo, TypeOK
<1>5. ASSUME NEW a \in Actors, SpawnCasPeak(a)
      PROVE  TypeOK'
  BY <1>5 DEF SpawnCasPeak, LoopOrGo, TypeOK
<1>6. ASSUME NEW a \in Actors, SpawnStart(a)
      PROVE  TypeOK'
  <2>1. child[a] \in Strands
    BY <1>6 DEF SpawnStart, SpawnTree, ChildOf
  <2> QED
    BY <1>6, <2>1 DEF SpawnStart, TypeOK
<1>7. ASSUME NEW s \in Strands, EntryReturns(s)
      PROVE  TypeOK'
  BY <1>7 DEF EntryReturns, TypeOK
<1>8. ASSUME NEW s \in Strands, ExitDecrement(s)
      PROVE  TypeOK'
  <2>1. s \in Counted
    BY <1>8 DEF ExitDecrement, Counted, CountedLabels
  <2>2. ACTIVE_STRANDS > 0
    BY <2>1, CountedFinite DEF ActiveIsCounted
  <2> QED
    BY <1>8, <2>2 DEF ExitDecrement, TypeOK
<1>9. ASSUME NEW s \in Strands, ExitComplete(s)
      PROVE  TypeOK'
  BY <1>9 DEF ExitComplete, TypeOK
<1>10. ASSUME NEW s \in Strands, ExitLock(s)
       PROVE  TypeOK'
  BY <1>10 DEF ExitLock, TypeOK
<1>11. ASSUME NEW s \in Strands, ExitNotify(s)
       PROVE  TypeOK'
  BY <1>11 DEF ExitNotify, TypeOK
<1>12. ASSUME NEW t \in Threads, WaitLock(t) \/ WaitWake(t)
       PROVE  TypeOK'
  BY <1>12 DEF WaitLock, WaitWake, TypeOK
<1>13. ASSUME NEW t \in Threads, WaitCheck(t) \/ SpuriousWake(t)
       PROVE  TypeOK'
  BY <1>13 DEF WaitCheck, SpuriousWake, TypeOK
<1>14. ASSUME UNCHANGED vars
       PROVE  TypeOK'
  BY <1>14 DEF vars, TypeOK
<1> QED
  BY <1>1, <1>2, <1>3, <1>4, <1>5, <1>6, <1>7, <1>8, <1>9, <1>10, <1>11,
     <1>12, <1>13, <1>14
  DEF Next, SpawnSteps, ExitSteps, WaitSteps, Terminated

-----------------------------------------------------------------------------
(* The spawns in progress form a tree.                                     *)

LEMMA SpawnTreeInit == Init => SpawnTree
  BY SchedulerConstants
  DEF Init, SpawnTree, ChildOf, RootOf, Actors, SpawnLabels

LEMMA SpawnTreeStep ==
    ASSUME TypeOK, SpawnTree, [Next]_vars
    PROVE  SpawnTree'
<1> USE SchedulerConstants
    DEF Actors, SpawnLabels, SpawnTree, ChildOf, RootOf, TypeOK,
        counters, locals, history
<1>1. ASSUME NEW a \in Actors, NEW s \in Strands, SpawnTakeId(a, s)
      PROVE  SpawnTree'
  BY <1>1, SMTT(60) DEF SpawnTakeId
<1>2. ASSUME NEW a \in Actors, SpawnCountActive(a)
      PROVE  SpawnTree'
  BY <1>2 DEF SpawnCountActive
<1>3. ASSUME NEW a \in Actors, SpawnCountTotal(a)
      PROVE  SpawnTree'
  BY <1>3 DEF SpawnCountTotal
<1>4. ASSUME NEW a \in Actors, SpawnLoadPeak(a)
      PROVE  SpawnTree'
  BY <1>4 DEF SpawnLoadPeak, LoopOrGo
<1>5. ASSUME NEW a \in Actors, SpawnCasPeak(a)
      PROVE  SpawnTree'
  BY <1>5 DEF SpawnCasPeak, LoopOrGo
<1>6. ASSUME NEW a \in Actors, SpawnStart(a)
      PROVE  SpawnTree'
  BY <1>6 DEF SpawnStart
<1>7. ASSUME NEW s \in Strands, EntryReturns(s)
      PROVE  SpawnTree'
  BY <1>7 DEF EntryReturns
<1>8. ASSUME NEW s \in Strands, ExitDecrement(s)
      PROVE  SpawnTree'
  BY <1>8 DEF ExitDecrement
<1>9. ASSUME NEW s \in Strands, ExitComplete(s)
      PROVE  SpawnTree'
  BY <1>9 DEF ExitComplete
<1>10. ASSUME NEW s \in Strands, ExitLock(s)
       PROVE  SpawnTree'
  BY <1>10 DEF ExitLock
<1>11. ASSUME NEW s \in Strands, ExitNotify(s)
       PROVE  SpawnTree'
  BY <1>11 DEF ExitNotify
<1>12. ASSUME NEW t \in Threads, WaitLock(t) \/ WaitWake(t)
       PROVE  SpawnTree'
  BY <1>12 DEF WaitLock, WaitWake
<1>13. ASSUME NEW t \in Threads, WaitCheck(t) \/ SpuriousWake(t)
       PROVE  SpawnTree'
  BY <1>13 DEF WaitCheck, SpuriousWake
<1>14. ASSUME UNCHANGED vars
       PROVE  SpawnTree'
  BY <1>14 DEF vars
<1> QED
  BY <1>1, <1>2, <1>3, <1>4, <1>5, <1>6, <1>7, <1>8, <1>9, <1>10, <1>11,
     <1>12, <1>13, <1>14
  DEF Next, SpawnSteps, ExitSteps, WaitSteps, Terminated

-----------------------------------------------------------------------------
(* ACTIVE_STRANDS is the number of counted strands.                        *)

LEMMA ActiveInit == Init => ActiveIsCounted
<1> SUFFICES ASSUME Init PROVE ActiveIsCounted
  OBVIOUS
<1>1. Counted = {}
  BY SchedulerConstants
  DEF Init, Counted, CountedLabels, SpawnLabels, Actors
<1> QED
  BY <1>1, FS_EmptySet DEF Init, ActiveIsCounted

LEMMA ActiveStep ==
    ASSUME TypeOK, SpawnTree, ActiveIsCounted, [Next]_vars
    PROVE  ActiveIsCounted'
<1> USE SchedulerConstants
    DEF Actors, SpawnLabels, CountedLabels, TypeOK, counters, locals, history
<1> SUFFICES \/ Counted' = Counted /\ ACTIVE_STRANDS' = ACTIVE_STRANDS
             \/ \E s \in Strands \ Counted :
                    /\ Counted' = Counted \cup {s}
                    /\ ACTIVE_STRANDS' = ACTIVE_STRANDS + 1
             \/ \E s \in Counted :
                    /\ Counted' = Counted \ {s}
                    /\ ACTIVE_STRANDS' = ACTIVE_STRANDS - 1
  BY CountedFinite, FS_AddElement, FS_RemoveElement DEF ActiveIsCounted
<1>1. ASSUME NEW a \in Actors, NEW s \in Strands, SpawnTakeId(a, s)
      PROVE  Counted' = Counted /\ ACTIVE_STRANDS' = ACTIVE_STRANDS
  BY <1>1 DEF SpawnTakeId, Counted
<1>2. ASSUME NEW a \in Actors, SpawnCountActive(a)
      PROVE  \E s \in Strands \ Counted :
                 /\ Counted' = Counted \cup {s}
                 /\ ACTIVE_STRANDS' = ACTIVE_STRANDS + 1
  <2>1. child[a] \in Strands /\ pc[child[a]] = "reserved"
    BY <1>2 DEF SpawnCountActive, SpawnTree, ChildOf
  <2>2. Counted' = Counted \cup {child[a]} /\ child[a] \notin Counted
    BY <1>2, <2>1 DEF SpawnCountActive, Counted
  <2> QED
    BY <1>2, <2>1, <2>2 DEF SpawnCountActive
<1>3. ASSUME NEW a \in Actors,
             SpawnCountTotal(a) \/ SpawnLoadPeak(a) \/ SpawnCasPeak(a)
      PROVE  Counted' = Counted /\ ACTIVE_STRANDS' = ACTIVE_STRANDS
  BY <1>3 DEF SpawnCountTotal, SpawnLoadPeak, SpawnCasPeak, LoopOrGo, Counted
<1>4. ASSUME NEW a \in Actors, SpawnStart(a)
      PROVE  Counted' = Counted /\ ACTIVE_STRANDS' = ACTIVE_STRANDS
  <2>1. child[a] \in Strands /\ pc[child[a]] = "counted"
    BY <1>4 DEF SpawnStart, SpawnTree, ChildOf
  <2> QED
    BY <1>4, <2>1 DEF SpawnStart, Counted
<1>5. ASSUME NEW s \in Strands, EntryReturns(s)
      PROVE  Counted' = Counted /\ ACTIVE_STRANDS' = ACTIVE_STRANDS
  BY <1>5 DEF EntryReturns, Counted
<1>6. ASSUME NEW s \in Strands, ExitDecrement(s)
      PROVE  /\ s \in Counted
             /\ Counted' = Counted \ {s}
             /\ ACTIVE_STRANDS' = ACTIVE_STRANDS - 1
  BY <1>6 DEF ExitDecrement, Counted
<1>7. ASSUME NEW s \in Strands, ExitComplete(s) \/ ExitLock(s)
      PROVE  Counted' = Counted /\ ACTIVE_STRANDS' = ACTIVE_STRANDS
  BY <1>7 DEF ExitComplete, ExitLock, Counted
<1>8. ASSUME NEW s \in Strands, ExitNotify(s)
      PROVE  Counted' = Counted /\ ACTIVE_STRANDS' = ACTIVE_STRANDS
  BY <1>8 DEF ExitNotify, Counted
<1>9. ASSUME NEW t \in Threads, WaitLock(t) \/ WaitWake(t)
      PROVE  Counted' = Counted /\ ACTIVE_STRANDS' = ACTIVE_STRANDS
  BY <1>9 DEF WaitLock, WaitWake, Counted
<1>10. ASSUME NEW t \in Threads, WaitCheck(t) \/ SpuriousWake(t)
       PROVE  Counted' = Counted /\ ACTIVE_STRANDS' = ACTIVE_STRANDS
  BY <1>10 DEF WaitCheck, SpuriousWake, Counted
<1>11. ASSUME UNCHANGED vars
       PROVE  Counted' = Counted /\ ACTIVE_STRANDS' = ACTIVE_STRANDS
  BY <1>11 DEF vars, Counted
<1> QED
  BY <1>1, <1>2, <1>3, <1>4, <1>5, <1>6, <1>7, <1>8, <1>9, <1>10, <1>11
  DEF Next, SpawnSteps, ExitSteps, WaitSteps, Terminated

-----------------------------------------------------------------------------
(* The join guarantee.                                                     *)

LEMMA JoinInit == Init => JoinGuarantee
  BY SchedulerConstants DEF Init, JoinGuarantee, Actors

LEMMA JoinStep ==
    ASSUME IInv, [Next]_vars
    PROVE  JoinGuarantee'
<1> USE SchedulerConstants
    DEF Actors, TypeOK, IInv, counters, locals, history
<1>1. ASSUME NEW a \in Actors, NEW s \in Strands, SpawnTakeId(a, s)
      PROVE  JoinGuarantee'
  BY <1>1 DEF SpawnTakeId, JoinGuarantee, RootOf
<1>2. ASSUME NEW a \in Actors, SpawnCountActive(a)
      PROVE  JoinGuarantee'
  BY <1>2 DEF SpawnCountActive, JoinGuarantee, SpawnTree, ChildOf, SpawnLabels
<1>3. ASSUME NEW a \in Actors,
             SpawnCountTotal(a) \/ SpawnLoadPeak(a) \/ SpawnCasPeak(a)
      PROVE  JoinGuarantee'
  BY <1>3 DEF SpawnCountTotal, SpawnLoadPeak, SpawnCasPeak, LoopOrGo,
              JoinGuarantee
<1>4. ASSUME NEW a \in Actors, SpawnStart(a)
      PROVE  JoinGuarantee'
  BY <1>4 DEF SpawnStart, JoinGuarantee, SpawnTree, ChildOf, SpawnLabels
<1>5. ASSUME NEW s \in Strands, EntryReturns(s) \/ ExitDecrement(s)
      PROVE  JoinGuarantee'
  BY <1>5 DEF EntryReturns, ExitDecrement, JoinGuarantee
<1>6. ASSUME NEW s \in Strands, ExitComplete(s) \/ ExitLock(s)
      PROVE  JoinGuarantee'
  BY <1>6 DEF ExitComplete, ExitLock, JoinGuarantee
<1>7. ASSUME NEW s \in Strands, ExitNotify(s)
      PROVE  JoinGuarantee'
  BY <1>7 DEF ExitNotify, JoinGuarantee
<1>8. ASSUME NEW t \in Threads, WaitLock(t) \/ WaitWake(t) \/ SpuriousWake(t)
      PROVE  JoinGuarantee'
  BY <1>8 DEF WaitLock, WaitWake, SpuriousWake, JoinGuarantee
<1>9. ASSUME NEW t \in Threads, WaitCheck(t), ACTIVE_STRANDS > 0
      PROVE  JoinGuarantee'
  BY <1>9 DEF WaitCheck, JoinGuarantee
<1>10. ASSUME NEW t \in Threads, WaitCheck(t), ~(ACTIVE_STRANDS > 0)
       PROVE  JoinGuarantee'
  (* The counter is 0, so no strand is counted; a strand of t that has an  *)
  (* id but is not started would have a counted spawner, or t itself.      *)
  <2>1. Counted = {}
    BY <1>10, CountedFinite DEF ActiveIsCounted
  <2>2. \A s \in Strands : root[s] = t =>
            pc[s] \in {"complete", "lock", "notify", "done"}
    <3> SUFFICES ASSUME NEW s \in Strands, root[s] = t
                 PROVE  pc[s] \in {"complete", "lock", "notify", "done"}
      OBVIOUS
    <3>1. pc[s] # "unborn"
      BY DEF SpawnTree
    <3>2. pc[s] \notin CountedLabels
      BY <2>1 DEF Counted
    <3>3. pc[s] # "reserved"
      <4> SUFFICES ASSUME pc[s] = "reserved" PROVE FALSE
        OBVIOUS
      <4>1. PICK a \in Actors : child[a] = s
        BY DEF SpawnTree
      <4>2. pc[a] \in SpawnLabels /\ RootOf(a) = t
        BY <4>1 DEF SpawnTree, ChildOf
      <4>3. a \notin Threads
        BY <4>2, <1>10 DEF RootOf, WaitCheck, SpawnLabels
      <4>4. a \in Counted
        BY <4>2, <4>3 DEF Counted, CountedLabels
      <4> QED
        BY <4>4, <2>1
    <3> QED
      BY <3>1, <3>2, <3>3 DEF StrandLabels, CountedLabels, ExitLabels
  <2> QED
    BY <1>10, <2>2 DEF WaitCheck, JoinGuarantee
<1>11. ASSUME UNCHANGED vars
       PROVE  JoinGuarantee'
  BY <1>11 DEF vars, JoinGuarantee
<1> QED
  BY <1>1, <1>2, <1>3, <1>4, <1>5, <1>6, <1>7, <1>8, <1>9, <1>10, <1>11
  DEF Next, SpawnSteps, ExitSteps, WaitSteps, Terminated

(* The inductive invariant.                                                *)
THEOREM Invariance == Spec => []IInv
<1>1. Init => IInv
  BY TypeInit, SpawnTreeInit, ActiveInit, JoinInit DEF IInv
<1>2. IInv /\ [Next]_vars => IInv'
  BY TypeStep, SpawnTreeStep, ActiveStep, JoinStep DEF IInv
<1> QED
  BY <1>1, <1>2, PTL DEF Spec

(* The counters, the mutex, the labels and the locals keep their types;    *)
(* in particular ACTIVE_STRANDS never underflows.                          *)
THEOREM TypeCorrect == Spec => []TypeOK
  BY Invariance, PTL DEF IInv

(* scheduler_run and wait_all_strands never return while a strand of the   *)
(* caller's program is in user code or on its way to it.                   *)
THEOREM Join == Spec => []JoinGuarantee
  BY Invariance, PTL DEF IInv

(* ACTIVE_STRANDS is at every step the number of counted strands.          *)
THEOREM ActiveAccurate == Spec => []ActiveIsCounted
  BY Invariance, PTL DEF IInv

-----------------------------------------------------------------------------
(* No wakeup is lost: inductive once the types are known.                  *)

LEMMA WakeupStep ==
    ASSUME IInv, NoLostWakeup, [Next]_vars
    PROVE  NoLostWakeup'
<1> USE SchedulerConstants
    DEF Actors, TypeOK, IInv, counters, locals, history
<1>1. ASSUME NEW a \in Actors, NEW s \in Strands, SpawnTakeId(a, s)
      PROVE  NoLostWakeup'
  BY <1>1 DEF SpawnTakeId, NoLostWakeup
<1>2. ASSUME NEW a \in Actors, SpawnCountActive(a)
      PROVE  NoLostWakeup'
  BY <1>2 DEF SpawnCountActive, NoLostWakeup
<1>3. ASSUME NEW a \in Actors,
             SpawnCountTotal(a) \/ SpawnLoadPeak(a) \/ SpawnCasPeak(a)
      PROVE  NoLostWakeup'
  BY <1>3 DEF SpawnCountTotal, SpawnLoadPeak, SpawnCasPeak, LoopOrGo,
              NoLostWakeup
<1>4. ASSUME NEW a \in Actors, SpawnStart(a)
      PROVE  NoLostWakeup'
  BY <1>4 DEF SpawnStart, NoLostWakeup, SpawnTree, ChildOf, SpawnLabels
<1>5. ASSUME NEW s \in Strands, EntryReturns(s)
      PROVE  NoLostWakeup'
  BY <1>5 DEF EntryReturns, NoLostWakeup
<1>6. ASSUME NEW s \in Strands, ExitDecrement(s)
      PROVE  NoLostWakeup'
  BY <1>6 DEF ExitDecrement, NoLostWakeup
<1>7. ASSUME NEW s \in Strands, ExitComplete(s) \/ ExitLock(s)
      PROVE  NoLostWakeup'
  BY <1>7 DEF ExitComplete, ExitLock, NoLostWakeup
<1>8. ASSUME NEW s \in Strands, ExitNotify(s)
      PROVE  NoLostWakeup'
  BY <1>8 DEF ExitNotify, NoLostWakeup
<1>9. ASSUME NEW t \in Threads, WaitLock(t) \/ WaitWake(t) \/ SpuriousWake(t)
      PROVE  NoLostWakeup'
  BY <1>9 DEF WaitLock, WaitWake, SpuriousWake, NoLostWakeup
<1>10. ASSUME NEW t \in Threads, WaitCheck(t)
       PROVE  NoLostWakeup'
  BY <1>10 DEF WaitCheck, NoLostWakeup
<1>11. ASSUME UNCHANGED vars
       PROVE  NoLostWakeup'
  BY <1>11 DEF vars, NoLostWakeup
<1> QED
  BY <1>1, <1>2, <1>3, <1>4, <1>5, <1>6, <1>7, <1>8, <1>9, <1>10, <1>11
  DEF Next, SpawnSteps, ExitSteps, WaitSteps, Terminated

(* While a thread sleeps on SHUTDOWN_CONDVAR some strand is counted or on  *)
(* its way to notify_all.                                                  *)
THEOREM WakeupNotLost == Spec => []NoLostWakeup
<1>1. Init => NoLostWakeup
  BY SchedulerConstants DEF Init, NoLostWakeup, Actors
<1>2. IInv /\ NoLostWakeup /\ [Next]_vars => NoLostWakeup'
  BY WakeupStep
<1> QED
  BY <1>1, <1>2, Invariance, PTL DEF Spec

-----------------------------------------------------------------------------
(* The high-water mark.  PeakIsHighWater speaks of moments without a CAS   *)
(* loop in progress; the inductive form says why the mark is reached: as   *)
(* long as PEAK_STRANDS lags, a spawner that holds the larger count is     *)
(* still in its loop.                                                      *)

InPeakLoop(a) == pc[a] \in {"sp_total", "sp_load", "sp_cas"}

PeakInv ==
    /\ ACTIVE_STRANDS <= highWater
    /\ PEAK_STRANDS <= highWater
    /\ \A a \in Actors : /\ new_count[a] <= highWater
                         /\ pc[a] = "sp_cas" => peak[a] < new_count[a]
    /\ PEAK_STRANDS < highWater
          => \E a \in Actors : InPeakLoop(a) /\ new_count[a] = highWater

LEMMA PeakStep ==
    ASSUME IInv, PeakInv, [Next]_vars
    PROVE  PeakInv'
<1> USE SchedulerConstants
    DEF Actors, TypeOK, IInv, PeakInv, InPeakLoop, counters, locals, history
<1>1. ASSUME NEW a \in Actors, NEW s \in Strands, SpawnTakeId(a, s)
      PROVE  PeakInv'
  BY <1>1 DEF SpawnTakeId
<1>2. ASSUME NEW a \in Actors, SpawnCountActive(a)
      PROVE  PeakInv'
  <2>1. child[a] \in Strands /\ pc[child[a]] = "reserved"
    BY <1>2 DEF SpawnCountActive, SpawnTree, ChildOf, SpawnLabels
  <2>2. CASE ACTIVE_STRANDS + 1 > highWater
    BY <1>2, <2>1, <2>2 DEF SpawnCountActive, Maximum
  <2>3. CASE ~(ACTIVE_STRANDS + 1 > highWater)
    BY <1>2, <2>1, <2>3 DEF SpawnCountActive, Maximum
  <2> QED
    BY <2>2, <2>3
<1>3. ASSUME NEW a \in Actors, SpawnCountTotal(a)
      PROVE  PeakInv'
  BY <1>3 DEF SpawnCountTotal
<1>4. ASSUME NEW a \in Actors, SpawnLoadPeak(a)
      PROVE  PeakInv'
  BY <1>4 DEF SpawnLoadPeak, LoopOrGo
<1>5. ASSUME NEW a \in Actors, SpawnCasPeak(a)
      PROVE  PeakInv'
  BY <1>5 DEF SpawnCasPeak, LoopOrGo
<1>6. ASSUME NEW a \in Actors, SpawnStart(a)
      PROVE  PeakInv'
  <2>1. child[a] \in Strands /\ pc[child[a]] = "counted"
    BY <1>6 DEF SpawnStart, SpawnTree, ChildOf, SpawnLabels
  <2> QED
    BY <1>6, <2>1 DEF SpawnStart
<1>7. ASSUME NEW s \in Strands, EntryReturns(s) \/ ExitDecrement(s)
      PROVE  PeakInv'
  BY <1>7 DEF EntryReturns, ExitDecrement
<1>8. ASSUME NEW s \in Strands, ExitComplete(s) \/ ExitLock(s)
      PROVE  PeakInv'
  BY <1>8 DEF ExitComplete, ExitLock
<1>9. ASSUME NEW s \in Strands, ExitNotify(s)
      PROVE  PeakInv'
  BY <1>9 DEF ExitNotify
<1>10. ASSUME NEW t \in Threads,
              WaitLock(t) \/ WaitWake(t) \/ SpuriousWake(t) \/ WaitCheck(t)
       PROVE  PeakInv'
  BY <1>10 DEF WaitLock, WaitWake, SpuriousWake, WaitCheck
<1>11. ASSUME UNCHANGED vars
       PROVE  PeakInv'
  BY <1>11 DEF vars
<1> QED
  BY <1>1, <1>2, <1>3, <1>4, <1>5, <1>6, <1>7, <1>8, <1>9, <1>10, <1>11
  DEF Next, SpawnSteps, ExitSteps, WaitSteps, Terminated

(* However the CAS loops race, PEAK_STRANDS ends up at the largest value   *)
(* ACTIVE_STRANDS has had.                                                 *)
THEOREM PeakExact == Spec => []PeakIsHighWater
<1>1. Init => PeakInv
  BY SchedulerConstants DEF Init, PeakInv, Actors
<1>2. IInv /\ PeakInv /\ [Next]_vars => PeakInv'
  BY PeakStep
<1>3. IInv /\ PeakInv => PeakIsHighWater
  BY DEF IInv, TypeOK, PeakInv, InPeakLoop, PeakIsHighWater
<1> QED
  BY <1>1, <1>2, <1>3, Invariance, PTL DEF Spec

-----------------------------------------------------------------------------
(* The counters account for every strand.  Each step moves at most one     *)
(* actor into or out of the two gaps between two counter updates.          *)

SpawnGap == {a \in Actors : pc[a] = "sp_total"}
ExitGap == {s \in Strands : pc[s] = "complete"}

LEMMA GapsFinite ==
    /\ IsFiniteSet(SpawnGap) /\ Cardinality(SpawnGap) \in Nat
    /\ IsFiniteSet(ExitGap) /\ Cardinality(ExitGap) \in Nat
<1>1. IsFiniteSet(Actors)
  BY SchedulerConstants, FS_Union DEF Actors
<1>2. SpawnGap \in SUBSET Actors /\ ExitGap \in SUBSET Strands
  BY DEF SpawnGap, ExitGap
<1> QED
  BY <1>1, <1>2, FS_Subset, FS_CardinalityType, SchedulerConstants

(* What a step does to a gap.                                              *)
Same == SpawnGap' = SpawnGap /\ ExitGap' = ExitGap

LEMMA ConservedStep ==
    ASSUME IInv, CountersConserved, [Next]_vars
    PROVE  CountersConserved'
<1> USE SchedulerConstants
    DEF Actors, SpawnLabels, TypeOK, IInv, counters, locals, history
<1>1. /\ ACTIVE_STRANDS \in Int /\ TOTAL_SPAWNED \in Int /\ TOTAL_COMPLETED \in Int
      /\ Cardinality(SpawnGap) \in Int /\ Cardinality(ExitGap) \in Int
      /\ TOTAL_SPAWNED + Cardinality(SpawnGap)
             = TOTAL_COMPLETED + ACTIVE_STRANDS + Cardinality(ExitGap)
  BY GapsFinite DEF CountersConserved, SpawnGap, ExitGap
<1>2. CountersConserved' <=> TOTAL_SPAWNED' + Cardinality(SpawnGap')
             = TOTAL_COMPLETED' + ACTIVE_STRANDS' + Cardinality(ExitGap')
  BY DEF CountersConserved, SpawnGap, ExitGap
<1>3. ASSUME Same, UNCHANGED <<ACTIVE_STRANDS, TOTAL_SPAWNED, TOTAL_COMPLETED>>
      PROVE  CountersConserved'
  BY <1>1, <1>2, <1>3 DEF Same
<1>4. ASSUME NEW a \in Actors, NEW s \in Strands, SpawnTakeId(a, s)
      PROVE  CountersConserved'
  BY <1>3, <1>4 DEF SpawnTakeId, Same, SpawnGap, ExitGap
<1>5. ASSUME NEW a \in Actors, SpawnCountActive(a)
      PROVE  CountersConserved'
  <2>1. child[a] \in Strands /\ pc[child[a]] = "reserved"
    BY <1>5 DEF SpawnCountActive, SpawnTree, ChildOf
  <2>2. SpawnGap' = SpawnGap \cup {a} /\ a \notin SpawnGap
    BY <1>5, <2>1 DEF SpawnCountActive, SpawnGap
  <2>3. ExitGap' = ExitGap
    BY <1>5, <2>1 DEF SpawnCountActive, ExitGap
  <2>4. Cardinality(SpawnGap') = Cardinality(SpawnGap) + 1
    BY <2>2, GapsFinite, FS_AddElement
  <2> QED
    BY <1>1, <1>2, <1>5, <2>3, <2>4 DEF SpawnCountActive
<1>6. ASSUME NEW a \in Actors, SpawnCountTotal(a)
      PROVE  CountersConserved'
  <2>1. SpawnGap' = SpawnGap \ {a} /\ a \in SpawnGap /\ ExitGap' = ExitGap
    BY <1>6 DEF SpawnCountTotal, SpawnGap, ExitGap
  <2>2. Cardinality(SpawnGap') = Cardinality(SpawnGap) - 1
    BY <2>1, GapsFinite, FS_RemoveElement
  <2> QED
    BY <1>1, <1>2, <1>6, <2>1, <2>2 DEF SpawnCountTotal
<1>7. ASSUME NEW a \in Actors, SpawnLoadPeak(a) \/ SpawnCasPeak(a)
      PROVE  CountersConserved'
  BY <1>3, <1>7 DEF SpawnLoadPeak, SpawnCasPeak, LoopOrGo, Same, SpawnGap, ExitGap
<1>8. ASSUME NEW a \in Actors, SpawnStart(a)
      PROVE  CountersConserved'
  <2>1. child[a] \in Strands /\ pc[child[a]] = "counted"
    BY <1>8 DEF SpawnStart, SpawnTree, ChildOf
  <2> QED
    BY <1>3, <1>8, <2>1 DEF SpawnStart, Same, SpawnGap, ExitGap
<1>9. ASSUME NEW s \in Strands, EntryReturns(s)
      PROVE  CountersConserved'
  BY <1>3, <1>9 DEF EntryReturns, Same, SpawnGap, ExitGap
<1>10. ASSUME NEW s \in Strands, ExitDecrement(s)
       PROVE  CountersConserved'
  <2>1. ExitGap' = ExitGap \cup {s} /\ s \notin ExitGap /\ SpawnGap' = SpawnGap
    BY <1>10 DEF ExitDecrement, SpawnGap, ExitGap
  <2>2. Cardinality(ExitGap') = Cardinality(ExitGap) + 1
    BY <2>1, GapsFinite, FS_AddElement
  <2> QED
    BY <1>1, <1>2, <1>10, <2>1, <2>2 DEF ExitDecrement
<1>11. ASSUME NEW s \in Strands, ExitComplete(s)
       PROVE  CountersConserved'
  <2>1. ExitGap' = ExitGap \ {s} /\ s \in ExitGap /\ SpawnGap' = SpawnGap
    BY <1>11 DEF ExitComplete, SpawnGap, ExitGap
  <2>2. Cardinality(ExitGap') = Cardinality(ExitGap) - 1
    BY <2>1, GapsFinite, FS_RemoveElement
  <2> QED
    BY <1>1, <1>2, <1>11, <2>1, <2>2 DEF ExitComplete
<1>12. ASSUME NEW s \in Strands, ExitLock(s)
       PROVE  CountersConserved'
  BY <1>3, <1>12 DEF ExitLock, Same, SpawnGap, ExitGap
<1>13. ASSUME NEW s \in Strands, ExitNotify(s)
       PROVE  CountersConserved'
  BY <1>3, <1>13 DEF ExitNotify, Same, SpawnGap, ExitGap
<1>14. ASSUME NEW t \in Threads,
              WaitLock(t) \/ WaitWake(t) \/ SpuriousWake(t) \/ WaitCheck(t)
       PROVE  CountersConserved'
  BY <1>3, <1>14 DEF WaitLock, WaitWake, SpuriousWake, WaitCheck, Same, SpawnGap, ExitGap
<1>15. ASSUME UNCHANGED vars
       PROVE  CountersConserved'
  BY <1>3, <1>15 DEF vars, Same, SpawnGap, ExitGap
<1> QED
  BY <1>4, <1>5, <1>6, <1>7, <1>8, <1>9, <1>10, <1>11, <1>12, <1>13, <1>14, <1>15
  DEF Next, SpawnSteps, ExitSteps, WaitSteps, Terminated

(* Whatever the order of the counter updates of racing spawns and exits,   *)
(* spawned is completed plus active, up to the strands in between.         *)
THEOREM CountersAccount == Spec => []CountersConserved
<1>1. Init => CountersConserved
  <2> SUFFICES ASSUME Init PROVE CountersConserved
    OBVIOUS
  <2>1. SpawnGap = {} /\ ExitGap = {}
    BY SchedulerConstants DEF Init, SpawnGap, ExitGap, Actors
  <2> QED
    BY <2>1, FS_EmptySet DEF Init, CountersConserved, SpawnGap, ExitGap
<1>2. IInv /\ CountersConserved /\ [Next]_vars => CountersConserved'
  BY ConservedStep
<1> QED
  BY <1>1, <1>2, Invariance, PTL DEF Spec

-----------------------------------------------------------------------------
(***************************************************************************)
(* The weaves.  The inductive invariant adds to the properties themselves  *)
(* the spawn tree and HandleInv: a handle never leaves the program that    *)
(* created its weave, and who waits for an answer is in resume.  Together  *)
(* with Conversation this says why the program does not exit under a weave *)
(* that was resumed but is not counted yet: its caller is blocked in       *)
(* resume, belongs to the same program, and is counted.                    *)
(*                                                                         *)
(* The dump and the report of Diagnostics are treated last: they only      *)
(* read, so what holds of the weaves holds beside them.                    *)
(***************************************************************************)
AllStrandLabels == StrandLabels \cup WeaveLabels \cup {"resuming"}

(* WeaveTypeOK, with the types of what Scheduler's steps use: where the    *)
(* actors are, and what the weaves' channels and handles hold.             *)
Control ==
    /\ ACTIVE_STRANDS \in Nat
    /\ pc \in [Actors -> AllStrandLabels \cup ThreadLabels]
    /\ \A s \in Strands : pc[s] \in AllStrandLabels
    /\ \A t \in Threads : pc[t] \in ThreadLabels
    /\ child \in [Actors -> Plain \cup {None}]
    /\ root \in [Strands -> Threads \cup {None}]

Messages ==
    /\ resume_chan \in [Weaves -> Seq({"Value", "Cancel"})]
    /\ yield_chan \in [Weaves -> Seq({"Value", "Done"})]
    /\ handles \in [Actors -> SUBSET Weaves]
    /\ waitingOn \in [Actors -> Weaves \cup {None}]
    /\ resumes \in [Weaves -> 0..MaxResumes]

Types == Control /\ Messages

HandleInv ==
    \A a \in Actors :
        /\ waitingOn[a] \in Weaves <=> pc[a] = "resuming"
        /\ waitingOn[a] \in Weaves => root[waitingOn[a]] = root[a]
        /\ \A w \in handles[a] : a \in Strands /\ root[w] = root[a] /\ root[w] # None

(* Only a weave is ever about to be counted in.                            *)
PlainInv == \A s \in Plain : pc[s] \notin {"activate", "reactivate"}

Invariants ==
    /\ Types /\ SpawnTree /\ HandleInv /\ PlainInv
    /\ DormantNotCounted /\ Conversation /\ NoCodeAfterExit

-----------------------------------------------------------------------------
(* Types.                                                                  *)

LEMMA TypesMean == Types => WeaveTypeOK
  BY DEF Types, Control, Messages, WeaveTypeOK, AllStrandLabels

LEMMA WeaveCountedFinite ==
    /\ IsFiniteSet(WeaveCounted)
    /\ Cardinality(WeaveCounted) \in Nat
    /\ Cardinality(WeaveCounted) = 0 => WeaveCounted = {}
<1>1. WeaveCounted \in SUBSET Strands
  BY DEF WeaveCounted
<1>2. IsFiniteSet(WeaveCounted)
  BY <1>1, FS_Subset, SchedulerConstants
<1> QED
  BY <1>2, FS_CardinalityType, FS_EmptySet

(* A strand that is counted can be counted out.                            *)
LEMMA SomeoneCounted ==
    ASSUME DormantNotCounted, NEW s \in WeaveCounted
    PROVE  ACTIVE_STRANDS # 0
  BY WeaveCountedFinite DEF DormantNotCounted

LEMMA ControlStep ==
    ASSUME Control, SpawnTree, DormantNotCounted, [WeaveNext]_allVars
    PROVE  Control'
<1> USE SchedulerConstants, WeaveConstants
    DEF Actors, Plain, StrandLabels, ThreadLabels, SpawnLabels, ExitLabels, WaitLabels,
        WeaveLabels, AllStrandLabels,
        counters, locals, history, channels, weaveVars
<1>1. ASSUME NEW a \in Actors, NEW s \in Plain, SpawnPlain(a, s)
      PROVE  Control'
  BY <1>1 DEF SpawnPlain, SpawnTakeId, Control, RootOf, SpawnTree
<1>2. ASSUME NEW a \in Actors, SpawnCountActive(a), UNCHANGED weaveVars
      PROVE  Control'
  <2>1. child[a] \in Strands
    BY <1>2 DEF SpawnCountActive, SpawnTree, ChildOf
  <2> QED
    BY <1>2, <2>1 DEF SpawnCountActive, Control
<1>3. ASSUME NEW a \in Actors, SpawnCountTotal(a), UNCHANGED weaveVars
      PROVE  Control'
  BY <1>3 DEF SpawnCountTotal, Control
<1>4. ASSUME NEW a \in Actors, SpawnLoadPeak(a), UNCHANGED weaveVars
      PROVE  Control'
  BY <1>4 DEF SpawnLoadPeak, LoopOrGo, Control
<1>5. ASSUME NEW a \in Actors, SpawnCasPeak(a), UNCHANGED weaveVars
      PROVE  Control'
  BY <1>5 DEF SpawnCasPeak, LoopOrGo, Control
<1>6. ASSUME NEW a \in Actors, SpawnStart(a), UNCHANGED weaveVars
      PROVE  Control'
  <2>1. child[a] \in Strands
    BY <1>6 DEF SpawnStart, SpawnTree, ChildOf
  <2> QED
    BY <1>6, <2>1 DEF SpawnStart, Control
<1>7. ASSUME NEW s \in Plain, EntryReturns(s), UNCHANGED weaveVars
      PROVE  Control'
  BY <1>7 DEF EntryReturns, Control
<1>8. ASSUME NEW s \in Strands, ExitDecrement(s), UNCHANGED weaveVars
      PROVE  Control'
  <2>1. s \in WeaveCounted
    BY <1>8 DEF ExitDecrement, WeaveCounted, CountedLabels, Control
  <2> QED
    BY <1>8, <2>1, SomeoneCounted DEF ExitDecrement, Control
<1>9. ASSUME NEW s \in Strands, ExitComplete(s), UNCHANGED weaveVars
      PROVE  Control'
  BY <1>9 DEF ExitComplete, Control
<1>10. ASSUME NEW s \in Strands, ExitLock(s), UNCHANGED weaveVars
      PROVE  Control'
  BY <1>10 DEF ExitLock, Control
<1>11. ASSUME NEW s \in Strands, ExitNotify(s), UNCHANGED weaveVars
      PROVE  Control'
  BY <1>11 DEF ExitNotify, Control
<1>12. ASSUME NEW t \in Threads, WaitLock(t) \/ WaitWake(t) \/ SpuriousWake(t), UNCHANGED weaveVars
      PROVE  Control'
  BY <1>12 DEF WaitLock, WaitWake, SpuriousWake, Control
<1>13. ASSUME NEW t \in Threads, WaitCheck(t), UNCHANGED weaveVars
      PROVE  Control'
  BY <1>13 DEF WaitCheck, Control
<1>14. ASSUME NEW a \in Strands, NEW w \in Weaves, CreateWeave(a, w)
      PROVE  Control'
  BY <1>14 DEF CreateWeave, Control, RootOf, SpawnTree
<1>15. ASSUME NEW a \in Strands, NEW w \in Weaves, ResumeSend(a, w)
      PROVE  Control'
  BY <1>15 DEF ResumeSend, Send, Control
<1>16. ASSUME NEW a \in Strands, NEW w \in Weaves, WeaveCancel(a, w)
      PROVE  Control'
  BY <1>16 DEF WeaveCancel, vars, Control
<1>17. ASSUME NEW a \in Strands, ResumeReceive(a)
      PROVE  Control'
  BY <1>17 DEF ResumeReceive, GiveUpHandle, Received, Control
<1>18. ASSUME NEW w \in Weaves, FirstReceive(w)
      PROVE  Control'
  BY <1>18 DEF FirstReceive, Received, Control
<1>19. ASSUME NEW w \in Weaves, NEW from \in {"activate", "reactivate"}, CountIn(w, from)
      PROVE  Control'
  BY <1>19 DEF CountIn, Control
<1>20. ASSUME NEW w \in Weaves, YieldDormant(w)
      PROVE  Control'
  <2>1. w \in WeaveCounted
    BY <1>20 DEF YieldDormant, WeaveCounted, CountedLabels, Control
  <2> QED
    BY <1>20, <2>1, SomeoneCounted DEF YieldDormant, Control
<1>21. ASSUME NEW w \in Weaves, YieldReceive(w)
      PROVE  Control'
  BY <1>21 DEF YieldReceive, Received, Control
<1>22. ASSUME NEW w \in Weaves, YieldCancelled(w)
      PROVE  Control'
  BY <1>22 DEF YieldCancelled, Send, Control
<1>23. ASSUME NEW w \in Weaves, YieldSend(w)
      PROVE  Control'
  BY <1>23 DEF YieldSend, Send, Control
<1>24. ASSUME NEW w \in Weaves, QuotationReturns(w)
      PROVE  Control'
  BY <1>24 DEF QuotationReturns, Send, Control
<1>25. ASSUME UNCHANGED allVars
      PROVE  Control'
  BY <1>25 DEF allVars, vars, Control
<1> QED
  BY <1>1, <1>2, <1>3, <1>4, <1>5, <1>6, <1>7, <1>8, <1>9, <1>10, <1>11,
     <1>12, <1>13, <1>14, <1>15, <1>16, <1>17, <1>18, <1>19, <1>20, <1>21,
     <1>22, <1>23, <1>24, <1>25
  DEF WeaveNext, SchedulerSteps, WeaveSteps, SpawnSteps, ExitSteps, WaitSteps, Activate,
      YieldReactivate, Exited

LEMMA WeaveTreeStep ==
    ASSUME Control, SpawnTree, [WeaveNext]_allVars
    PROVE  SpawnTree'
<1> USE SchedulerConstants, WeaveConstants
    DEF Actors, Plain, StrandLabels, ThreadLabels, SpawnLabels, ExitLabels, WaitLabels,
        WeaveLabels, AllStrandLabels, SpawnTree, ChildOf, RootOf,
        Control, counters, locals, history, channels, weaveVars
<1>1. ASSUME NEW a \in Actors, NEW s \in Plain, SpawnPlain(a, s)
      PROVE  SpawnTree'
  <2>1. SpawnTakeId(a, s) /\ s \in Strands
    BY <1>1 DEF SpawnPlain
  <2> QED
    BY <2>1 DEF SpawnTakeId
<1>2. ASSUME NEW a \in Actors, SpawnCountActive(a), UNCHANGED weaveVars
      PROVE  SpawnTree'
  BY <1>2 DEF SpawnCountActive
<1>3. ASSUME NEW a \in Actors, SpawnCountTotal(a), UNCHANGED weaveVars
      PROVE  SpawnTree'
  BY <1>3 DEF SpawnCountTotal
<1>4. ASSUME NEW a \in Actors, SpawnLoadPeak(a), UNCHANGED weaveVars
      PROVE  SpawnTree'
  BY <1>4 DEF SpawnLoadPeak, LoopOrGo
<1>5. ASSUME NEW a \in Actors, SpawnCasPeak(a), UNCHANGED weaveVars
      PROVE  SpawnTree'
  BY <1>5 DEF SpawnCasPeak, LoopOrGo
<1>6. ASSUME NEW a \in Actors, SpawnStart(a), UNCHANGED weaveVars
      PROVE  SpawnTree'
  <2>1. child[a] \in Strands /\ pc[child[a]] = "counted"
    BY <1>6 DEF SpawnStart
  <2> QED
    BY <1>6, <2>1 DEF SpawnStart
<1>7. ASSUME NEW s \in Plain, EntryReturns(s), UNCHANGED weaveVars
      PROVE  SpawnTree'
  BY <1>7 DEF EntryReturns
<1>8. ASSUME NEW s \in Strands, ExitDecrement(s), UNCHANGED weaveVars
      PROVE  SpawnTree'
  BY <1>8 DEF ExitDecrement
<1>9. ASSUME NEW s \in Strands, ExitComplete(s), UNCHANGED weaveVars
      PROVE  SpawnTree'
  BY <1>9 DEF ExitComplete
<1>10. ASSUME NEW s \in Strands, ExitLock(s), UNCHANGED weaveVars
      PROVE  SpawnTree'
  BY <1>10 DEF ExitLock
<1>11. ASSUME NEW s \in Strands, ExitNotify(s), UNCHANGED weaveVars
      PROVE  SpawnTree'
  BY <1>11 DEF ExitNotify
<1>12. ASSUME NEW t \in Threads, WaitLock(t) \/ WaitWake(t) \/ SpuriousWake(t), UNCHANGED weaveVars
      PROVE  SpawnTree'
  <2>1. CASE WaitLock(t)
    BY <2>1 DEF WaitLock
  <2>2. CASE WaitWake(t)
    BY <2>2 DEF WaitWake
  <2>3. CASE SpuriousWake(t)
    BY <2>3 DEF SpuriousWake
  <2> QED
    BY <1>12, <2>1, <2>2, <2>3
<1>13. ASSUME NEW t \in Threads, WaitCheck(t), UNCHANGED weaveVars
      PROVE  SpawnTree'
  BY <1>13 DEF WaitCheck
<1>14. ASSUME NEW a \in Strands, NEW w \in Weaves, CreateWeave(a, w)
      PROVE  SpawnTree'
  BY <1>14 DEF CreateWeave
<1>15. ASSUME NEW a \in Strands, NEW w \in Weaves, ResumeSend(a, w)
      PROVE  SpawnTree'
  BY <1>15 DEF ResumeSend, Send
<1>16. ASSUME NEW a \in Strands, NEW w \in Weaves, WeaveCancel(a, w)
      PROVE  SpawnTree'
  <2>1. UNCHANGED vars
    BY <1>16 DEF WeaveCancel
  <2> QED
    BY <2>1 DEF vars
<1>17. ASSUME NEW a \in Strands, ResumeReceive(a)
      PROVE  SpawnTree'
  BY <1>17 DEF ResumeReceive, GiveUpHandle, Received
<1>18. ASSUME NEW w \in Weaves, FirstReceive(w)
      PROVE  SpawnTree'
  BY <1>18 DEF FirstReceive, Received
<1>19. ASSUME NEW w \in Weaves, NEW from \in {"activate", "reactivate"}, CountIn(w, from)
      PROVE  SpawnTree'
  BY <1>19 DEF CountIn
<1>20. ASSUME NEW w \in Weaves, YieldDormant(w)
      PROVE  SpawnTree'
  BY <1>20 DEF YieldDormant
<1>21. ASSUME NEW w \in Weaves, YieldReceive(w)
      PROVE  SpawnTree'
  BY <1>21 DEF YieldReceive, Received
<1>22. ASSUME NEW w \in Weaves, YieldCancelled(w)
      PROVE  SpawnTree'
  BY <1>22 DEF YieldCancelled, Send
<1>23. ASSUME NEW w \in Weaves, YieldSend(w)
      PROVE  SpawnTree'
  BY <1>23 DEF YieldSend, Send
<1>24. ASSUME NEW w \in Weaves, QuotationReturns(w)
      PROVE  SpawnTree'
  BY <1>24 DEF QuotationReturns, Send
<1>25. ASSUME UNCHANGED allVars
      PROVE  SpawnTree'
  BY <1>25 DEF allVars, vars
<1> QED
  BY <1>1, <1>2, <1>3, <1>4, <1>5, <1>6, <1>7, <1>8, <1>9, <1>10, <1>11,
     <1>12, <1>13, <1>14, <1>15, <1>16, <1>17, <1>18, <1>19, <1>20, <1>21,
     <1>22, <1>23, <1>24, <1>25
  DEF WeaveNext, SchedulerSteps, WeaveSteps, SpawnSteps, ExitSteps, WaitSteps, Activate,
      YieldReactivate, Exited

LEMMA MessagesStep ==
    ASSUME Control, Messages, HandleInv, [WeaveNext]_allVars
    PROVE  Messages'
<1> USE SchedulerConstants, WeaveConstants
    DEF Actors, Plain, Messages, counters, locals, history, channels, weaveVars
<1>1. ASSUME NEW a \in Actors, NEW s \in Plain, SpawnPlain(a, s)
      PROVE  Messages'
  BY <1>1 DEF SpawnPlain, HandlesFor
<1>2. ASSUME NEW a \in Actors, SpawnCountActive(a), UNCHANGED weaveVars
      PROVE  Messages'
  BY <1>2 DEF SpawnCountActive
<1>3. ASSUME NEW a \in Actors, SpawnCountTotal(a), UNCHANGED weaveVars
      PROVE  Messages'
  BY <1>3 DEF SpawnCountTotal
<1>4. ASSUME NEW a \in Actors, SpawnLoadPeak(a), UNCHANGED weaveVars
      PROVE  Messages'
  BY <1>4 DEF SpawnLoadPeak, LoopOrGo
<1>5. ASSUME NEW a \in Actors, SpawnCasPeak(a), UNCHANGED weaveVars
      PROVE  Messages'
  BY <1>5 DEF SpawnCasPeak, LoopOrGo
<1>6. ASSUME NEW a \in Actors, SpawnStart(a), UNCHANGED weaveVars
      PROVE  Messages'
  BY <1>6 DEF SpawnStart
<1>7. ASSUME NEW s \in Plain, EntryReturns(s), UNCHANGED weaveVars
      PROVE  Messages'
  BY <1>7 DEF EntryReturns
<1>8. ASSUME NEW s \in Strands, ExitDecrement(s), UNCHANGED weaveVars
      PROVE  Messages'
  BY <1>8 DEF ExitDecrement
<1>9. ASSUME NEW s \in Strands, ExitComplete(s), UNCHANGED weaveVars
      PROVE  Messages'
  BY <1>9 DEF ExitComplete
<1>10. ASSUME NEW s \in Strands, ExitLock(s), UNCHANGED weaveVars
      PROVE  Messages'
  BY <1>10 DEF ExitLock
<1>11. ASSUME NEW s \in Strands, ExitNotify(s), UNCHANGED weaveVars
      PROVE  Messages'
  BY <1>11 DEF ExitNotify
<1>12. ASSUME NEW t \in Threads, WaitLock(t) \/ WaitWake(t) \/ SpuriousWake(t), UNCHANGED weaveVars
      PROVE  Messages'
  BY <1>12 DEF WaitLock, WaitWake, SpuriousWake
<1>13. ASSUME NEW t \in Threads, WaitCheck(t), UNCHANGED weaveVars
      PROVE  Messages'
  BY <1>13 DEF WaitCheck
<1>14. ASSUME NEW a \in Strands, NEW w \in Weaves, CreateWeave(a, w)
      PROVE  Messages'
  BY <1>14, ZenonT(60) DEF CreateWeave, HandlesFor
<1>15. ASSUME NEW a \in Strands, NEW w \in Weaves, ResumeSend(a, w)
      PROVE  Messages'
  BY <1>15 DEF ResumeSend, Send
<1>16. ASSUME NEW a \in Strands, NEW w \in Weaves, WeaveCancel(a, w)
      PROVE  Messages'
  <2>1. handles' = [handles EXCEPT ![a] = @ \ {w}] \/ handles' = handles
    BY <1>16 DEF WeaveCancel, GiveUpHandle
  <2>2. handles' \in [Actors -> SUBSET Weaves]
    BY <2>1
  <2>3. /\ resume_chan' = [resume_chan EXCEPT ![w] = Append(@, "Cancel")]
        /\ resumes' = [resumes EXCEPT ![w] = @ + 1] /\ resumes[w] < MaxResumes
        /\ UNCHANGED <<yield_chan, waitingOn>>
    BY <1>16 DEF WeaveCancel, Send
  <2> QED
    BY <2>2, <2>3
<1>17. ASSUME NEW a \in Strands, ResumeReceive(a)
      PROVE  Messages'
  <2>1. waitingOn[a] \in Weaves
    BY <1>17 DEF ResumeReceive, HandleInv
  <2>2. Tail(yield_chan[waitingOn[a]]) \in Seq({"Value", "Done"})
    BY <1>17, <2>1 DEF ResumeReceive
  <2>3. handles' \in [Actors -> SUBSET Weaves]
    BY <1>17, <2>1 DEF ResumeReceive, GiveUpHandle
  <2>4. /\ yield_chan' = [yield_chan EXCEPT ![waitingOn[a]] = Tail(@)]
        /\ waitingOn' = [waitingOn EXCEPT ![a] = None]
        /\ UNCHANGED <<resume_chan, resumes>>
    BY <1>17 DEF ResumeReceive, Received
  <2> QED
    BY <2>1, <2>2, <2>3, <2>4
<1>18. ASSUME NEW w \in Weaves, FirstReceive(w)
      PROVE  Messages'
  BY <1>18 DEF FirstReceive, Received
<1>19. ASSUME NEW w \in Weaves, NEW from \in {"activate", "reactivate"}, CountIn(w, from)
      PROVE  Messages'
  BY <1>19 DEF CountIn
<1>20. ASSUME NEW w \in Weaves, YieldDormant(w)
      PROVE  Messages'
  BY <1>20 DEF YieldDormant
<1>21. ASSUME NEW w \in Weaves, YieldReceive(w)
      PROVE  Messages'
  BY <1>21 DEF YieldReceive, Received
<1>22. ASSUME NEW w \in Weaves, YieldCancelled(w)
      PROVE  Messages'
  BY <1>22 DEF YieldCancelled, Send
<1>23. ASSUME NEW w \in Weaves, YieldSend(w)
      PROVE  Messages'
  BY <1>23 DEF YieldSend, Send
<1>24. ASSUME NEW w \in Weaves, QuotationReturns(w)
      PROVE  Messages'
  BY <1>24 DEF QuotationReturns, Send
<1>25. ASSUME UNCHANGED allVars
      PROVE  Messages'
  BY <1>25 DEF allVars, vars
<1> QED
  BY <1>1, <1>2, <1>3, <1>4, <1>5, <1>6, <1>7, <1>8, <1>9, <1>10, <1>11,
     <1>12, <1>13, <1>14, <1>15, <1>16, <1>17, <1>18, <1>19, <1>20, <1>21,
     <1>22, <1>23, <1>24, <1>25
  DEF WeaveNext, SchedulerSteps, WeaveSteps, SpawnSteps, ExitSteps, WaitSteps, Activate,
      YieldReactivate, Exited

LEMMA HandleStep ==
    ASSUME Types, SpawnTree, HandleInv, [WeaveNext]_allVars
    PROVE  HandleInv'
<1> USE SchedulerConstants, WeaveConstants
    DEF Actors, Plain, StrandLabels, ThreadLabels, SpawnLabels, ExitLabels, WaitLabels,
        WeaveLabels, AllStrandLabels, SpawnTree, ChildOf, RootOf,
        HandleInv, HandlesFor, Types, Control, Messages, counters, locals, history, channels,
        weaveVars
<1>1. ASSUME NEW a \in Actors, NEW s \in Plain, SpawnPlain(a, s)
      PROVE  HandleInv'
  BY <1>1 DEF SpawnPlain, SpawnTakeId
<1>2. ASSUME NEW a \in Actors, SpawnCountActive(a), UNCHANGED weaveVars
      PROVE  HandleInv'
  BY <1>2 DEF SpawnCountActive
<1>3. ASSUME NEW a \in Actors, SpawnCountTotal(a), UNCHANGED weaveVars
      PROVE  HandleInv'
  BY <1>3 DEF SpawnCountTotal
<1>4. ASSUME NEW a \in Actors, SpawnLoadPeak(a), UNCHANGED weaveVars
      PROVE  HandleInv'
  BY <1>4 DEF SpawnLoadPeak, LoopOrGo
<1>5. ASSUME NEW a \in Actors, SpawnCasPeak(a), UNCHANGED weaveVars
      PROVE  HandleInv'
  BY <1>5 DEF SpawnCasPeak, LoopOrGo
<1>6. ASSUME NEW a \in Actors, SpawnStart(a), UNCHANGED weaveVars
      PROVE  HandleInv'
  <2>1. child[a] \in Strands /\ pc[child[a]] = "counted"
    BY <1>6 DEF SpawnStart
  <2> QED
    BY <1>6, <2>1 DEF SpawnStart
<1>7. ASSUME NEW s \in Plain, EntryReturns(s), UNCHANGED weaveVars
      PROVE  HandleInv'
  BY <1>7 DEF EntryReturns
<1>8. ASSUME NEW s \in Strands, ExitDecrement(s), UNCHANGED weaveVars
      PROVE  HandleInv'
  BY <1>8 DEF ExitDecrement
<1>9. ASSUME NEW s \in Strands, ExitComplete(s), UNCHANGED weaveVars
      PROVE  HandleInv'
  BY <1>9 DEF ExitComplete
<1>10. ASSUME NEW s \in Strands, ExitLock(s), UNCHANGED weaveVars
      PROVE  HandleInv'
  BY <1>10 DEF ExitLock
<1>11. ASSUME NEW s \in Strands, ExitNotify(s), UNCHANGED weaveVars
      PROVE  HandleInv'
  BY <1>11 DEF ExitNotify
<1>12. ASSUME NEW t \in Threads, WaitLock(t) \/ WaitWake(t) \/ SpuriousWake(t), UNCHANGED weaveVars
      PROVE  HandleInv'
  BY <1>12 DEF WaitLock, WaitWake, SpuriousWake
<1>13. ASSUME NEW t \in Threads, WaitCheck(t), UNCHANGED weaveVars
      PROVE  HandleInv'
  BY <1>13 DEF WaitCheck
<1>14. ASSUME NEW a \in Strands, NEW w \in Weaves, CreateWeave(a, w)
      PROVE  HandleInv'
  <2>1. /\ a # w /\ root[a] # None /\ root[w] = None /\ root' = [root EXCEPT ![w] = root[a]]
        /\ waitingOn' = waitingOn
        /\ pc' = [pc EXCEPT ![w] = "dormant"]
    BY <1>14 DEF CreateWeave
  <2>2. handles'[a] = handles[a] \cup {w} /\ handles'[w] \subseteq handles[a]
    BY <1>14, <2>1 DEF CreateWeave
  <2>3. \A b \in Actors \ {a, w} : handles'[b] = handles[b]
    BY <1>14, <2>1 DEF CreateWeave
  <2>4. \A x \in Weaves : root[x] # None => x # w /\ root'[x] = root[x]
    BY <2>1
  <2>5. ASSUME NEW b \in Actors
        PROVE  /\ waitingOn'[b] \in Weaves <=> pc'[b] = "resuming"
               /\ waitingOn'[b] \in Weaves => root'[waitingOn'[b]] = root'[b]
    <3>1. waitingOn[w] \notin Weaves
      BY <1>14 DEF CreateWeave
    <3>2. waitingOn[b] \in Weaves => b # w /\ b \in Strands /\ root[b] # None
      BY <3>1
    <3>3. waitingOn'[b] = waitingOn[b] /\ (b # w => pc'[b] = pc[b]) /\ pc'[w] = "dormant"
      BY <2>1
    <3>4. waitingOn[b] \in Weaves => root'[waitingOn[b]] = root'[b]
      BY <2>1, <2>4, <3>2
    <3> QED
      BY <3>1, <3>2, <3>3, <3>4
  <2>6. ASSUME NEW b \in Actors, NEW x \in handles'[b]
        PROVE  b \in Strands /\ root'[x] = root'[b] /\ root'[x] # None
    <3>1. CASE b = a
      BY <2>1, <2>2, <2>4, <2>6, <3>1
    <3>2. CASE b = w
      BY <2>1, <2>2, <2>4, <2>6, <3>2
    <3>3. CASE b # a /\ b # w
      BY <2>1, <2>3, <2>4, <2>6, <3>3
    <3> QED
      BY <3>1, <3>2, <3>3
  <2> QED
    BY <2>5, <2>6
<1>15. ASSUME NEW a \in Strands, NEW w \in Weaves, ResumeSend(a, w)
      PROVE  HandleInv'
  BY <1>15 DEF ResumeSend, Send
<1>16. ASSUME NEW a \in Strands, NEW w \in Weaves, WeaveCancel(a, w)
      PROVE  HandleInv'
  <2>1. UNCHANGED <<pc, root, waitingOn>>
    BY <1>16 DEF WeaveCancel, vars
  <2>2. handles' = [handles EXCEPT ![a] = @ \ {w}] \/ handles' = handles
    BY <1>16 DEF WeaveCancel, GiveUpHandle
  <2>3. ASSUME NEW b \in Actors PROVE handles'[b] \subseteq handles[b]
    <3>1. CASE handles' = handles
      BY <3>1
    <3>2. CASE handles' = [handles EXCEPT ![a] = @ \ {w}]
      <4>1. handles'[b] = IF b = a THEN handles[a] \ {w} ELSE handles[b]
        BY <3>2
      <4> QED
        BY <4>1
    <3> QED
      BY <2>2, <3>1, <3>2
  <2> QED
    BY <2>1, <2>3
<1>17. ASSUME NEW a \in Strands, ResumeReceive(a)
      PROVE  HandleInv'
  BY <1>17 DEF ResumeReceive, GiveUpHandle, Received
<1>18. ASSUME NEW w \in Weaves, FirstReceive(w)
      PROVE  HandleInv'
  BY <1>18 DEF FirstReceive, Received
<1>19. ASSUME NEW w \in Weaves, NEW from \in {"activate", "reactivate"}, CountIn(w, from)
      PROVE  HandleInv'
  BY <1>19 DEF CountIn
<1>20. ASSUME NEW w \in Weaves, YieldDormant(w)
      PROVE  HandleInv'
  BY <1>20 DEF YieldDormant
<1>21. ASSUME NEW w \in Weaves, YieldReceive(w)
      PROVE  HandleInv'
  BY <1>21 DEF YieldReceive, Received
<1>22. ASSUME NEW w \in Weaves, YieldCancelled(w)
      PROVE  HandleInv'
  BY <1>22 DEF YieldCancelled, Send
<1>23. ASSUME NEW w \in Weaves, YieldSend(w)
      PROVE  HandleInv'
  BY <1>23 DEF YieldSend, Send
<1>24. ASSUME NEW w \in Weaves, QuotationReturns(w)
      PROVE  HandleInv'
  BY <1>24 DEF QuotationReturns, Send
<1>25. ASSUME UNCHANGED allVars
      PROVE  HandleInv'
  BY <1>25 DEF allVars, vars
<1> QED
  BY <1>1, <1>2, <1>3, <1>4, <1>5, <1>6, <1>7, <1>8, <1>9, <1>10, <1>11,
     <1>12, <1>13, <1>14, <1>15, <1>16, <1>17, <1>18, <1>19, <1>20, <1>21,
     <1>22, <1>23, <1>24, <1>25
  DEF WeaveNext, SchedulerSteps, WeaveSteps, SpawnSteps, ExitSteps, WaitSteps, Activate,
      YieldReactivate, Exited

LEMMA PlainStep ==
    ASSUME Control, SpawnTree, PlainInv, [WeaveNext]_allVars
    PROVE  PlainInv'
<1> USE SchedulerConstants, WeaveConstants
    DEF Actors, Plain, SpawnLabels, PlainInv, Control, counters, locals, history, channels,
        weaveVars
<1>1. ASSUME NEW a \in Actors, NEW s \in Plain, SpawnPlain(a, s)
      PROVE  PlainInv'
  BY <1>1 DEF SpawnPlain, SpawnTakeId
<1>2. ASSUME NEW a \in Actors, SpawnCountActive(a), UNCHANGED weaveVars
      PROVE  PlainInv'
  <2>1. child[a] \in Strands /\ pc[child[a]] = "reserved"
    BY <1>2 DEF SpawnCountActive, SpawnTree, ChildOf
  <2> QED
    BY <1>2, <2>1 DEF SpawnCountActive
<1>3. ASSUME NEW a \in Actors, SpawnCountTotal(a), UNCHANGED weaveVars
      PROVE  PlainInv'
  BY <1>3 DEF SpawnCountTotal
<1>4. ASSUME NEW a \in Actors, SpawnLoadPeak(a), UNCHANGED weaveVars
      PROVE  PlainInv'
  BY <1>4 DEF SpawnLoadPeak, LoopOrGo
<1>5. ASSUME NEW a \in Actors, SpawnCasPeak(a), UNCHANGED weaveVars
      PROVE  PlainInv'
  BY <1>5 DEF SpawnCasPeak, LoopOrGo
<1>6. ASSUME NEW a \in Actors, SpawnStart(a), UNCHANGED weaveVars
      PROVE  PlainInv'
  <2>1. child[a] \in Strands /\ pc[child[a]] = "counted"
    BY <1>6 DEF SpawnStart, SpawnTree, ChildOf
  <2> QED
    BY <1>6, <2>1 DEF SpawnStart
<1>7. ASSUME NEW s \in Plain, EntryReturns(s), UNCHANGED weaveVars
      PROVE  PlainInv'
  BY <1>7 DEF EntryReturns
<1>8. ASSUME NEW s \in Strands, ExitDecrement(s), UNCHANGED weaveVars
      PROVE  PlainInv'
  BY <1>8 DEF ExitDecrement
<1>9. ASSUME NEW s \in Strands, ExitComplete(s), UNCHANGED weaveVars
      PROVE  PlainInv'
  BY <1>9 DEF ExitComplete
<1>10. ASSUME NEW s \in Strands, ExitLock(s), UNCHANGED weaveVars
      PROVE  PlainInv'
  BY <1>10 DEF ExitLock
<1>11. ASSUME NEW s \in Strands, ExitNotify(s), UNCHANGED weaveVars
      PROVE  PlainInv'
  BY <1>11 DEF ExitNotify
<1>12. ASSUME NEW t \in Threads, WaitLock(t) \/ WaitWake(t) \/ SpuriousWake(t), UNCHANGED weaveVars
      PROVE  PlainInv'
  BY <1>12 DEF WaitLock, WaitWake, SpuriousWake
<1>13. ASSUME NEW t \in Threads, WaitCheck(t), UNCHANGED weaveVars
      PROVE  PlainInv'
  BY <1>13 DEF WaitCheck
<1>14. ASSUME NEW a \in Strands, NEW w \in Weaves, CreateWeave(a, w)
      PROVE  PlainInv'
  BY <1>14 DEF CreateWeave
<1>15. ASSUME NEW a \in Strands, NEW w \in Weaves, ResumeSend(a, w)
      PROVE  PlainInv'
  BY <1>15 DEF ResumeSend, Send
<1>16. ASSUME NEW a \in Strands, NEW w \in Weaves, WeaveCancel(a, w)
      PROVE  PlainInv'
  BY <1>16 DEF WeaveCancel, vars
<1>17. ASSUME NEW a \in Strands, ResumeReceive(a)
      PROVE  PlainInv'
  BY <1>17 DEF ResumeReceive, GiveUpHandle, Received
<1>18. ASSUME NEW w \in Weaves, FirstReceive(w)
      PROVE  PlainInv'
  BY <1>18 DEF FirstReceive, Received
<1>19. ASSUME NEW w \in Weaves, NEW from \in {"activate", "reactivate"}, CountIn(w, from)
      PROVE  PlainInv'
  BY <1>19 DEF CountIn
<1>20. ASSUME NEW w \in Weaves, YieldDormant(w)
      PROVE  PlainInv'
  BY <1>20 DEF YieldDormant
<1>21. ASSUME NEW w \in Weaves, YieldReceive(w)
      PROVE  PlainInv'
  BY <1>21 DEF YieldReceive, Received
<1>22. ASSUME NEW w \in Weaves, YieldCancelled(w)
      PROVE  PlainInv'
  BY <1>22 DEF YieldCancelled, Send
<1>23. ASSUME NEW w \in Weaves, YieldSend(w)
      PROVE  PlainInv'
  BY <1>23 DEF YieldSend, Send
<1>24. ASSUME NEW w \in Weaves, QuotationReturns(w)
      PROVE  PlainInv'
  BY <1>24 DEF QuotationReturns, Send
<1>25. ASSUME UNCHANGED allVars
      PROVE  PlainInv'
  BY <1>25 DEF allVars, vars
<1> QED
  BY <1>1, <1>2, <1>3, <1>4, <1>5, <1>6, <1>7, <1>8, <1>9, <1>10, <1>11,
     <1>12, <1>13, <1>14, <1>15, <1>16, <1>17, <1>18, <1>19, <1>20, <1>21,
     <1>22, <1>23, <1>24, <1>25
  DEF WeaveNext, SchedulerSteps, WeaveSteps, SpawnSteps, ExitSteps, WaitSteps, Activate,
      YieldReactivate, Exited

-----------------------------------------------------------------------------
(* ACTIVE_STRANDS counts the strands and weaves that are in user code.     *)

CountKept == WeaveCounted' = WeaveCounted /\ ACTIVE_STRANDS' = ACTIVE_STRANDS

OneCounted(s) ==
    /\ s \in Strands \ WeaveCounted
    /\ WeaveCounted' = WeaveCounted \cup {s}
    /\ ACTIVE_STRANDS' = ACTIVE_STRANDS + 1

OneUncounted(s) ==
    /\ s \in WeaveCounted
    /\ WeaveCounted' = WeaveCounted \ {s}
    /\ ACTIVE_STRANDS' = ACTIVE_STRANDS - 1

CountMoves == CountKept \/ \E s \in Strands : OneCounted(s) \/ OneUncounted(s)

LEMMA CountStep ==
    ASSUME Control, SpawnTree, [WeaveNext]_allVars
    PROVE  CountMoves
<1> USE SchedulerConstants, WeaveConstants
    DEF Actors, Plain, SpawnLabels, WeaveCounted, CountedLabels, Control, CountMoves, CountKept,
        OneCounted, OneUncounted, counters, locals, history, channels, weaveVars
<1>1. ASSUME NEW a \in Actors, NEW s \in Plain, SpawnPlain(a, s)
      PROVE  CountMoves
  BY <1>1 DEF SpawnPlain, SpawnTakeId
<1>2. ASSUME NEW a \in Actors, SpawnCountActive(a), UNCHANGED weaveVars
      PROVE  CountMoves
  <2>1. child[a] \in Strands /\ pc[child[a]] = "reserved"
    BY <1>2 DEF SpawnCountActive, SpawnTree, ChildOf
  <2>2. OneCounted(child[a])
    BY <1>2, <2>1 DEF SpawnCountActive
  <2> QED
    BY <2>1, <2>2
<1>3. ASSUME NEW a \in Actors, SpawnCountTotal(a), UNCHANGED weaveVars
      PROVE  CountMoves
  BY <1>3 DEF SpawnCountTotal
<1>4. ASSUME NEW a \in Actors, SpawnLoadPeak(a), UNCHANGED weaveVars
      PROVE  CountMoves
  BY <1>4 DEF SpawnLoadPeak, LoopOrGo
<1>5. ASSUME NEW a \in Actors, SpawnCasPeak(a), UNCHANGED weaveVars
      PROVE  CountMoves
  BY <1>5 DEF SpawnCasPeak, LoopOrGo
<1>6. ASSUME NEW a \in Actors, SpawnStart(a), UNCHANGED weaveVars
      PROVE  CountMoves
  <2>1. child[a] \in Strands /\ pc[child[a]] = "counted"
    BY <1>6 DEF SpawnStart, SpawnTree, ChildOf
  <2> QED
    BY <1>6, <2>1 DEF SpawnStart
<1>7. ASSUME NEW s \in Plain, EntryReturns(s), UNCHANGED weaveVars
      PROVE  CountMoves
  BY <1>7 DEF EntryReturns
<1>8. ASSUME NEW s \in Strands, ExitDecrement(s), UNCHANGED weaveVars
      PROVE  CountMoves
  <2>1. OneUncounted(s)
    BY <1>8 DEF ExitDecrement
  <2> QED
    BY <2>1
<1>9. ASSUME NEW s \in Strands, ExitComplete(s), UNCHANGED weaveVars
      PROVE  CountMoves
  BY <1>9 DEF ExitComplete
<1>10. ASSUME NEW s \in Strands, ExitLock(s), UNCHANGED weaveVars
      PROVE  CountMoves
  BY <1>10 DEF ExitLock
<1>11. ASSUME NEW s \in Strands, ExitNotify(s), UNCHANGED weaveVars
      PROVE  CountMoves
  BY <1>11 DEF ExitNotify
<1>12. ASSUME NEW t \in Threads, WaitLock(t) \/ WaitWake(t) \/ SpuriousWake(t), UNCHANGED weaveVars
      PROVE  CountMoves
  BY <1>12 DEF WaitLock, WaitWake, SpuriousWake
<1>13. ASSUME NEW t \in Threads, WaitCheck(t), UNCHANGED weaveVars
      PROVE  CountMoves
  BY <1>13 DEF WaitCheck
<1>14. ASSUME NEW a \in Strands, NEW w \in Weaves, CreateWeave(a, w)
      PROVE  CountMoves
  BY <1>14 DEF CreateWeave
<1>15. ASSUME NEW a \in Strands, NEW w \in Weaves, ResumeSend(a, w)
      PROVE  CountMoves
  BY <1>15 DEF ResumeSend, Send
<1>16. ASSUME NEW a \in Strands, NEW w \in Weaves, WeaveCancel(a, w)
      PROVE  CountMoves
  BY <1>16 DEF WeaveCancel, vars
<1>17. ASSUME NEW a \in Strands, ResumeReceive(a)
      PROVE  CountMoves
  BY <1>17 DEF ResumeReceive, GiveUpHandle, Received
<1>18. ASSUME NEW w \in Weaves, FirstReceive(w)
      PROVE  CountMoves
  BY <1>18 DEF FirstReceive, Received
<1>19. ASSUME NEW w \in Weaves, NEW from \in {"activate", "reactivate"}, CountIn(w, from)
      PROVE  CountMoves
  <2>1. OneCounted(w)
    BY <1>19 DEF CountIn
  <2> QED
    BY <2>1
<1>20. ASSUME NEW w \in Weaves, YieldDormant(w)
      PROVE  CountMoves
  <2>1. OneUncounted(w)
    BY <1>20 DEF YieldDormant
  <2> QED
    BY <2>1
<1>21. ASSUME NEW w \in Weaves, YieldReceive(w)
      PROVE  CountMoves
  BY <1>21 DEF YieldReceive, Received
<1>22. ASSUME NEW w \in Weaves, YieldCancelled(w)
      PROVE  CountMoves
  BY <1>22 DEF YieldCancelled, Send
<1>23. ASSUME NEW w \in Weaves, YieldSend(w)
      PROVE  CountMoves
  BY <1>23 DEF YieldSend, Send
<1>24. ASSUME NEW w \in Weaves, QuotationReturns(w)
      PROVE  CountMoves
  BY <1>24 DEF QuotationReturns, Send
<1>25. ASSUME UNCHANGED allVars
      PROVE  CountMoves
  BY <1>25 DEF allVars, vars
<1> QED
  BY <1>1, <1>2, <1>3, <1>4, <1>5, <1>6, <1>7, <1>8, <1>9, <1>10, <1>11,
     <1>12, <1>13, <1>14, <1>15, <1>16, <1>17, <1>18, <1>19, <1>20, <1>21,
     <1>22, <1>23, <1>24, <1>25
  DEF WeaveNext, SchedulerSteps, WeaveSteps, SpawnSteps, ExitSteps, WaitSteps, Activate,
      YieldReactivate, Exited

LEMMA DormantStep ==
    ASSUME Control, SpawnTree, DormantNotCounted, [WeaveNext]_allVars
    PROVE  DormantNotCounted'
<1>1. CASE CountKept
  BY <1>1 DEF CountKept, DormantNotCounted
<1>2. ASSUME NEW s \in Strands, OneCounted(s)
      PROVE  DormantNotCounted'
  BY <1>2, WeaveCountedFinite, FS_AddElement DEF OneCounted, DormantNotCounted
<1>3. ASSUME NEW s \in Strands, OneUncounted(s)
      PROVE  DormantNotCounted'
  BY <1>3, WeaveCountedFinite, FS_RemoveElement DEF OneUncounted, DormantNotCounted
<1> QED
  BY <1>1, <1>2, <1>3, CountStep DEF CountMoves

-----------------------------------------------------------------------------
(* Counting the values in a queue.                                         *)

ValueSpots(q) == {i \in 1..Len(q) : q[i] = "Value"}
One(msg) == IF msg = "Value" THEN 1 ELSE 0

LEMMA SpotsFinite ==
    ASSUME NEW S, NEW q \in Seq(S)
    PROVE  IsFiniteSet(ValueSpots(q)) /\ ValuesIn(q) \in Nat
<1>1. Len(q) \in Nat
  BY LenProperties
<1>2. IsFiniteSet(1..Len(q)) /\ ValueSpots(q) \in SUBSET (1..Len(q))
  BY <1>1, FS_Interval DEF ValueSpots
<1> QED
  BY <1>2, FS_Subset, FS_CardinalityType DEF ValuesIn, ValueSpots

LEMMA ValuesAppend ==
    ASSUME NEW S, NEW q \in Seq(S), NEW msg \in S
    PROVE  ValuesIn(Append(q, msg)) = ValuesIn(q) + One(msg)
<1> DEFINE n == Len(q)
<1> DEFINE new == Append(q, msg)
<1>1. /\ n \in Nat /\ Len(new) = n + 1
      /\ \A i \in 1..n : new[i] = q[i]
      /\ new[n + 1] = msg
  BY AppendProperties, LenProperties
<1> HIDE DEF new
<1>2. \A i : i \in 1..(n + 1) <=> i \in 1..n \/ i = n + 1
  BY <1>1
<1>3. n + 1 \notin 1..n
  BY <1>1
<1>4. ValueSpots(new) = IF msg = "Value" THEN ValueSpots(q) \cup {n + 1} ELSE ValueSpots(q)
  BY <1>1, <1>2 DEF ValueSpots
<1>5. n + 1 \notin ValueSpots(q)
  BY <1>3 DEF ValueSpots
<1>6. IsFiniteSet(ValueSpots(q)) /\ ValuesIn(q) \in Nat
  BY SpotsFinite
<1>7. ValuesIn(q) = Cardinality(ValueSpots(q)) /\ ValuesIn(new) = Cardinality(ValueSpots(new))
  BY DEF ValuesIn, ValueSpots
<1> HIDE DEF n
<1>8. Cardinality(ValueSpots(q) \cup {n + 1}) = Cardinality(ValueSpots(q)) + 1
  BY <1>5, <1>6, FS_AddElement
<1>9. CASE msg = "Value"
  BY <1>4, <1>7, <1>8, <1>9 DEF One, new
<1>10. CASE msg # "Value"
  BY <1>4, <1>6, <1>7, <1>10 DEF One, new
<1> QED
  BY <1>9, <1>10

(* The spots after the first, shifted down, are those of the tail.         *)
LEMMA ValuesTail ==
    ASSUME NEW S, NEW q \in Seq(S), q # <<>>
    PROVE  ValuesIn(q) = ValuesIn(Tail(q)) + One(Head(q))
<1> DEFINE n == Len(q)
<1> DEFINE rest == Tail(q)
<1>1. /\ n \in Nat /\ n >= 1 /\ Head(q) = q[1]
      /\ rest \in Seq(S) /\ Len(rest) = n - 1
      /\ \A i \in 1..(n - 1) : rest[i] = q[i + 1]
  BY HeadTailProperties, LenProperties, EmptySeq
<1> HIDE DEF rest
<1> DEFINE later == ValueSpots(q) \ {1}
<1> DEFINE shift == [i \in ValueSpots(rest) |-> i + 1]
<1>2. \A i : i \in ValueSpots(rest) <=> i \in 1..(n - 1) /\ q[i + 1] = "Value"
  BY <1>1 DEF ValueSpots
<1>3. \A i : i \in later <=> i \in 2..n /\ q[i] = "Value"
  BY <1>1 DEF ValueSpots
<1> HIDE DEF later
<1>4. shift \in Bijection(ValueSpots(rest), later)
  <2>1. shift \in [ValueSpots(rest) -> later]
    BY <1>1, <1>2, <1>3
  <2>2. \A i, j \in ValueSpots(rest) : shift[i] = shift[j] => i = j
    BY <1>1, <1>2
  <2>3. \A j \in later : \E i \in ValueSpots(rest) : shift[i] = j
    <3> SUFFICES ASSUME NEW j \in later PROVE \E i \in ValueSpots(rest) : shift[i] = j
      OBVIOUS
    <3>1. j - 1 \in 1..(n - 1) /\ (j - 1) + 1 = j /\ q[j] = "Value"
      BY <1>1, <1>3
    <3>2. j - 1 \in ValueSpots(rest)
      BY <1>2, <3>1
    <3> QED
      BY <3>1, <3>2
  <2> QED
    BY <2>1, <2>2, <2>3 DEF Bijection, Injection, Surjection, IsInjective
<1>5. IsFiniteSet(ValueSpots(rest)) /\ ValuesIn(rest) \in Nat /\ IsFiniteSet(ValueSpots(q))
      /\ ValuesIn(q) \in Nat
  BY <1>1, SpotsFinite
<1>6. Cardinality(later) = Cardinality(ValueSpots(rest))
  BY <1>4, <1>5, FS_Bijection DEF ExistsBijection
<1>7. 1 \in ValueSpots(q) <=> Head(q) = "Value"
  BY <1>1 DEF ValueSpots
<1>8. ValuesIn(q) = Cardinality(ValueSpots(q)) /\ ValuesIn(rest) = Cardinality(ValueSpots(rest))
  BY DEF ValuesIn, ValueSpots
<1>9. Cardinality(later) = IF 1 \in ValueSpots(q) THEN Cardinality(ValueSpots(q)) - 1
                                                  ELSE Cardinality(ValueSpots(q))
  BY <1>5, FS_RemoveElement DEF later
<1> QED
  BY <1>5, <1>6, <1>7, <1>8, <1>9 DEF One, rest

-----------------------------------------------------------------------------
(* Questions and answers.                                                  *)

Waiters(w) == {a \in Actors : waitingOn[a] = w}
Working(w) == IF InService(w) THEN 1 ELSE 0
Over(w) == pc[w] \in {"cancelled", "blocked", "gone"}

Balanced(w) ==
    Over(w) \/ Cardinality(Waiters(w))
                 = ValuesIn(resume_chan[w]) + Len(yield_chan[w]) + Working(w)

LEMMA ConversationMeans == Conversation <=> \A w \in Weaves : Balanced(w)
  BY DEF Conversation, Balanced, Over, Waiters, Working

LEMMA BalanceTypes ==
    ASSUME Messages, NEW w \in Weaves
    PROVE  /\ resume_chan[w] \in Seq({"Value", "Cancel"})
           /\ yield_chan[w] \in Seq({"Value", "Done"})
           /\ ValuesIn(resume_chan[w]) \in Nat /\ Len(yield_chan[w]) \in Nat
           /\ IsFiniteSet(Waiters(w)) /\ Cardinality(Waiters(w)) \in Nat
           /\ Working(w) \in {0, 1}
<1>1. IsFiniteSet(Actors) /\ Waiters(w) \in SUBSET Actors
  BY SchedulerConstants, FS_Union DEF Actors, Waiters
<1>2. resume_chan[w] \in Seq({"Value", "Cancel"}) /\ yield_chan[w] \in Seq({"Value", "Done"})
  BY DEF Messages
<1>3. IsFiniteSet(Waiters(w)) /\ Cardinality(Waiters(w)) \in Nat
  BY <1>1, FS_Subset, FS_CardinalityType
<1>4. ValuesIn(resume_chan[w]) \in Nat /\ Len(yield_chan[w]) \in Nat
  BY <1>2, SpotsFinite, LenProperties
<1>5. Working(w) \in {0, 1}
  BY DEF Working
<1> QED
  BY <1>2, <1>3, <1>4, <1>5

(* A weave that somebody waits for, or that has a question to answer.      *)
LEMMA HasWaiter ==
    ASSUME Messages, NEW w \in Weaves, Balanced(w), ~Over(w),
           InService(w) \/ ValuesIn(resume_chan[w]) # 0
    PROVE  \E a \in Actors : waitingOn[a] = w
<1>1. Cardinality(Waiters(w)) # 0
  BY BalanceTypes DEF Balanced, Working
<1>2. Waiters(w) # {}
  BY <1>1, FS_EmptySet
<1> QED
  BY <1>2 DEF Waiters

(* What a step does to w, and why the balance is kept.                     *)
SameQueues(w) == resume_chan'[w] = resume_chan[w] /\ yield_chan'[w] = yield_chan[w]
SameWaiters(w) == Waiters(w)' = Waiters(w)

LEMMA BalanceKept ==
    ASSUME NEW w \in Weaves, Balanced(w), SameQueues(w), SameWaiters(w),
           Over(w)' <=> Over(w), InService(w)' <=> InService(w)
    PROVE  Balanced(w)'
  BY DEF Balanced, SameQueues, SameWaiters, Working

(* A question: a caller joins, a value is queued.                          *)
LEMMA BalanceAsked ==
    ASSUME Messages, NEW w \in Weaves, Balanced(w), NEW a \in Actors,
           a \notin Waiters(w), Waiters(w)' = Waiters(w) \cup {a},
           resume_chan'[w] = Append(resume_chan[w], "Value"), yield_chan'[w] = yield_chan[w],
           Over(w)' <=> Over(w), InService(w)' <=> InService(w)
    PROVE  Balanced(w)'
<1>1. Cardinality(Waiters(w)') = Cardinality(Waiters(w)) + 1
  BY BalanceTypes, FS_AddElement
<1>2. ValuesIn(resume_chan'[w]) = ValuesIn(resume_chan[w]) + 1
  BY BalanceTypes, ValuesAppend DEF One
<1> QED
  BY <1>1, <1>2, BalanceTypes, SMTT(60) DEF Balanced, Working

(* A cancellation is queued.                                               *)
LEMMA BalanceCancel ==
    ASSUME Messages, NEW w \in Weaves, Balanced(w), SameWaiters(w),
           resume_chan'[w] = Append(resume_chan[w], "Cancel"), yield_chan'[w] = yield_chan[w],
           Over(w)' <=> Over(w), InService(w)' <=> InService(w)
    PROVE  Balanced(w)'
<1>1. ValuesIn(resume_chan'[w]) = ValuesIn(resume_chan[w])
  BY BalanceTypes, ValuesAppend DEF One
<1> QED
  BY <1>1, BalanceTypes DEF Balanced, Working, SameWaiters

(* The weave takes a message: a value puts it to work, Cancel ends it.     *)
LEMMA BalanceTaken ==
    ASSUME Messages, NEW w \in Weaves, Balanced(w), SameWaiters(w), resume_chan[w] # <<>>,
           resume_chan'[w] = Tail(resume_chan[w]), yield_chan'[w] = yield_chan[w],
           ~Over(w), ~InService(w),
           IF Head(resume_chan[w]) = "Value" THEN InService(w)' ELSE Over(w)'
    PROVE  Balanced(w)'
<1>1. ValuesIn(resume_chan[w]) = ValuesIn(Tail(resume_chan[w])) + One(Head(resume_chan[w]))
  BY BalanceTypes, ValuesTail
<1>2. Tail(resume_chan[w]) \in Seq({"Value", "Cancel"})
  BY BalanceTypes, HeadTailProperties
<1>3. ValuesIn(Tail(resume_chan[w])) \in Nat
  BY <1>2, SpotsFinite
<1> QED
  BY <1>1, <1>3, BalanceTypes DEF Balanced, Working, SameWaiters, One

(* The weave answers and stops working.                                    *)
LEMMA BalanceAnswered ==
    ASSUME Messages, NEW w \in Weaves, Balanced(w), SameWaiters(w), NEW msg \in {"Value", "Done"},
           resume_chan'[w] = resume_chan[w], yield_chan'[w] = Append(yield_chan[w], msg),
           ~Over(w), InService(w), ~InService(w)'
    PROVE  Balanced(w)'
<1>1. Len(yield_chan'[w]) = Len(yield_chan[w]) + 1
  BY BalanceTypes, AppendProperties
<1> QED
  BY <1>1, BalanceTypes DEF Balanced, Working, SameWaiters

(* A caller collects an answer.                                            *)
LEMMA BalanceCollected ==
    ASSUME Messages, NEW w \in Weaves, Balanced(w), NEW a \in Waiters(w),
           Waiters(w)' = Waiters(w) \ {a}, yield_chan[w] # <<>>,
           resume_chan'[w] = resume_chan[w], yield_chan'[w] = Tail(yield_chan[w]),
           Over(w)' <=> Over(w), InService(w)' <=> InService(w)
    PROVE  Balanced(w)'
<1>1. Len(yield_chan'[w]) = Len(yield_chan[w]) - 1
  BY BalanceTypes, HeadTailProperties
<1>2. Cardinality(Waiters(w)') = Cardinality(Waiters(w)) - 1
  BY BalanceTypes, FS_RemoveElement
<1> QED
  BY <1>1, <1>2, BalanceTypes DEF Balanced, Working

LEMMA BalanceStep ==
    ASSUME Control, Messages, SpawnTree, HandleInv, \A v \in Weaves : Balanced(v),
           [WeaveNext]_allVars
    PROVE  \A v \in Weaves : Balanced(v)'
<1> USE SchedulerConstants, WeaveConstants
    DEF Actors, Plain, SpawnLabels, InService, Over, Control, Messages, counters, locals,
        history, channels, weaveVars
<1>kept. ASSUME UNCHANGED <<resume_chan, yield_chan, waitingOn>>,
                \A v \in Weaves : (Over(v)' <=> Over(v)) /\ (InService(v)' <=> InService(v))
         PROVE  \A v \in Weaves : Balanced(v)'
  <2>1. ASSUME NEW v \in Weaves PROVE SameQueues(v) /\ SameWaiters(v)
    BY <1>kept DEF SameQueues, SameWaiters, Waiters
  <2> QED
    BY <1>kept, <2>1, BalanceKept
<1>other. ASSUME NEW v \in Weaves, waitingOn' = waitingOn, pc'[v] = pc[v],
                 resume_chan'[v] = resume_chan[v], yield_chan'[v] = yield_chan[v]
          PROVE  Balanced(v)'
  <2>1. SameQueues(v) /\ SameWaiters(v)
    BY <1>other DEF SameQueues, SameWaiters, Waiters
  <2> QED
    BY <1>other, <2>1, BalanceKept
<1>1. ASSUME NEW a \in Actors, NEW s \in Plain, SpawnPlain(a, s)
      PROVE  \A v \in Weaves : Balanced(v)'
  BY <1>kept, <1>1 DEF SpawnPlain, SpawnTakeId
<1>2. ASSUME NEW a \in Actors, SpawnCountActive(a), UNCHANGED weaveVars
      PROVE  \A v \in Weaves : Balanced(v)'
  <2>1. child[a] \in Plain /\ child[a] \in Strands
    BY <1>2 DEF SpawnCountActive, SpawnTree, ChildOf
  <2> QED
    BY <1>kept, <1>2, <2>1 DEF SpawnCountActive
<1>3. ASSUME NEW a \in Actors, SpawnCountTotal(a), UNCHANGED weaveVars
      PROVE  \A v \in Weaves : Balanced(v)'
  BY <1>kept, <1>3 DEF SpawnCountTotal
<1>4. ASSUME NEW a \in Actors, SpawnLoadPeak(a), UNCHANGED weaveVars
      PROVE  \A v \in Weaves : Balanced(v)'
  BY <1>kept, <1>4 DEF SpawnLoadPeak, LoopOrGo
<1>5. ASSUME NEW a \in Actors, SpawnCasPeak(a), UNCHANGED weaveVars
      PROVE  \A v \in Weaves : Balanced(v)'
  BY <1>kept, <1>5 DEF SpawnCasPeak, LoopOrGo
<1>6. ASSUME NEW a \in Actors, SpawnStart(a), UNCHANGED weaveVars
      PROVE  \A v \in Weaves : Balanced(v)'
  <2>1. child[a] \in Plain /\ child[a] \in Strands
    BY <1>6 DEF SpawnStart, SpawnTree, ChildOf
  <2> QED
    BY <1>kept, <1>6, <2>1 DEF SpawnStart
<1>7. ASSUME NEW s \in Plain, EntryReturns(s), UNCHANGED weaveVars
      PROVE  \A v \in Weaves : Balanced(v)'
  BY <1>kept, <1>7 DEF EntryReturns
<1>8. ASSUME NEW s \in Strands, ExitDecrement(s), UNCHANGED weaveVars
      PROVE  \A v \in Weaves : Balanced(v)'
  BY <1>kept, <1>8 DEF ExitDecrement
<1>9. ASSUME NEW s \in Strands, ExitComplete(s), UNCHANGED weaveVars
      PROVE  \A v \in Weaves : Balanced(v)'
  BY <1>kept, <1>9 DEF ExitComplete
<1>10. ASSUME NEW s \in Strands, ExitLock(s), UNCHANGED weaveVars
      PROVE  \A v \in Weaves : Balanced(v)'
  BY <1>kept, <1>10 DEF ExitLock
<1>11. ASSUME NEW s \in Strands, ExitNotify(s), UNCHANGED weaveVars
      PROVE  \A v \in Weaves : Balanced(v)'
  BY <1>kept, <1>11 DEF ExitNotify
<1>12. ASSUME NEW t \in Threads, WaitLock(t) \/ WaitWake(t) \/ SpuriousWake(t), UNCHANGED weaveVars
      PROVE  \A v \in Weaves : Balanced(v)'
  BY <1>kept, <1>12 DEF WaitLock, WaitWake, SpuriousWake
<1>13. ASSUME NEW t \in Threads, WaitCheck(t), UNCHANGED weaveVars
      PROVE  \A v \in Weaves : Balanced(v)'
  BY <1>kept, <1>13 DEF WaitCheck
<1>14. ASSUME NEW a \in Strands, NEW w \in Weaves, CreateWeave(a, w)
      PROVE  \A v \in Weaves : Balanced(v)'
  BY <1>kept, <1>14 DEF CreateWeave
<1>15. ASSUME NEW a \in Strands, NEW w \in Weaves, ResumeSend(a, w)
      PROVE  \A v \in Weaves : Balanced(v)'
  <2>1. /\ waitingOn[a] \notin Weaves /\ waitingOn' = [waitingOn EXCEPT ![a] = w]
        /\ yield_chan' = yield_chan
        /\ resume_chan' = [resume_chan EXCEPT ![w] = Append(@, "Value")]
        /\ pc[a] = "run" /\ pc' = [pc EXCEPT ![a] = "resuming"]
    BY <1>15 DEF ResumeSend, Send, HandleInv
  <2>2. \A v \in Weaves : (Over(v)' <=> Over(v)) /\ (InService(v)' <=> InService(v))
    BY <2>1
  <2>3. Balanced(w)'
    <3>1. /\ a \notin Waiters(w) /\ Waiters(w)' = Waiters(w) \cup {a}
          /\ resume_chan'[w] = Append(resume_chan[w], "Value") /\ yield_chan'[w] = yield_chan[w]
      BY <2>1 DEF Waiters
    <3> QED
      BY <2>2, <3>1, BalanceAsked
  <2>4. ASSUME NEW v \in Weaves, v # w PROVE Balanced(v)'
    <3>1. SameWaiters(v) /\ SameQueues(v)
      BY <2>1, <2>4 DEF SameWaiters, SameQueues, Waiters
    <3> QED
      BY <2>2, <3>1, BalanceKept
  <2> QED
    BY <2>3, <2>4
<1>16. ASSUME NEW a \in Strands, NEW w \in Weaves, WeaveCancel(a, w)
      PROVE  \A v \in Weaves : Balanced(v)'
  <2>1. /\ pc' = pc /\ waitingOn' = waitingOn /\ yield_chan' = yield_chan
        /\ resume_chan' = [resume_chan EXCEPT ![w] = Append(@, "Cancel")]
    BY <1>16 DEF WeaveCancel, Send, vars
  <2>2. Balanced(w)'
    <3>1. /\ SameWaiters(w) /\ resume_chan'[w] = Append(resume_chan[w], "Cancel")
          /\ yield_chan'[w] = yield_chan[w]
          /\ (Over(w)' <=> Over(w)) /\ (InService(w)' <=> InService(w))
      BY <2>1 DEF SameWaiters, Waiters
    <3> QED
      BY <3>1, BalanceCancel
  <2>3. ASSUME NEW v \in Weaves, v # w PROVE Balanced(v)'
    BY <1>other, <2>1, <2>3
  <2> QED
    BY <2>2, <2>3
<1>17. ASSUME NEW a \in Strands, ResumeReceive(a)
      PROVE  \A v \in Weaves : Balanced(v)'
  <2>1. PICK w : w = waitingOn[a]
    OBVIOUS
  <2>2. /\ w \in Weaves /\ waitingOn' = [waitingOn EXCEPT ![a] = None]
        /\ yield_chan[w] # <<>> /\ resume_chan' = resume_chan
        /\ yield_chan' = [yield_chan EXCEPT ![w] = Tail(@)]
        /\ pc[a] = "resuming" /\ pc' = [pc EXCEPT ![a] = "run"]
    BY <1>17, <2>1 DEF ResumeReceive, Received, HandleInv
  <2>3. \A v \in Weaves : (Over(v)' <=> Over(v)) /\ (InService(v)' <=> InService(v))
    BY <2>2
  <2>4. None \notin Weaves
    OBVIOUS
  <2>5. Balanced(w)'
    <3>1. /\ a \in Waiters(w) /\ Waiters(w)' = Waiters(w) \ {a}
          /\ resume_chan'[w] = resume_chan[w] /\ yield_chan'[w] = Tail(yield_chan[w])
      BY <2>1, <2>2, <2>4 DEF Waiters
    <3> QED
      BY <2>2, <2>3, <3>1, BalanceCollected
  <2>6. ASSUME NEW v \in Weaves, v # w PROVE Balanced(v)'
    <3>1. SameWaiters(v) /\ SameQueues(v)
      BY <2>1, <2>2, <2>4, <2>6 DEF SameWaiters, SameQueues, Waiters
    <3> QED
      BY <2>3, <3>1, BalanceKept
  <2> QED
    BY <2>5, <2>6
<1>18. ASSUME NEW w \in Weaves, FirstReceive(w)
      PROVE  \A v \in Weaves : Balanced(v)'
  <2>1. /\ resume_chan[w] # <<>> /\ waitingOn' = waitingOn /\ yield_chan' = yield_chan
        /\ resume_chan' = [resume_chan EXCEPT ![w] = Tail(@)]
        /\ pc' = [pc EXCEPT ![w] = IF Head(resume_chan[w]) = "Value"
                                   THEN "activate" ELSE "gone"]
    BY <1>18 DEF FirstReceive, Received
  <2>2. ~Over(w) /\ ~InService(w)
    BY <1>18 DEF FirstReceive, Received
  <2>3. IF Head(resume_chan[w]) = "Value" THEN InService(w)' ELSE Over(w)'
    BY <2>1
  <2>4. Balanced(w)'
    <3>1. SameWaiters(w) /\ resume_chan'[w] = Tail(resume_chan[w]) /\ yield_chan'[w] = yield_chan[w]
      BY <2>1 DEF SameWaiters, Waiters
    <3> QED
      BY <2>1, <2>2, <2>3, <3>1, BalanceTaken
  <2>5. ASSUME NEW v \in Weaves, v # w PROVE Balanced(v)'
    BY <1>other, <2>1, <2>5
  <2> QED
    BY <2>4, <2>5
<1>19. ASSUME NEW w \in Weaves, NEW from \in {"activate", "reactivate"}, CountIn(w, from)
      PROVE  \A v \in Weaves : Balanced(v)'
  BY <1>kept, <1>19 DEF CountIn
<1>20. ASSUME NEW w \in Weaves, YieldDormant(w)
      PROVE  \A v \in Weaves : Balanced(v)'
  BY <1>kept, <1>20 DEF YieldDormant
<1>21. ASSUME NEW w \in Weaves, YieldReceive(w)
      PROVE  \A v \in Weaves : Balanced(v)'
  <2>1. /\ resume_chan[w] # <<>> /\ waitingOn' = waitingOn /\ yield_chan' = yield_chan
        /\ resume_chan' = [resume_chan EXCEPT ![w] = Tail(@)]
        /\ pc' = [pc EXCEPT ![w] = IF Head(resume_chan[w]) = "Value"
                                   THEN "reactivate" ELSE "cancelled"]
    BY <1>21 DEF YieldReceive, Received
  <2>2. ~Over(w) /\ ~InService(w)
    BY <1>21 DEF YieldReceive, Received
  <2>3. IF Head(resume_chan[w]) = "Value" THEN InService(w)' ELSE Over(w)'
    BY <2>1
  <2>4. Balanced(w)'
    <3>1. SameWaiters(w) /\ resume_chan'[w] = Tail(resume_chan[w]) /\ yield_chan'[w] = yield_chan[w]
      BY <2>1 DEF SameWaiters, Waiters
    <3> QED
      BY <2>1, <2>2, <2>3, <3>1, BalanceTaken
  <2>5. ASSUME NEW v \in Weaves, v # w PROVE Balanced(v)'
    BY <1>other, <2>1, <2>5
  <2> QED
    BY <2>4, <2>5
<1>22. ASSUME NEW w \in Weaves, YieldCancelled(w)
      PROVE  \A v \in Weaves : Balanced(v)'
  <2>1. Over(w)'
    BY <1>22 DEF YieldCancelled, Send
  <2>2. /\ waitingOn' = waitingOn /\ resume_chan' = resume_chan
        /\ \A v \in Weaves \ {w} : yield_chan'[v] = yield_chan[v] /\ pc'[v] = pc[v]
    BY <1>22 DEF YieldCancelled, Send
  <2>3. ASSUME NEW v \in Weaves, v # w PROVE Balanced(v)'
    BY <1>other, <2>2, <2>3
  <2> QED
    BY <2>1, <2>3 DEF Balanced
<1>23. ASSUME NEW w \in Weaves, YieldSend(w)
      PROVE  \A v \in Weaves : Balanced(v)'
  <2>1. /\ waitingOn' = waitingOn /\ resume_chan' = resume_chan
        /\ yield_chan' = [yield_chan EXCEPT ![w] = Append(@, "Value")]
        /\ pc' = [pc EXCEPT ![w] = "y_dec"]
    BY <1>23 DEF YieldSend, Send
  <2>2. ~Over(w) /\ InService(w) /\ ~InService(w)'
    BY <1>23 DEF YieldSend, Send
  <2>3. Balanced(w)'
    <3>1. /\ SameWaiters(w) /\ resume_chan'[w] = resume_chan[w]
          /\ yield_chan'[w] = Append(yield_chan[w], "Value")
      BY <2>1 DEF SameWaiters, Waiters
    <3> QED
      BY <2>2, <3>1, BalanceAnswered
  <2>4. ASSUME NEW v \in Weaves, v # w PROVE Balanced(v)'
    BY <1>other, <2>1, <2>4
  <2> QED
    BY <2>3, <2>4
<1>24. ASSUME NEW w \in Weaves, QuotationReturns(w)
      PROVE  \A v \in Weaves : Balanced(v)'
  <2>1. /\ waitingOn' = waitingOn /\ resume_chan' = resume_chan
        /\ yield_chan' = [yield_chan EXCEPT ![w] = Append(@, "Done")]
        /\ pc' = [pc EXCEPT ![w] = "dec"]
    BY <1>24 DEF QuotationReturns, Send
  <2>2. ~Over(w) /\ InService(w) /\ ~InService(w)'
    BY <1>24 DEF QuotationReturns, Send
  <2>3. Balanced(w)'
    <3>1. /\ SameWaiters(w) /\ resume_chan'[w] = resume_chan[w]
          /\ yield_chan'[w] = Append(yield_chan[w], "Done")
      BY <2>1 DEF SameWaiters, Waiters
    <3> QED
      BY <2>2, <3>1, BalanceAnswered
  <2>4. ASSUME NEW v \in Weaves, v # w PROVE Balanced(v)'
    BY <1>other, <2>1, <2>4
  <2> QED
    BY <2>3, <2>4
<1>25. ASSUME UNCHANGED allVars
      PROVE  \A v \in Weaves : Balanced(v)'
  BY <1>kept, <1>25 DEF allVars, vars
<1> QED
  BY <1>1, <1>2, <1>3, <1>4, <1>5, <1>6, <1>7, <1>8, <1>9, <1>10, <1>11,
     <1>12, <1>13, <1>14, <1>15, <1>16, <1>17, <1>18, <1>19, <1>20, <1>21,
     <1>22, <1>23, <1>24, <1>25
  DEF WeaveNext, SchedulerSteps, WeaveSteps, SpawnSteps, ExitSteps, WaitSteps, Activate,
      YieldReactivate, Exited

-----------------------------------------------------------------------------
(* The exit of a program.                                                  *)

Quiet == {"complete", "lock", "notify", "done", "dormant", "parked", "cancelled",
          "blocked", "gone"}

(* A weave that has been asked, or is about to be counted in, has a caller *)
(* of its own program in resume, where ACTIVE_STRANDS counts it.           *)
LEMMA CallerCounted ==
    ASSUME Invariants, NEW w \in Weaves, ~Over(w),
           InService(w) \/ (resume_chan[w] # <<>> /\ Head(resume_chan[w]) = "Value")
    PROVE  \E a \in Strands : a \in WeaveCounted /\ pc[a] = "resuming" /\ root[a] = root[w]
<1>1. ASSUME resume_chan[w] # <<>>, Head(resume_chan[w]) = "Value"
      PROVE  ValuesIn(resume_chan[w]) # 0
  <2>1. resume_chan[w] \in Seq({"Value", "Cancel"})
    BY BalanceTypes DEF Invariants, Types
  <2>2. Tail(resume_chan[w]) \in Seq({"Value", "Cancel"})
    BY <1>1, <2>1, HeadTailProperties
  <2>3. ValuesIn(Tail(resume_chan[w])) \in Nat
    BY <2>2, SpotsFinite
  <2> QED
    BY <1>1, <2>1, <2>3, ValuesTail DEF One
<1>2. PICK a \in Actors : waitingOn[a] = w
  BY <1>1, HasWaiter, ConversationMeans DEF Invariants, Types
<1>3. pc[a] = "resuming" /\ root[a] = root[w]
  BY <1>2 DEF Invariants, HandleInv
<1>4. a \in Strands
  BY <1>3 DEF Invariants, Types, Control, Actors, ThreadLabels, SpawnLabels, WaitLabels
<1> QED
  BY <1>3, <1>4 DEF WeaveCounted

LEMMA ExitStep ==
    ASSUME Invariants, [WeaveNext]_allVars
    PROVE  NoCodeAfterExit'
<1> USE SchedulerConstants, WeaveConstants
    DEF Actors, Plain, Control, Types, Invariants, NoCodeAfterExit,
        counters, locals, history, channels, weaveVars
<1>1. ASSUME NEW a \in Actors, NEW s \in Plain, SpawnPlain(a, s)
      PROVE  NoCodeAfterExit'
  BY <1>1 DEF SpawnPlain, SpawnTakeId, RootOf
<1>2. ASSUME NEW a \in Actors, SpawnCountActive(a), UNCHANGED weaveVars
      PROVE  NoCodeAfterExit'
  BY <1>2 DEF SpawnCountActive, SpawnTree, ChildOf, SpawnLabels
<1>3. ASSUME NEW a \in Actors, SpawnCountTotal(a), UNCHANGED weaveVars
      PROVE  NoCodeAfterExit'
  BY <1>3 DEF SpawnCountTotal
<1>4. ASSUME NEW a \in Actors, SpawnLoadPeak(a), UNCHANGED weaveVars
      PROVE  NoCodeAfterExit'
  BY <1>4 DEF SpawnLoadPeak, LoopOrGo
<1>5. ASSUME NEW a \in Actors, SpawnCasPeak(a), UNCHANGED weaveVars
      PROVE  NoCodeAfterExit'
  BY <1>5 DEF SpawnCasPeak, LoopOrGo
<1>6. ASSUME NEW a \in Actors, SpawnStart(a), UNCHANGED weaveVars
      PROVE  NoCodeAfterExit'
  BY <1>6 DEF SpawnStart, SpawnTree, ChildOf, SpawnLabels
<1>7. ASSUME NEW s \in Plain, EntryReturns(s), UNCHANGED weaveVars
      PROVE  NoCodeAfterExit'
  BY <1>7 DEF EntryReturns
<1>8. ASSUME NEW s \in Strands, ExitDecrement(s), UNCHANGED weaveVars
      PROVE  NoCodeAfterExit'
  BY <1>8 DEF ExitDecrement
<1>9. ASSUME NEW s \in Strands, ExitComplete(s), UNCHANGED weaveVars
      PROVE  NoCodeAfterExit'
  BY <1>9 DEF ExitComplete
<1>10. ASSUME NEW s \in Strands, ExitLock(s), UNCHANGED weaveVars
      PROVE  NoCodeAfterExit'
  BY <1>10 DEF ExitLock
<1>11. ASSUME NEW s \in Strands, ExitNotify(s), UNCHANGED weaveVars
      PROVE  NoCodeAfterExit'
  BY <1>11 DEF ExitNotify
<1>12. ASSUME NEW t \in Threads, WaitLock(t) \/ WaitWake(t) \/ SpuriousWake(t), UNCHANGED weaveVars
      PROVE  NoCodeAfterExit'
  BY <1>12 DEF WaitLock, WaitWake, SpuriousWake
<1>13. ASSUME NEW t \in Threads, WaitCheck(t), UNCHANGED weaveVars
      PROVE  NoCodeAfterExit'
  <2>1. CASE ACTIVE_STRANDS > 0
    BY <1>13, <2>1 DEF WaitCheck
  <2>2. CASE ~(ACTIVE_STRANDS > 0)
    (* Nothing is counted: a weave of t on its way into user code would    *)
    (* have a counted caller, and a strand of t not started yet a counted  *)
    (* spawner, or t itself.                                               *)
    <3>1. WeaveCounted = {}
      BY <2>2, WeaveCountedFinite DEF DormantNotCounted
    <3>2. ASSUME NEW s \in Strands, root[s] = t
          PROVE  pc[s] \in Quiet
      <4>1. pc[s] # "unborn"
        BY <3>2 DEF SpawnTree
      <4>2. pc[s] \notin CountedLabels \cup {"resuming", "y_dec"}
        BY <3>1 DEF WeaveCounted
      <4>3. pc[s] # "reserved"
        <5> SUFFICES ASSUME pc[s] = "reserved" PROVE FALSE
          OBVIOUS
        <5>1. PICK a \in Actors : child[a] = s
          BY DEF SpawnTree
        <5>2. pc[a] \in SpawnLabels /\ RootOf(a) = t
          BY <3>2, <5>1 DEF SpawnTree, ChildOf
        <5>3. a \notin Threads
          BY <1>13, <5>2 DEF RootOf, WaitCheck, SpawnLabels
        <5>4. a \in WeaveCounted
          BY <5>2, <5>3 DEF WeaveCounted, CountedLabels
        <5> QED
          BY <3>1, <5>4
      <4>4. pc[s] \notin {"activate", "reactivate"}
        <5>1. s \in Weaves /\ pc[s] \in {"activate", "reactivate"} => FALSE
          BY <3>1, CallerCounted DEF InService, Over
        <5>2. s \in Plain => pc[s] \notin {"activate", "reactivate"}
          BY DEF PlainInv
        <5> QED
          BY <5>1, <5>2
      <4>5. pc[s] \in AllStrandLabels
        OBVIOUS
      <4> QED
        BY <4>1, <4>2, <4>3, <4>4, <4>5
        DEF AllStrandLabels, StrandLabels, WeaveLabels, CountedLabels, ExitLabels, Quiet
    <3> QED
      BY <1>13, <3>2 DEF WaitCheck, Quiet
  <2> QED
    BY <2>1, <2>2
<1>14. ASSUME NEW a \in Strands, NEW w \in Weaves, CreateWeave(a, w)
      PROVE  NoCodeAfterExit'
  BY <1>14 DEF CreateWeave, RootOf
<1>15. ASSUME NEW a \in Strands, NEW w \in Weaves, ResumeSend(a, w)
      PROVE  NoCodeAfterExit'
  BY <1>15 DEF ResumeSend, Send
<1>16. ASSUME NEW a \in Strands, NEW w \in Weaves, WeaveCancel(a, w)
      PROVE  NoCodeAfterExit'
  BY <1>16 DEF WeaveCancel, vars
<1>17. ASSUME NEW a \in Strands, ResumeReceive(a)
      PROVE  NoCodeAfterExit'
  BY <1>17 DEF ResumeReceive, GiveUpHandle, Received
<1>18. ASSUME NEW w \in Weaves, FirstReceive(w)
      PROVE  NoCodeAfterExit'
  <2>1. CASE Head(resume_chan[w]) = "Value"
    <3>1. \E a \in Strands : pc[a] = "resuming" /\ root[a] = root[w]
      BY <1>18, <2>1, CallerCounted DEF FirstReceive, Received, Over
    <3>2. \A t \in Threads : pc[t] = "returned" => root[w] # t
      BY <3>1
    <3> QED
      BY <1>18, <3>2 DEF FirstReceive, Received
  <2>2. CASE Head(resume_chan[w]) # "Value"
    BY <1>18, <2>2 DEF FirstReceive, Received
  <2> QED
    BY <2>1, <2>2
<1>19. ASSUME NEW w \in Weaves, NEW from \in {"activate", "reactivate"}, CountIn(w, from)
      PROVE  NoCodeAfterExit'
  BY <1>19 DEF CountIn
<1>20. ASSUME NEW w \in Weaves, YieldDormant(w)
      PROVE  NoCodeAfterExit'
  BY <1>20 DEF YieldDormant
<1>21. ASSUME NEW w \in Weaves, YieldReceive(w)
      PROVE  NoCodeAfterExit'
  <2>1. CASE Head(resume_chan[w]) = "Value"
    <3>1. \E a \in Strands : pc[a] = "resuming" /\ root[a] = root[w]
      BY <1>21, <2>1, CallerCounted DEF YieldReceive, Received, Over
    <3>2. \A t \in Threads : pc[t] = "returned" => root[w] # t
      BY <3>1
    <3> QED
      BY <1>21, <3>2 DEF YieldReceive, Received
  <2>2. CASE Head(resume_chan[w]) # "Value"
    BY <1>21, <2>2 DEF YieldReceive, Received
  <2> QED
    BY <2>1, <2>2
<1>22. ASSUME NEW w \in Weaves, YieldCancelled(w)
      PROVE  NoCodeAfterExit'
  BY <1>22 DEF YieldCancelled, Send
<1>23. ASSUME NEW w \in Weaves, YieldSend(w)
      PROVE  NoCodeAfterExit'
  BY <1>23 DEF YieldSend, Send
<1>24. ASSUME NEW w \in Weaves, QuotationReturns(w)
      PROVE  NoCodeAfterExit'
  BY <1>24 DEF QuotationReturns, Send
<1>25. ASSUME UNCHANGED allVars
      PROVE  NoCodeAfterExit'
  BY <1>25 DEF allVars, vars
<1> QED
  BY <1>1, <1>2, <1>3, <1>4, <1>5, <1>6, <1>7, <1>8, <1>9, <1>10, <1>11,
     <1>12, <1>13, <1>14, <1>15, <1>16, <1>17, <1>18, <1>19, <1>20, <1>21,
     <1>22, <1>23, <1>24, <1>25
  DEF WeaveNext, SchedulerSteps, WeaveSteps, SpawnSteps, ExitSteps, WaitSteps, Activate,
      YieldReactivate, Exited

-----------------------------------------------------------------------------
(* Quiescence: with every thread waiting and nothing counted, no step      *)
(* counts anything in.                                                     *)
LEMMA QuietStep ==
    ASSUME Invariants, [WeaveNext]_allVars
    PROVE  QuietStays
<1> SUFFICES ASSUME \A t \in Threads : pc[t] \in WaitLabels, ACTIVE_STRANDS = 0
             PROVE  ACTIVE_STRANDS' = 0
  BY DEF QuietStays
<1>1. WeaveCounted = {}
  BY WeaveCountedFinite DEF Invariants, DormantNotCounted
<1>2. ASSUME NEW a \in Actors, SpawnCountActive(a) PROVE FALSE
  <2>1. a \notin Threads
    BY <1>2 DEF SpawnCountActive, WaitLabels
  <2>2. a \in WeaveCounted
    BY <1>2, <2>1 DEF SpawnCountActive, WeaveCounted, CountedLabels, SpawnLabels, Actors
  <2> QED
    BY <1>1, <2>2
<1>3. ASSUME NEW w \in Weaves, NEW from \in {"activate", "reactivate"}, CountIn(w, from)
      PROVE  FALSE
  BY <1>1, <1>3, CallerCounted DEF CountIn, InService, Over
<1>4. ASSUME NEW s \in Strands, ExitDecrement(s) \/ YieldDormant(s) PROVE FALSE
  BY <1>1, <1>4 DEF ExitDecrement, YieldDormant, WeaveCounted, CountedLabels
<1>5. CASE SchedulerSteps
  BY <1>2, <1>4, <1>5
  DEF SchedulerSteps, SpawnSteps, ExitSteps, WaitSteps, SpawnCountTotal, SpawnLoadPeak,
      SpawnCasPeak, SpawnStart, EntryReturns, ExitComplete, ExitLock, ExitNotify, WaitLock,
      WaitCheck, WaitWake, SpuriousWake, counters, Plain
<1>6. ASSUME NEW w \in Weaves, WeaveSteps(w) \/ YieldSend(w) \/ QuotationReturns(w)
      PROVE  ACTIVE_STRANDS' = 0
  BY <1>3, <1>4, <1>6, WeaveConstants
  DEF WeaveSteps, Activate, YieldReactivate, FirstReceive, YieldReceive, YieldCancelled,
      YieldSend, QuotationReturns, counters
<1>7. ASSUME NEW s \in Strands, NEW w \in Weaves,
             CreateWeave(s, w) \/ ResumeSend(s, w) \/ WeaveCancel(s, w)
      PROVE  ACTIVE_STRANDS' = 0
  BY <1>7 DEF CreateWeave, ResumeSend, WeaveCancel, counters, vars
<1>8. ASSUME NEW s \in Strands, ResumeReceive(s) PROVE ACTIVE_STRANDS' = 0
  BY <1>8 DEF ResumeReceive, counters
<1>9. ASSUME NEW a \in Actors, NEW s \in Plain, SpawnPlain(a, s) PROVE ACTIVE_STRANDS' = 0
  BY <1>9 DEF SpawnPlain, SpawnTakeId, counters
<1>10. CASE UNCHANGED allVars
  BY <1>10 DEF allVars, vars, counters
<1> QED
  BY <1>5, <1>6, <1>7, <1>8, <1>9, <1>10 DEF WeaveNext, Exited

-----------------------------------------------------------------------------
LEMMA WeaveInitInvariants == WeaveInit => Invariants
<1> SUFFICES ASSUME WeaveInit PROVE Invariants
  OBVIOUS
<1> USE SchedulerConstants, WeaveConstants DEF WeaveInit
<1>1. /\ \A s \in Strands : pc[s] = "unborn" /\ root[s] = None
      /\ \A t \in Threads : pc[t] = "run"
      /\ \A a \in Actors : child[a] = None /\ handles[a] = {} /\ waitingOn[a] = None
      /\ \A w \in Weaves : resume_chan[w] = <<>> /\ yield_chan[w] = <<>>
      /\ ACTIVE_STRANDS = 0
  BY DEF Init, Actors
<1>2. Control
  BY DEF Init, Control, Actors, Plain, AllStrandLabels, StrandLabels, ThreadLabels, SpawnLabels,
         ExitLabels, WaitLabels
<1>3. Messages
  BY DEF Messages
<1>4. SpawnTree
  BY SpawnTreeInit
<1>5. HandleInv /\ PlainInv
  BY <1>1 DEF HandleInv, PlainInv, Plain, Actors
<1>6. DormantNotCounted
  <2>1. WeaveCounted = {}
    BY <1>1 DEF WeaveCounted, CountedLabels, SpawnLabels
  <2> QED
    BY <1>1, <2>1, FS_EmptySet DEF DormantNotCounted
<1>7. ASSUME NEW w \in Weaves PROVE Balanced(w)
  <2>1. Waiters(w) = {} /\ ValueSpots(resume_chan[w]) = {} /\ Len(yield_chan[w]) = 0
    BY <1>1 DEF Waiters, ValueSpots
  <2>2. Working(w) = 0
    BY <1>1 DEF Working, InService, SpawnLabels
  <2>3. ValuesIn(resume_chan[w]) = 0 /\ Cardinality(Waiters(w)) = 0
    BY <2>1, FS_EmptySet DEF ValuesIn, ValueSpots
  <2> QED
    BY <2>1, <2>2, <2>3 DEF Balanced
<1>8. NoCodeAfterExit
  BY <1>1 DEF NoCodeAfterExit
<1> QED
  BY <1>2, <1>3, <1>4, <1>5, <1>6, <1>7, <1>8, ConversationMeans DEF Invariants, Types

LEMMA WeaveInvariantsStep == Invariants /\ [WeaveNext]_allVars => Invariants'
<1> SUFFICES ASSUME Invariants, [WeaveNext]_allVars PROVE Invariants'
  OBVIOUS
<1>1. Control' /\ SpawnTree' /\ Messages' /\ HandleInv' /\ PlainInv' /\ DormantNotCounted'
  BY ControlStep, WeaveTreeStep, MessagesStep, HandleStep, PlainStep, DormantStep
  DEF Invariants, Types
<1>2. Conversation'
  <2>1. \A v \in Weaves : Balanced(v)'
    BY BalanceStep, ConversationMeans DEF Invariants, Types
  <2>2. Conversation' <=> \A w \in Weaves : Balanced(w)'
    BY DEF Conversation, Balanced, Over, Waiters, Working
  <2> QED
    BY <2>1, <2>2
<1>3. NoCodeAfterExit'
  BY ExitStep
<1> QED
  BY <1>1, <1>2, <1>3 DEF Invariants, Types

(* The inductive invariant of the weaves.                                  *)
THEOREM WeaveInvariance == WeaveSpec => []Invariants
  BY WeaveInitInvariants, WeaveInvariantsStep, PTL DEF WeaveSpec

(* Through any sequence of resumes, yields, cancels and nested weaves,     *)
(* ACTIVE_STRANDS (the fetch_add and fetch_sub of weave.rs around the      *)
(* user code, #287) is the number of strands and weaves in user code, and  *)
(* never goes below zero.                                                  *)
THEOREM DormancyExact == WeaveSpec => []DormantOut
<1>1. Invariants => DormantOut
  BY TypesMean DEF Invariants, DormantOut
<1> QED
  BY <1>1, WeaveInvariance, PTL

(* Every resume of a weave that was not cancelled is answered once, and    *)
(* scheduler_run does not return under a weave of its program that was     *)
(* resumed, even in the window where the weave is not yet counted.         *)
THEOREM ConversationsSound == WeaveSpec => []ConversationsEnd
<1>1. Invariants => ConversationsEnd
  BY DEF Invariants, ConversationsEnd
<1> QED
  BY <1>1, WeaveInvariance, PTL

(* Once all threads wait and nothing is counted, no dormant weave brings   *)
(* ACTIVE_STRANDS up again, whoever still holds its handle: the wait loop  *)
(* of scheduler_run may return on the zero it saw.                         *)
THEOREM QuiescenceFinal == WeaveSpec => QuiescenceIsFinal
<1>1. Invariants /\ [WeaveNext]_allVars => [QuietStays]_vars
  BY QuietStep
<1> QED
  BY <1>1, WeaveInvariance, PTL DEF WeaveSpec, QuiescenceIsFinal

-----------------------------------------------------------------------------
(* The dump and the report.  Weaves leave TOTAL_SPAWNED alone and can only *)
(* raise TOTAL_COMPLETED, so the plain strands carry the bounds: Spawning  *)
(* are the spawners whose child TOTAL_SPAWNED does not count yet, and      *)
(* OnTheWay the strands that were counted and have not counted their end.  *)

Spawning == {a \in Actors : pc[a] \in {"sp_active", "sp_total"}}
Born == {s \in Plain : pc[s] # "unborn"}
OnTheWay == {s \in Plain : s \in WeaveCounted \/ pc[s] = "complete"}

CountersInv ==
    /\ TOTAL_SPAWNED \in Nat /\ TOTAL_COMPLETED \in Nat
    /\ TOTAL_SPAWNED + Cardinality(Spawning) = Cardinality(Born)
    /\ TOTAL_SPAWNED + Cardinality(SpawnGap) <= TOTAL_COMPLETED + Cardinality(OnTheWay)

Figures == [at : {"active", "spawned", "completed", "peak", "printed"},
            active : Nat, spawned : Nat, completed : Nat, peak : Nat, leaving : Nat, before : Nat]

DumpInv ==
    LET known == dump.active + dump.leaving
    IN  /\ dump.at \in {"spawned", "completed"} =>
               dump.before <= TOTAL_SPAWNED /\ dump.before <= known + TOTAL_COMPLETED
        /\ dump.at \in {"completed", "peak", "printed"} => dump.before <= dump.spawned
        /\ dump.at \in {"peak", "printed"} => dump.before <= known + dump.completed

ReportInv ==
    report.at # "active" =>
        /\ \A t \in Threads : pc[t] = "returned"
        /\ report.spawned = Cardinality(Born)
        /\ report.spawned <= report.leaving
              + (IF report.at = "completed" THEN TOTAL_COMPLETED ELSE report.completed)

PeakTyped == PEAK_STRANDS \in Nat /\ new_count \in [Actors -> Nat]

ReadersInv ==
    Invariants /\ CountersInv /\ PeakTyped /\ dump \in Figures /\ report \in Figures
    /\ DumpInv /\ ReportInv

LEMMA ReadSetsFinite ==
    /\ IsFiniteSet(Spawning) /\ Cardinality(Spawning) \in Nat
    /\ IsFiniteSet(Born) /\ Cardinality(Born) \in Nat
    /\ IsFiniteSet(OnTheWay) /\ Cardinality(OnTheWay) \in Nat
<1>1. IsFiniteSet(Actors) /\ IsFiniteSet(Strands)
  BY SchedulerConstants, FS_Union DEF Actors
<1>2. Spawning \in SUBSET Actors /\ Born \in SUBSET Strands /\ OnTheWay \in SUBSET Strands
  BY DEF Spawning, Born, OnTheWay, Plain
<1> QED
  BY <1>1, <1>2, FS_Subset, FS_CardinalityType

(* What a step does to the counters and to these sets.                     *)
FiguresKept ==
    /\ UNCHANGED <<TOTAL_SPAWNED, TOTAL_COMPLETED>>
    /\ Spawning' = Spawning /\ Born' = Born /\ SpawnGap' = SpawnGap /\ OnTheWay' = OnTheWay

OneBorn(a, s) ==
    /\ pc[a] = "run"
    /\ s \notin Born /\ Born' = Born \cup {s}
    /\ a \notin Spawning /\ Spawning' = Spawning \cup {a}
    /\ UNCHANGED <<TOTAL_SPAWNED, TOTAL_COMPLETED>>
    /\ SpawnGap' = SpawnGap /\ OnTheWay' = OnTheWay

OneEntered(a, s) ==
    /\ a \notin SpawnGap /\ SpawnGap' = SpawnGap \cup {a}
    /\ s \notin OnTheWay /\ OnTheWay' = OnTheWay \cup {s}
    /\ UNCHANGED <<TOTAL_SPAWNED, TOTAL_COMPLETED>>
    /\ Spawning' = Spawning /\ Born' = Born

OneSpawned(a) ==
    /\ TOTAL_SPAWNED' = TOTAL_SPAWNED + 1 /\ TOTAL_COMPLETED' = TOTAL_COMPLETED
    /\ a \in Spawning /\ Spawning' = Spawning \ {a}
    /\ a \in SpawnGap /\ SpawnGap' = SpawnGap \ {a}
    /\ Born' = Born /\ OnTheWay' = OnTheWay

OneEnded(s) ==
    /\ TOTAL_COMPLETED' = TOTAL_COMPLETED + 1 /\ TOTAL_SPAWNED' = TOTAL_SPAWNED
    /\ OnTheWay' = OnTheWay \ {s}
    /\ Spawning' = Spawning /\ Born' = Born /\ SpawnGap' = SpawnGap

FiguresMove ==
    \/ FiguresKept
    \/ \E a \in Actors, s \in Plain : OneBorn(a, s) \/ OneEntered(a, s)
    \/ \E a \in Actors : OneSpawned(a)
    \/ \E s \in Strands : OneEnded(s)

LEMMA FiguresStep ==
    ASSUME Control, SpawnTree, PlainInv, [WeaveNext]_allVars
    PROVE  FiguresMove
<1> USE SchedulerConstants, WeaveConstants
    DEF Actors, Plain, Control, PlainInv, Spawning, Born, SpawnGap, OnTheWay, WeaveCounted,
        CountedLabels, SpawnLabels,
        counters, locals, history, channels, weaveVars
<1>0. FiguresKept => FiguresMove
  BY DEF FiguresMove
<1> USE DEF FiguresKept
<1>1. ASSUME NEW a \in Actors, NEW s \in Plain, SpawnPlain(a, s)
      PROVE  FiguresMove
  <2>1. OneBorn(a, s)
    BY <1>1 DEF SpawnPlain, SpawnTakeId, OneBorn
  <2> QED
    BY <2>1 DEF FiguresMove
<1>2. ASSUME NEW a \in Actors, SpawnCountActive(a), UNCHANGED weaveVars
      PROVE  FiguresMove
  <2>1. child[a] \in Plain /\ pc[child[a]] = "reserved"
    BY <1>2 DEF SpawnCountActive, SpawnTree, ChildOf
  <2>2. OneEntered(a, child[a])
    BY <1>2, <2>1 DEF SpawnCountActive, OneEntered
  <2> HIDE DEF Actors, Plain, Spawning, Born, SpawnGap, OnTheWay
  <2>3. \E b \in Actors, s \in Plain : OneEntered(b, s)
    BY <2>1, <2>2
  <2> QED
    BY <2>3 DEF FiguresMove
<1>3. ASSUME NEW a \in Actors, SpawnCountTotal(a), UNCHANGED weaveVars
      PROVE  FiguresMove
  <2>1. OneSpawned(a)
    BY <1>3 DEF SpawnCountTotal, OneSpawned
  <2> QED
    BY <2>1 DEF FiguresMove
<1>4. ASSUME NEW a \in Actors, SpawnLoadPeak(a), UNCHANGED weaveVars
      PROVE  FiguresMove
  BY <1>0, <1>4 DEF SpawnLoadPeak, LoopOrGo
<1>5. ASSUME NEW a \in Actors, SpawnCasPeak(a), UNCHANGED weaveVars
      PROVE  FiguresMove
  BY <1>0, <1>5 DEF SpawnCasPeak, LoopOrGo
<1>6. ASSUME NEW a \in Actors, SpawnStart(a), UNCHANGED weaveVars
      PROVE  FiguresMove
  <2>1. child[a] \in Plain /\ pc[child[a]] = "counted"
    BY <1>6 DEF SpawnStart, SpawnTree, ChildOf
  <2>2. FiguresKept
    BY <1>6, <2>1 DEF SpawnStart
  <2> QED
    BY <2>2, <1>0
<1>7. ASSUME NEW s \in Plain, EntryReturns(s), UNCHANGED weaveVars
      PROVE  FiguresMove
  BY <1>0, <1>7 DEF EntryReturns
<1>8. ASSUME NEW s \in Strands, ExitDecrement(s), UNCHANGED weaveVars
      PROVE  FiguresMove
  BY <1>0, <1>8 DEF ExitDecrement
<1>9. ASSUME NEW s \in Strands, ExitComplete(s), UNCHANGED weaveVars
      PROVE  FiguresMove
  <2>1. OneEnded(s)
    BY <1>9 DEF ExitComplete, OneEnded
  <2> QED
    BY <2>1 DEF FiguresMove
<1>10. ASSUME NEW s \in Strands, ExitLock(s), UNCHANGED weaveVars
      PROVE  FiguresMove
  BY <1>0, <1>10 DEF ExitLock
<1>11. ASSUME NEW s \in Strands, ExitNotify(s), UNCHANGED weaveVars
      PROVE  FiguresMove
  BY <1>0, <1>11 DEF ExitNotify
<1>12. ASSUME NEW t \in Threads, WaitLock(t) \/ WaitWake(t) \/ SpuriousWake(t), UNCHANGED weaveVars
      PROVE  FiguresMove
  BY <1>0, <1>12 DEF WaitLock, WaitWake, SpuriousWake
<1>13. ASSUME NEW t \in Threads, WaitCheck(t), UNCHANGED weaveVars
      PROVE  FiguresMove
  BY <1>0, <1>13 DEF WaitCheck
<1>14. ASSUME NEW a \in Strands, NEW w \in Weaves, CreateWeave(a, w)
      PROVE  FiguresMove
  BY <1>0, <1>14 DEF CreateWeave
<1>15. ASSUME NEW a \in Strands, NEW w \in Weaves, ResumeSend(a, w)
      PROVE  FiguresMove
  BY <1>0, <1>15 DEF ResumeSend, Send
<1>16. ASSUME NEW a \in Strands, NEW w \in Weaves, WeaveCancel(a, w)
      PROVE  FiguresMove
  BY <1>0, <1>16 DEF WeaveCancel, vars
<1>17. ASSUME NEW a \in Strands, ResumeReceive(a)
      PROVE  FiguresMove
  BY <1>0, <1>17 DEF ResumeReceive, GiveUpHandle, Received
<1>18. ASSUME NEW w \in Weaves, FirstReceive(w)
      PROVE  FiguresMove
  BY <1>0, <1>18 DEF FirstReceive, Received
<1>19. ASSUME NEW w \in Weaves, NEW from \in {"activate", "reactivate"}, CountIn(w, from)
      PROVE  FiguresMove
  BY <1>0, <1>19 DEF CountIn
<1>20. ASSUME NEW w \in Weaves, YieldDormant(w)
      PROVE  FiguresMove
  BY <1>0, <1>20 DEF YieldDormant
<1>21. ASSUME NEW w \in Weaves, YieldReceive(w)
      PROVE  FiguresMove
  BY <1>0, <1>21 DEF YieldReceive, Received
<1>22. ASSUME NEW w \in Weaves, YieldCancelled(w)
      PROVE  FiguresMove
  BY <1>0, <1>22 DEF YieldCancelled, Send
<1>23. ASSUME NEW w \in Weaves, YieldSend(w)
      PROVE  FiguresMove
  BY <1>0, <1>23 DEF YieldSend, Send
<1>24. ASSUME NEW w \in Weaves, QuotationReturns(w)
      PROVE  FiguresMove
  BY <1>0, <1>24 DEF QuotationReturns, Send
<1>25. ASSUME UNCHANGED allVars
      PROVE  FiguresMove
  BY <1>0, <1>25 DEF allVars, vars
<1> QED
  BY <1>1, <1>2, <1>3, <1>4, <1>5, <1>6, <1>7, <1>8, <1>9, <1>10, <1>11,
     <1>12, <1>13, <1>14, <1>15, <1>16, <1>17, <1>18, <1>19, <1>20, <1>21,
     <1>22, <1>23, <1>24, <1>25
  DEF WeaveNext, SchedulerSteps, WeaveSteps, SpawnSteps, ExitSteps, WaitSteps, Activate,
      YieldReactivate, Exited


LEMMA PeakTypedStep ==
    ASSUME Control, PeakTyped, [WeaveNext]_allVars
    PROVE  PeakTyped'
<1> USE DEF PeakTyped, Control, counters, locals, history, weaveVars
<1>1. ASSUME NEW a \in Actors, SpawnSteps(a) PROVE PeakTyped'
  BY <1>1 DEF SpawnSteps, SpawnCountActive, SpawnCountTotal, SpawnLoadPeak, SpawnCasPeak, SpawnStart
<1>2. ASSUME NEW s \in Strands, EntryReturns(s) \/ ExitSteps(s) PROVE PeakTyped'
  BY <1>2 DEF EntryReturns, ExitSteps, ExitDecrement, ExitComplete, ExitLock, ExitNotify
<1>3. ASSUME NEW t \in Threads, WaitSteps(t) \/ SpuriousWake(t) PROVE PeakTyped'
  BY <1>3 DEF WaitSteps, WaitLock, WaitCheck, WaitWake, SpuriousWake
<1>4. ASSUME NEW a \in Actors, NEW s \in Plain, SpawnPlain(a, s) PROVE PeakTyped'
  BY <1>4 DEF SpawnPlain, SpawnTakeId
<1>5. ASSUME NEW s \in Strands, NEW w \in Weaves,
             CreateWeave(s, w) \/ ResumeSend(s, w) \/ WeaveCancel(s, w)
      PROVE  PeakTyped'
  BY <1>5 DEF CreateWeave, ResumeSend, WeaveCancel, vars
<1>6. ASSUME NEW s \in Strands, ResumeReceive(s) PROVE PeakTyped'
  BY <1>6 DEF ResumeReceive
<1>7. ASSUME NEW w \in Weaves, WeaveSteps(w) \/ YieldSend(w) \/ QuotationReturns(w)
      PROVE  PeakTyped'
  BY <1>7 DEF WeaveSteps, FirstReceive, Activate, YieldReactivate, CountIn, YieldDormant,
      YieldReceive, YieldCancelled, YieldSend, QuotationReturns
<1>8. CASE UNCHANGED allVars
  BY <1>8 DEF allVars, vars
<1> HIDE DEF PeakTyped, Control
<1>9. CASE SchedulerSteps
  BY <1>1, <1>2, <1>3, <1>9 DEF SchedulerSteps, Plain
<1> QED
  BY <1>4, <1>5, <1>6, <1>7, <1>8, <1>9 DEF WeaveNext, Exited

LEMMA CountersStep ==
    ASSUME CountersInv, FiguresMove
    PROVE  CountersInv' /\ TOTAL_SPAWNED <= TOTAL_SPAWNED' /\ TOTAL_COMPLETED <= TOTAL_COMPLETED'
<1> USE ReadSetsFinite, GapsFinite DEF CountersInv
<1>1. CASE FiguresKept
  BY <1>1 DEF FiguresKept
<1>2. ASSUME NEW a \in Actors, NEW s \in Plain, OneBorn(a, s)
      PROVE  CountersInv' /\ TOTAL_SPAWNED <= TOTAL_SPAWNED' /\ TOTAL_COMPLETED <= TOTAL_COMPLETED'
  <2>1. /\ Cardinality(Born') = Cardinality(Born) + 1
        /\ Cardinality(Spawning') = Cardinality(Spawning) + 1
    BY <1>2, FS_AddElement DEF OneBorn
  <2> QED
    BY <1>2, <2>1 DEF OneBorn
<1>3. ASSUME NEW a \in Actors, NEW s \in Plain, OneEntered(a, s)
      PROVE  CountersInv' /\ TOTAL_SPAWNED <= TOTAL_SPAWNED' /\ TOTAL_COMPLETED <= TOTAL_COMPLETED'
  <2>1. /\ Cardinality(SpawnGap') = Cardinality(SpawnGap) + 1
        /\ Cardinality(OnTheWay') = Cardinality(OnTheWay) + 1
    BY <1>3, FS_AddElement DEF OneEntered
  <2> QED
    BY <1>3, <2>1 DEF OneEntered
<1>4. ASSUME NEW a \in Actors, OneSpawned(a)
      PROVE  CountersInv' /\ TOTAL_SPAWNED <= TOTAL_SPAWNED' /\ TOTAL_COMPLETED <= TOTAL_COMPLETED'
  <2>1. /\ Cardinality(Spawning') = Cardinality(Spawning) - 1
        /\ Cardinality(SpawnGap') = Cardinality(SpawnGap) - 1
    BY <1>4, FS_RemoveElement DEF OneSpawned
  <2> QED
    BY <1>4, <2>1 DEF OneSpawned
<1>5. ASSUME NEW s \in Strands, OneEnded(s)
      PROVE  CountersInv' /\ TOTAL_SPAWNED <= TOTAL_SPAWNED' /\ TOTAL_COMPLETED <= TOTAL_COMPLETED'
  <2>1. Cardinality(OnTheWay') \in {Cardinality(OnTheWay), Cardinality(OnTheWay) - 1}
    BY <1>5, FS_RemoveElement DEF OneEnded
  <2> QED
    BY <1>5, <2>1 DEF OneEnded
<1> QED
  BY <1>1, <1>2, <1>3, <1>4, <1>5 DEF FiguresMove

(* Every strand counted as spawned is active, leaving or completed.        *)
LEMMA SpawnedAccounted ==
    ASSUME Invariants, CountersInv
    PROVE  /\ Cardinality(Leaving) \in Nat
           /\ TOTAL_SPAWNED <= ACTIVE_STRANDS + Cardinality(Leaving) + TOTAL_COMPLETED
<1>1. Leaving = ExitGap
  BY DEF Leaving, ExitGap
<1>2. WeaveCounted \cap Leaving = {} /\ OnTheWay \in SUBSET (WeaveCounted \cup Leaving)
  BY DEF WeaveCounted, Leaving, OnTheWay, CountedLabels, SpawnLabels, Plain
<1>3. /\ IsFiniteSet(WeaveCounted \cup Leaving)
      /\ Cardinality(WeaveCounted \cup Leaving) = Cardinality(WeaveCounted) + Cardinality(Leaving)
  <2>1. IsFiniteSet(WeaveCounted) /\ IsFiniteSet(Leaving)
    BY <1>1, GapsFinite, WeaveCountedFinite
  <2>2. Cardinality(WeaveCounted \cap Leaving) = 0
    BY <1>2, FS_EmptySet
  <2>3. Cardinality(WeaveCounted) \in Nat /\ Cardinality(Leaving) \in Nat
    BY <2>1, FS_CardinalityType
  <2>4. /\ IsFiniteSet(WeaveCounted \cup Leaving)
        /\ Cardinality(WeaveCounted \cup Leaving)
              = Cardinality(WeaveCounted) + Cardinality(Leaving)
                  - Cardinality(WeaveCounted \cap Leaving)
    BY <2>1, FS_Union
  <2> QED
    BY <2>2, <2>3, <2>4
<1>4. Cardinality(OnTheWay) <= Cardinality(WeaveCounted) + Cardinality(Leaving)
  BY <1>2, <1>3, FS_Subset
<1> QED
  BY <1>1, <1>4, GapsFinite, ReadSetsFinite, WeaveCountedFinite
  DEF CountersInv, Invariants, DormantNotCounted

(* When every thread has returned nothing is spawned any more, and what is *)
(* on its way is between its two counters.                                 *)
LEMMA AllReturned ==
    ASSUME Invariants, CountersInv, \A t \in Threads : pc[t] = "returned"
    PROVE  /\ \A a \in Actors : pc[a] # "run"
           /\ TOTAL_SPAWNED = Cardinality(Born)
           /\ TOTAL_SPAWNED <= Cardinality(Leaving) + TOTAL_COMPLETED
<1>1. ASSUME NEW s \in Strands
      PROVE  pc[s] \in {"unborn", "complete", "lock", "notify", "done", "dormant",
                        "parked", "cancelled", "blocked", "gone"}
  <2>1. CASE root[s] = None
    BY <2>1 DEF Invariants, SpawnTree
  <2>2. CASE root[s] \in Threads
    BY <2>2 DEF Invariants, NoCodeAfterExit
  <2> QED
    BY <2>1, <2>2 DEF Invariants, Types, Control
<1>2. \A a \in Actors : pc[a] \notin {"run", "sp_active", "sp_total"}
  BY <1>1 DEF Actors
<1>3. Spawning = {} /\ OnTheWay \in SUBSET Leaving
  BY <1>1, <1>2
  DEF Spawning, OnTheWay, Leaving, Plain, WeaveCounted, CountedLabels, SpawnLabels
<1>4. Leaving = ExitGap
  BY DEF Leaving, ExitGap
<1>5. Cardinality(Spawning) = 0 /\ Cardinality(OnTheWay) <= Cardinality(Leaving)
  BY <1>3, <1>4, GapsFinite, FS_Subset, FS_EmptySet
<1> QED
  BY <1>2, <1>4, <1>5, GapsFinite, ReadSetsFinite DEF CountersInv
(* A thread that has returned stays so.                                    *)
LEMMA ReturnedStays ==
    ASSUME Control, SpawnTree, NEW u \in Threads, pc[u] = "returned", [WeaveNext]_allVars
    PROVE  pc'[u] = "returned"
<1> USE SchedulerConstants, WeaveConstants
    DEF Actors, Plain, Control, SpawnLabels, counters, locals, history, channels, weaveVars
<1>1. ASSUME NEW a \in Actors, NEW s \in Plain, SpawnPlain(a, s)
      PROVE  pc'[u] = "returned"
  BY <1>1 DEF SpawnPlain, SpawnTakeId
<1>2. ASSUME NEW a \in Actors, SpawnCountActive(a), UNCHANGED weaveVars
      PROVE  pc'[u] = "returned"
  <2>1. child[a] \in Strands
    BY <1>2 DEF SpawnCountActive, SpawnTree, ChildOf
  <2> QED
    BY <1>2, <2>1 DEF SpawnCountActive
<1>3. ASSUME NEW a \in Actors, SpawnCountTotal(a), UNCHANGED weaveVars
      PROVE  pc'[u] = "returned"
  BY <1>3 DEF SpawnCountTotal
<1>4. ASSUME NEW a \in Actors, SpawnLoadPeak(a), UNCHANGED weaveVars
      PROVE  pc'[u] = "returned"
  BY <1>4 DEF SpawnLoadPeak, LoopOrGo
<1>5. ASSUME NEW a \in Actors, SpawnCasPeak(a), UNCHANGED weaveVars
      PROVE  pc'[u] = "returned"
  BY <1>5 DEF SpawnCasPeak, LoopOrGo
<1>6. ASSUME NEW a \in Actors, SpawnStart(a), UNCHANGED weaveVars
      PROVE  pc'[u] = "returned"
  <2>1. child[a] \in Strands
    BY <1>6 DEF SpawnStart, SpawnTree, ChildOf
  <2> QED
    BY <1>6, <2>1 DEF SpawnStart
<1>7. ASSUME NEW s \in Plain, EntryReturns(s), UNCHANGED weaveVars
      PROVE  pc'[u] = "returned"
  BY <1>7 DEF EntryReturns
<1>8. ASSUME NEW s \in Strands, ExitDecrement(s), UNCHANGED weaveVars
      PROVE  pc'[u] = "returned"
  BY <1>8 DEF ExitDecrement
<1>9. ASSUME NEW s \in Strands, ExitComplete(s), UNCHANGED weaveVars
      PROVE  pc'[u] = "returned"
  BY <1>9 DEF ExitComplete
<1>10. ASSUME NEW s \in Strands, ExitLock(s), UNCHANGED weaveVars
      PROVE  pc'[u] = "returned"
  BY <1>10 DEF ExitLock
<1>11. ASSUME NEW s \in Strands, ExitNotify(s), UNCHANGED weaveVars
      PROVE  pc'[u] = "returned"
  BY <1>11 DEF ExitNotify
<1>12. ASSUME NEW t \in Threads, WaitLock(t) \/ WaitWake(t) \/ SpuriousWake(t), UNCHANGED weaveVars
      PROVE  pc'[u] = "returned"
  BY <1>12 DEF WaitLock, WaitWake, SpuriousWake
<1>13. ASSUME NEW t \in Threads, WaitCheck(t), UNCHANGED weaveVars
      PROVE  pc'[u] = "returned"
  BY <1>13 DEF WaitCheck
<1>14. ASSUME NEW a \in Strands, NEW w \in Weaves, CreateWeave(a, w)
      PROVE  pc'[u] = "returned"
  BY <1>14 DEF CreateWeave
<1>15. ASSUME NEW a \in Strands, NEW w \in Weaves, ResumeSend(a, w)
      PROVE  pc'[u] = "returned"
  BY <1>15 DEF ResumeSend, Send
<1>16. ASSUME NEW a \in Strands, NEW w \in Weaves, WeaveCancel(a, w)
      PROVE  pc'[u] = "returned"
  BY <1>16 DEF WeaveCancel, vars
<1>17. ASSUME NEW a \in Strands, ResumeReceive(a)
      PROVE  pc'[u] = "returned"
  BY <1>17 DEF ResumeReceive, GiveUpHandle, Received
<1>18. ASSUME NEW w \in Weaves, FirstReceive(w)
      PROVE  pc'[u] = "returned"
  BY <1>18 DEF FirstReceive, Received
<1>19. ASSUME NEW w \in Weaves, NEW from \in {"activate", "reactivate"}, CountIn(w, from)
      PROVE  pc'[u] = "returned"
  BY <1>19 DEF CountIn
<1>20. ASSUME NEW w \in Weaves, YieldDormant(w)
      PROVE  pc'[u] = "returned"
  BY <1>20 DEF YieldDormant
<1>21. ASSUME NEW w \in Weaves, YieldReceive(w)
      PROVE  pc'[u] = "returned"
  BY <1>21 DEF YieldReceive, Received
<1>22. ASSUME NEW w \in Weaves, YieldCancelled(w)
      PROVE  pc'[u] = "returned"
  BY <1>22 DEF YieldCancelled, Send
<1>23. ASSUME NEW w \in Weaves, YieldSend(w)
      PROVE  pc'[u] = "returned"
  BY <1>23 DEF YieldSend, Send
<1>24. ASSUME NEW w \in Weaves, QuotationReturns(w)
      PROVE  pc'[u] = "returned"
  BY <1>24 DEF QuotationReturns, Send
<1>25. ASSUME UNCHANGED allVars
      PROVE  pc'[u] = "returned"
  BY <1>25 DEF allVars, vars
<1> QED
  BY <1>1, <1>2, <1>3, <1>4, <1>5, <1>6, <1>7, <1>8, <1>9, <1>10, <1>11,
     <1>12, <1>13, <1>14, <1>15, <1>16, <1>17, <1>18, <1>19, <1>20, <1>21,
     <1>22, <1>23, <1>24, <1>25
  DEF WeaveNext, SchedulerSteps, WeaveSteps, SpawnSteps, ExitSteps, WaitSteps, Activate,
      YieldReactivate, Exited


(* A step of the program leaves what was read in place and true.           *)
LEMMA ReadersStep ==
    ASSUME ReadersInv, [WeaveNext]_allVars, UNCHANGED readers
    PROVE  ReadersInv'
<1>1. Invariants'
  BY WeaveInvariantsStep DEF ReadersInv
<1>2. FiguresMove
  BY FiguresStep DEF ReadersInv, Invariants, Types
<1>3. CountersInv' /\ TOTAL_SPAWNED <= TOTAL_SPAWNED' /\ TOTAL_COMPLETED <= TOTAL_COMPLETED'
  BY <1>2, CountersStep DEF ReadersInv
<1>4. PeakTyped'
  BY PeakTypedStep DEF ReadersInv, Invariants, Types
<1>5. /\ TOTAL_SPAWNED \in Nat /\ TOTAL_COMPLETED \in Nat
      /\ TOTAL_SPAWNED' \in Nat /\ TOTAL_COMPLETED' \in Nat
      /\ dump' = dump /\ report' = report
  BY <1>3 DEF ReadersInv, CountersInv, readers
<1>6. DumpInv'
  BY <1>3, <1>5 DEF ReadersInv, DumpInv, Figures
<1>7. ReportInv'
  <2> SUFFICES ASSUME report.at # "active"
               PROVE  /\ \A t \in Threads : pc'[t] = "returned"
                      /\ Born' = Born
    BY <1>3, <1>5 DEF ReadersInv, ReportInv, Figures
  <2>1. \A t \in Threads : pc[t] = "returned"
    BY DEF ReadersInv, ReportInv
  <2>2. \A a \in Actors : pc[a] # "run"
    BY <2>1, AllReturned DEF ReadersInv
  <2>3. Born' = Born
    BY <1>2, <2>2 DEF FiguresMove, FiguresKept, OneBorn, OneEntered, OneSpawned, OneEnded
  <2> QED
    BY <2>1, <2>3, ReturnedStays DEF ReadersInv, Invariants, Types
<1> QED
  BY <1>1, <1>3, <1>4, <1>5, <1>6, <1>7 DEF ReadersInv

(* A step of the dump: it reads while the rest stands still.               *)
LEMMA DumpStep ==
    ASSUME ReadersInv, DumpActive \/ DumpSpawned \/ DumpCompleted \/ DumpPeak
    PROVE  ReadersInv'
<1>1. UNCHANGED allVars /\ report' = report
  BY DEF DumpActive, DumpSpawned, DumpCompleted, DumpPeak
<1>2. /\ Invariants' /\ CountersInv' /\ PeakTyped' /\ ReportInv'
      /\ TOTAL_SPAWNED' = TOTAL_SPAWNED /\ TOTAL_COMPLETED' = TOTAL_COMPLETED
  <2>1. Invariants'
    BY <1>1, WeaveInvariantsStep DEF ReadersInv
  <2>2. ReportInv' /\ CountersInv' /\ PeakTyped'
    BY <1>1 DEF ReadersInv, ReportInv, CountersInv, PeakTyped, Born, Spawning, OnTheWay, SpawnGap,
                WeaveCounted, allVars, vars, counters, locals
  <2> QED
    BY <1>1, <2>1, <2>2 DEF allVars, vars, counters
<1>3. /\ ACTIVE_STRANDS \in Nat /\ PEAK_STRANDS \in Nat
      /\ TOTAL_SPAWNED \in Nat /\ TOTAL_COMPLETED \in Nat
  BY DEF ReadersInv, Invariants, Types, Control, CountersInv, PeakTyped
<1>4. /\ Cardinality(Leaving) \in Nat
      /\ TOTAL_SPAWNED <= ACTIVE_STRANDS + Cardinality(Leaving) + TOTAL_COMPLETED
  BY SpawnedAccounted DEF ReadersInv
<1>5. dump \in Figures /\ DumpInv
  BY DEF ReadersInv
<1>6. dump' \in Figures /\ DumpInv'
  <2>1. CASE DumpActive
    <3>1. /\ dump' \in Figures /\ dump'.at = "spawned" /\ dump'.active = ACTIVE_STRANDS
          /\ dump'.leaving = Cardinality(Leaving) /\ dump'.before = TOTAL_SPAWNED
      BY <1>3, <1>4, <1>5, <2>1 DEF DumpActive, Figures
    <3> QED
      BY <1>2, <1>3, <1>4, <3>1 DEF DumpInv
  <2>2. CASE DumpSpawned
    BY <1>2, <1>3, <1>5, <2>2 DEF DumpSpawned, DumpInv, Figures
  <2>3. CASE DumpCompleted
    BY <1>2, <1>3, <1>5, <2>3 DEF DumpCompleted, DumpInv, Figures
  <2>4. CASE DumpPeak
    BY <1>2, <1>3, <1>5, <2>4 DEF DumpPeak, DumpInv, Figures
  <2> QED
    BY <2>1, <2>2, <2>3, <2>4
<1> QED
  BY <1>1, <1>2, <1>6 DEF ReadersInv

(* A step of the report.                                                   *)
LEMMA ReportStep ==
    ASSUME ReadersInv, ReportSpawned \/ ReportCompleted \/ ReportPeak
    PROVE  ReadersInv'
<1>1. UNCHANGED allVars /\ dump' = dump
  BY DEF ReportSpawned, ReportCompleted, ReportPeak
<1>2. Invariants'
  BY <1>1, WeaveInvariantsStep DEF ReadersInv
<1>3. DumpInv' /\ CountersInv' /\ PeakTyped'
  BY <1>1 DEF ReadersInv, DumpInv, CountersInv, PeakTyped, Born, Spawning, OnTheWay, SpawnGap,
              WeaveCounted, allVars, vars, counters, locals
<1>4. Born' = Born /\ pc' = pc /\ TOTAL_COMPLETED' = TOTAL_COMPLETED
  BY <1>1 DEF Born, allVars, vars, counters
<1>5. /\ PEAK_STRANDS \in Nat /\ TOTAL_SPAWNED \in Nat /\ TOTAL_COMPLETED \in Nat
      /\ Cardinality(Leaving) \in Nat
  BY SpawnedAccounted DEF ReadersInv, CountersInv, PeakTyped
<1>6. report \in Figures /\ ReportInv
  BY DEF ReadersInv
<1>7. report' \in Figures /\ ReportInv'
  <2>1. CASE ReportSpawned
    <3>1. \A t \in Threads : pc[t] = "returned"
      BY <2>1 DEF ReportSpawned
    <3>2. /\ TOTAL_SPAWNED = Cardinality(Born)
          /\ TOTAL_SPAWNED <= Cardinality(Leaving) + TOTAL_COMPLETED
      BY <3>1, AllReturned DEF ReadersInv
    <3> QED
      BY <1>4, <1>5, <1>6, <2>1, <3>1, <3>2 DEF ReportSpawned, ReportInv, Figures
  <2>2. CASE ReportCompleted
    BY <1>4, <1>5, <1>6, <2>2 DEF ReportCompleted, ReportInv, Figures
  <2>3. CASE ReportPeak
    BY <1>4, <1>5, <1>6, <2>3 DEF ReportPeak, ReportInv, Figures
  <2> QED
    BY <2>1, <2>2, <2>3
<1> QED
  BY <1>1, <1>2, <1>3, <1>7 DEF ReadersInv

LEMMA ReadersInit == DiagnosticsInit => ReadersInv
<1> SUFFICES ASSUME DiagnosticsInit PROVE ReadersInv
  OBVIOUS
<1>1. Invariants
  BY WeaveInitInvariants DEF DiagnosticsInit
<1>2. Spawning = {} /\ Born = {} /\ SpawnGap = {} /\ OnTheWay = {}
  BY SchedulerConstants
  DEF DiagnosticsInit, WeaveInit, Init, Actors, Plain, Spawning, Born, SpawnGap, OnTheWay,
      WeaveCounted, CountedLabels, SpawnLabels
<1>3. CountersInv /\ PeakTyped
  BY <1>2, FS_EmptySet DEF DiagnosticsInit, WeaveInit, Init, CountersInv, PeakTyped
<1>4. dump \in Figures /\ report \in Figures /\ DumpInv /\ ReportInv
  BY DEF DiagnosticsInit, Blank, Figures, DumpInv, ReportInv
<1> QED
  BY <1>1, <1>3, <1>4 DEF ReadersInv

(* What a dump (dump_diagnostics) or the report at exit                    *)
(* (collect_report_data) prints is off by no more than what overlapped it: *)
(* a warning of lost strands names at most those that were between their   *)
(* two counters when it began and those spawned while it read, and the     *)
(* report counts every strand spawned and misses only ends that were not   *)
(* counted yet.                                                            *)
THEOREM FiguresSound == DiagnosticsSpec => []FiguresAccount
<1>1. ReadersInv /\ [DiagnosticsNext]_everything => ReadersInv'
  <2> SUFFICES ASSUME ReadersInv, [DiagnosticsNext]_everything PROVE ReadersInv'
    OBVIOUS
  <2>1. CASE WeaveNext /\ UNCHANGED readers
    BY <2>1, ReadersStep
  <2>2. CASE UNCHANGED everything
    BY <2>2, ReadersStep DEF everything
  <2> QED
    BY <2>1, <2>2, DumpStep, ReportStep DEF DiagnosticsNext
<1>2. ReadersInv => FiguresAccount
  <2> SUFFICES ASSUME ReadersInv PROVE WarningBounded /\ ReportAccounts
    BY DEF FiguresAccount
  <2>1. WarningBounded
    BY DEF ReadersInv, DumpInv, Figures, WarningBounded, Printed, Lost, Maximum
  <2>2. ReportAccounts
    BY DEF ReadersInv, ReportInv, Figures, ReportAccounts, Printed, Born
  <2> QED
    BY <2>1, <2>2
<1> QED
  BY <1>1, <1>2, ReadersInit, PTL DEF DiagnosticsSpec
=============================================================================
