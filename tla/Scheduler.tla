------------------------------- MODULE Scheduler -------------------------------
(***************************************************************************)
(* Strand lifecycle and shutdown of the Seq runtime: what                  *)
(* crates/runtime/src/scheduler.rs and its sub-modules spawn.rs and        *)
(* lifecycle.rs do to the global counters, the shutdown mutex and the      *)
(* shutdown condition variable.                                            *)
(*                                                                         *)
(* Every read-modify-write of a shared atomic is a step of its own, so the *)
(* interleavings are those of the worker threads of the coroutine library. *)
(* User code is abstracted to "spawn some strands, then return".  An OS    *)
(* thread spawns strands (the generated C main spawns seq_main) and then   *)
(* calls scheduler_run or wait_all_strands, which run the same protocol.   *)
(***************************************************************************)
EXTENDS Integers, FiniteSets

CONSTANTS Threads,  \* OS threads that spawn strands and then wait for them
          Strands,  \* strand ids NEXT_STRAND_ID can hand out in a behaviour
          None      \* neither a thread nor a strand

ASSUME SchedulerConstants ==
    /\ IsFiniteSet(Threads)
    /\ IsFiniteSet(Strands)
    /\ Threads \cap Strands = {}
    /\ None \notin Threads \cup Strands

Actors == Threads \cup Strands

VARIABLES
    ACTIVE_STRANDS,   \* the four global counters
    TOTAL_SPAWNED,
    TOTAL_COMPLETED,
    PEAK_STRANDS,
    SHUTDOWN_MUTEX,   \* the actor holding it, or None
    pc,               \* where each actor is in the code
    child,            \* strand_id: the strand an actor is spawning
    new_count,        \* locals of strand_spawn_with_base ...
    peak,
    prev_count,       \* ... and of the exit path of a strand
    root,             \* history: the thread whose program a strand belongs to
    highWater         \* history: the largest value ACTIVE_STRANDS has had

counters == <<ACTIVE_STRANDS, TOTAL_SPAWNED, TOTAL_COMPLETED, PEAK_STRANDS>>
locals   == <<child, new_count, peak, prev_count>>
history  == <<root, highWater>>
vars     == <<counters, SHUTDOWN_MUTEX, pc, locals, history>>

-----------------------------------------------------------------------------
(* Control points.                                                         *)

SpawnLabels == {"sp_active", "sp_total", "sp_load", "sp_cas", "sp_go"}
ExitLabels  == {"dec", "complete", "lock", "notify", "done"}
WaitLabels  == {"check", "sleep", "wake", "returned"}

(* Before its coroutine exists a strand is "unborn", then "reserved" (it    *)
(* has an id), then "counted" (in ACTIVE_STRANDS).                         *)
StrandLabels ==
    {"unborn", "reserved", "counted", "run"} \cup SpawnLabels \cup ExitLabels
ThreadLabels == {"run"} \cup SpawnLabels \cup WaitLabels

(* The program a strand belongs to is that of the thread that spawned it   *)
(* or one of its ancestors.                                                *)
RootOf(a) == IF a \in Threads THEN a ELSE root[a]

(* A strand is counted from the fetch_add of its spawner to its own        *)
(* fetch_sub.                                                              *)
CountedLabels == {"counted", "run", "dec"} \cup SpawnLabels

Counted == {s \in Strands : pc[s] \in CountedLabels}

Maximum(m, n) == IF m >= n THEN m ELSE n

-----------------------------------------------------------------------------
Init ==
    /\ ACTIVE_STRANDS = 0 /\ TOTAL_SPAWNED = 0 /\ TOTAL_COMPLETED = 0
    /\ PEAK_STRANDS = 0
    /\ SHUTDOWN_MUTEX = None
    /\ pc = [a \in Actors |-> IF a \in Threads THEN "run" ELSE "unborn"]
    /\ child = [a \in Actors |-> None]
    /\ new_count = [a \in Actors |-> 0]
    /\ peak = [a \in Actors |-> 0]
    /\ prev_count = [s \in Strands |-> 0]
    /\ root = [s \in Strands |-> None]
    /\ highWater = 0

-----------------------------------------------------------------------------
(* strand_spawn_with_base, executed by the spawner a.                      *)

(* NEXT_STRAND_ID.fetch_add: the id is fresh.                              *)
SpawnTakeId(a, s) ==
    /\ pc[a] = "run"
    /\ pc[s] = "unborn"
    /\ pc' = [pc EXCEPT ![a] = "sp_active", ![s] = "reserved"]
    /\ child' = [child EXCEPT ![a] = s]
    /\ root' = [root EXCEPT ![s] = RootOf(a)]
    /\ UNCHANGED <<counters, SHUTDOWN_MUTEX, new_count, peak, prev_count,
                   highWater>>

SpawnCountActive(a) ==
    /\ pc[a] = "sp_active"
    /\ ACTIVE_STRANDS' = ACTIVE_STRANDS + 1
    /\ new_count' = [new_count EXCEPT ![a] = ACTIVE_STRANDS + 1]
    /\ highWater' = Maximum(highWater, ACTIVE_STRANDS + 1)
    /\ pc' = [pc EXCEPT ![a] = "sp_total", ![child[a]] = "counted"]
    /\ UNCHANGED <<TOTAL_SPAWNED, TOTAL_COMPLETED, PEAK_STRANDS,
                   SHUTDOWN_MUTEX, child, peak, prev_count, root>>

SpawnCountTotal(a) ==
    /\ pc[a] = "sp_total"
    /\ TOTAL_SPAWNED' = TOTAL_SPAWNED + 1
    /\ pc' = [pc EXCEPT ![a] = "sp_load"]
    /\ UNCHANGED <<ACTIVE_STRANDS, TOTAL_COMPLETED, PEAK_STRANDS,
                   SHUTDOWN_MUTEX, locals, history>>

(* The while condition of the peak loop, on the value just loaded.         *)
LoopOrGo(a, loaded) == IF new_count[a] > loaded THEN "sp_cas" ELSE "sp_go"

SpawnLoadPeak(a) ==
    /\ pc[a] = "sp_load"
    /\ peak' = [peak EXCEPT ![a] = PEAK_STRANDS]
    /\ pc' = [pc EXCEPT ![a] = LoopOrGo(a, PEAK_STRANDS)]
    /\ UNCHANGED <<counters, SHUTDOWN_MUTEX, child, new_count, prev_count,
                   history>>

(* Faulty variant: one attempt instead of a loop.                          *)
SpawnCasOnce(a) ==
    /\ pc[a] = "sp_cas"
    /\ PEAK_STRANDS' = IF PEAK_STRANDS = peak[a] THEN new_count[a] ELSE PEAK_STRANDS
    /\ pc' = [pc EXCEPT ![a] = "sp_go"]
    /\ UNCHANGED <<ACTIVE_STRANDS, TOTAL_SPAWNED, TOTAL_COMPLETED,
                   SHUTDOWN_MUTEX, locals, history>>

(* compare_exchange_weak.  A spurious failure reloads the value it already *)
(* has and changes nothing: it is a stuttering step.                       *)
SpawnCasPeak(a) ==
    /\ pc[a] = "sp_cas"
    /\ \/ /\ PEAK_STRANDS = peak[a]
          /\ PEAK_STRANDS' = new_count[a]
          /\ pc' = [pc EXCEPT ![a] = "sp_go"]
          /\ UNCHANGED peak
       \/ /\ PEAK_STRANDS # peak[a]
          /\ peak' = [peak EXCEPT ![a] = PEAK_STRANDS]
          /\ pc' = [pc EXCEPT ![a] = LoopOrGo(a, PEAK_STRANDS)]
          /\ UNCHANGED PEAK_STRANDS
    /\ UNCHANGED <<ACTIVE_STRANDS, TOTAL_SPAWNED, TOTAL_COMPLETED,
                   SHUTDOWN_MUTEX, child, new_count, prev_count, history>>

(* coroutine::spawn: the child may run from now on; the spawner returns    *)
(* to its own code.                                                        *)
SpawnStart(a) ==
    /\ pc[a] = "sp_go"
    /\ pc' = [pc EXCEPT ![a] = "run", ![child[a]] = "run"]
    /\ child' = [child EXCEPT ![a] = None]
    /\ new_count' = [new_count EXCEPT ![a] = 0]
    /\ peak' = [peak EXCEPT ![a] = 0]
    /\ UNCHANGED <<counters, SHUTDOWN_MUTEX, prev_count, history>>

-----------------------------------------------------------------------------
(* The exit path of the coroutine closure, executed by the strand s.       *)

(* Faulty variant: a strand that ends early skips the decrement.           *)
EntryReturnsEarly(s) ==
    /\ pc[s] = "run"
    /\ pc' = [pc EXCEPT ![s] = "complete"]
    /\ UNCHANGED <<counters, SHUTDOWN_MUTEX, locals, history>>

(* entry_fn returns; free_stack and unregister touch nothing modelled      *)
(* here.                                                                   *)
EntryReturns(s) ==
    /\ pc[s] = "run"
    /\ pc' = [pc EXCEPT ![s] = "dec"]
    /\ UNCHANGED <<counters, SHUTDOWN_MUTEX, locals, history>>

ExitDecrement(s) ==
    /\ pc[s] = "dec"
    /\ prev_count' = [prev_count EXCEPT ![s] = ACTIVE_STRANDS]
    /\ ACTIVE_STRANDS' = ACTIVE_STRANDS - 1
    /\ pc' = [pc EXCEPT ![s] = "complete"]
    /\ UNCHANGED <<TOTAL_SPAWNED, TOTAL_COMPLETED, PEAK_STRANDS,
                   SHUTDOWN_MUTEX, child, new_count, peak, history>>

(* Faulty variant: the last strand is recognised by the new count, not the *)
(* previous one.                                                           *)
ExitCompleteAtZero(s) ==
    /\ pc[s] = "complete"
    /\ TOTAL_COMPLETED' = TOTAL_COMPLETED + 1
    /\ pc' = [pc EXCEPT ![s] = IF prev_count[s] = 0 THEN "lock" ELSE "done"]
    /\ prev_count' = [prev_count EXCEPT ![s] = 0]
    /\ UNCHANGED <<ACTIVE_STRANDS, TOTAL_SPAWNED, PEAK_STRANDS,
                   SHUTDOWN_MUTEX, child, new_count, peak, history>>

(* Faulty variant: only the last strand counts its completion.             *)
ExitCompleteIfLast(s) ==
    /\ pc[s] = "complete"
    /\ TOTAL_COMPLETED' = TOTAL_COMPLETED + IF prev_count[s] = 1 THEN 1 ELSE 0
    /\ pc' = [pc EXCEPT ![s] = IF prev_count[s] = 1 THEN "lock" ELSE "done"]
    /\ prev_count' = [prev_count EXCEPT ![s] = 0]
    /\ UNCHANGED <<ACTIVE_STRANDS, TOTAL_SPAWNED, PEAK_STRANDS,
                   SHUTDOWN_MUTEX, child, new_count, peak, history>>

(* TOTAL_COMPLETED.fetch_add and the branch on prev_count.                 *)
ExitComplete(s) ==
    /\ pc[s] = "complete"
    /\ TOTAL_COMPLETED' = TOTAL_COMPLETED + 1
    /\ pc' = [pc EXCEPT ![s] = IF prev_count[s] = 1 THEN "lock" ELSE "done"]
    /\ prev_count' = [prev_count EXCEPT ![s] = 0]
    /\ UNCHANGED <<ACTIVE_STRANDS, TOTAL_SPAWNED, PEAK_STRANDS,
                   SHUTDOWN_MUTEX, child, new_count, peak, history>>

ExitLock(s) ==
    /\ pc[s] = "lock"
    /\ SHUTDOWN_MUTEX = None
    /\ SHUTDOWN_MUTEX' = s
    /\ pc' = [pc EXCEPT ![s] = "notify"]
    /\ UNCHANGED <<counters, locals, history>>

(* Faulty variant: notify_one.                                             *)
ExitNotifyOne(s) ==
    /\ pc[s] = "notify"
    /\ \/ \E t \in Threads :
             pc[t] = "sleep" /\ pc' = [pc EXCEPT ![s] = "done", ![t] = "wake"]
       \/ /\ \A t \in Threads : pc[t] # "sleep"
          /\ pc' = [pc EXCEPT ![s] = "done"]
    /\ SHUTDOWN_MUTEX' = None
    /\ UNCHANGED <<counters, locals, history>>

(* SHUTDOWN_CONDVAR.notify_all(), then the guard is dropped.  A woken      *)
(* thread still has to take the mutex before wait() returns.               *)
ExitNotify(s) ==
    /\ pc[s] = "notify"
    /\ pc' = [a \in Actors |-> IF a = s THEN "done"
                               ELSE IF pc[a] = "sleep" THEN "wake" ELSE pc[a]]
    /\ SHUTDOWN_MUTEX' = None
    /\ UNCHANGED <<counters, locals, history>>

-----------------------------------------------------------------------------
(* scheduler_run / wait_all_strands, executed by the thread t.             *)

WaitLock(t) ==
    /\ pc[t] = "run"
    /\ SHUTDOWN_MUTEX = None
    /\ SHUTDOWN_MUTEX' = t
    /\ pc' = [pc EXCEPT ![t] = "check"]
    /\ UNCHANGED <<counters, locals, history>>

(* The while condition: Condvar::wait releases the mutex and goes to sleep *)
(* in one step; returning drops the guard.                                 *)
WaitCheck(t) ==
    /\ pc[t] = "check"
    /\ pc' = [pc EXCEPT ![t] =
                 IF ACTIVE_STRANDS > 0 THEN "sleep" ELSE "returned"]
    /\ SHUTDOWN_MUTEX' = None
    /\ UNCHANGED <<counters, locals, history>>

(* Faulty variant: an if around wait() instead of a while.                 *)
WaitWakeReturns(t) ==
    /\ pc[t] = "wake"
    /\ SHUTDOWN_MUTEX = None
    /\ pc' = [pc EXCEPT ![t] = "returned"]
    /\ UNCHANGED <<counters, SHUTDOWN_MUTEX, locals, history>>

WaitWake(t) ==
    /\ pc[t] = "wake"
    /\ SHUTDOWN_MUTEX = None
    /\ SHUTDOWN_MUTEX' = t
    /\ pc' = [pc EXCEPT ![t] = "check"]
    /\ UNCHANGED <<counters, locals, history>>

(* std::sync::Condvar may wake a waiter that nobody notified.              *)
SpuriousWake(t) ==
    /\ pc[t] = "sleep"
    /\ pc' = [pc EXCEPT ![t] = "wake"]
    /\ UNCHANGED <<counters, SHUTDOWN_MUTEX, locals, history>>

-----------------------------------------------------------------------------
SpawnSteps(a) ==
    \/ SpawnCountActive(a) \/ SpawnCountTotal(a) \/ SpawnLoadPeak(a)
    \/ SpawnCasPeak(a) \/ SpawnStart(a)

ExitSteps(s) ==
    ExitDecrement(s) \/ ExitComplete(s) \/ ExitLock(s) \/ ExitNotify(s)

WaitSteps(t) == WaitLock(t) \/ WaitCheck(t) \/ WaitWake(t)

(* The processes have all ended.                                           *)
Terminated ==
    /\ \A t \in Threads : pc[t] = "returned"
    /\ \A s \in Strands : pc[s] \in {"unborn", "done"}
    /\ UNCHANGED vars

Next ==
    \/ \E a \in Actors : SpawnSteps(a) \/ \E s \in Strands : SpawnTakeId(a, s)
    \/ \E s \in Strands : EntryReturns(s) \/ ExitSteps(s)
    \/ \E t \in Threads : WaitSteps(t) \/ SpuriousWake(t)
    \/ Terminated

(* A runnable coroutine or thread is eventually scheduled, and user code   *)
(* eventually returns; nothing obliges it to spawn, or the condition       *)
(* variable to wake spuriously.                                            *)
Fairness ==
    /\ \A a \in Actors : WF_vars(SpawnSteps(a))
    /\ \A s \in Strands : WF_vars(EntryReturns(s) \/ ExitSteps(s))
    /\ \A t \in Threads : WF_vars(WaitSteps(t))

Spec == Init /\ [][Next]_vars
FairSpec == Spec /\ Fairness

-----------------------------------------------------------------------------
(* Every counter, label and local has its type; in particular no           *)
(* interleaving drives ACTIVE_STRANDS below zero, where the unsigned       *)
(* counter of scheduler.rs would wrap and scheduler_run never return.      *)
TypeOK ==
    /\ ACTIVE_STRANDS \in Nat /\ TOTAL_SPAWNED \in Nat
    /\ TOTAL_COMPLETED \in Nat /\ PEAK_STRANDS \in Nat
    /\ SHUTDOWN_MUTEX \in Actors \cup {None}
    /\ pc \in [Actors -> StrandLabels \cup ThreadLabels]
    /\ \A s \in Strands : pc[s] \in StrandLabels
    /\ \A t \in Threads : pc[t] \in ThreadLabels
    /\ child \in [Actors -> Strands \cup {None}]
    /\ new_count \in [Actors -> Nat]
    /\ peak \in [Actors -> Nat]
    /\ prev_count \in [Strands -> Nat]
    /\ root \in [Strands -> Threads \cup {None}]
    /\ highWater \in Nat

(* scheduler_run "blocks until all spawned strands have completed": once   *)
(* it has returned to a thread, no strand of that thread's program (the    *)
(* strands it spawned, those they spawned, ...) is in user code or about   *)
(* to be.                                                                  *)
JoinGuarantee ==
    \A t \in Threads : pc[t] = "returned" =>
        \A s \in Strands : root[s] = t =>
            pc[s] \in {"complete", "lock", "notify", "done"}

(* ACTIVE_STRANDS never drifts: at every step it is the number of strands  *)
(* between their spawner's fetch_add and their own fetch_sub.              *)
ActiveIsCounted == ACTIVE_STRANDS = Cardinality(Counted)

(* The counters account for every strand: spawned is completed plus active,*)
(* up to the strands that are between the two counter updates of a spawn   *)
(* (counted active first) or of an exit (uncounted as active first).       *)
CountersConserved ==
    TOTAL_SPAWNED + Cardinality({a \in Actors : pc[a] = "sp_total"}) =
        TOTAL_COMPLETED + ACTIVE_STRANDS
            + Cardinality({s \in Strands : pc[s] = "complete"})

(* PEAK_STRANDS is a true high-water mark: whenever no spawner is between  *)
(* its fetch_add and the end of its CAS loop, it equals the largest value  *)
(* ACTIVE_STRANDS has ever had, however the CAS loops raced.               *)
PeakIsHighWater ==
    (\A a \in Actors : pc[a] \notin {"sp_total", "sp_load", "sp_cas"})
        => PEAK_STRANDS = highWater

(* A sleeping waiter is never forgotten: if no strand is counted, some     *)
(* strand is still on its way to notify_all.                               *)
NoLostWakeup ==
    (\E t \in Threads : pc[t] = "sleep") =>
        \/ ACTIVE_STRANDS > 0
        \/ \E s \in Strands : \/ pc[s] \in {"lock", "notify"}
                              \/ pc[s] = "complete" /\ prev_count[s] = 1

(* Every thread that waits gets out: the shutdown protocol loses no        *)
(* wakeup, with any number of waiters.                                     *)
EveryWaiterReturns == <>(\A t \in Threads : pc[t] = "returned")
=============================================================================
