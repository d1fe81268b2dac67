------------------------------ MODULE MemoryStats ------------------------------
(***************************************************************************)
(* The registry of per-thread memory statistics and the arenas that feed it *)
(* (crates/core/src/memory_stats.rs, arena.rs).  Every worker thread claims *)
(* a slot with a compare-and-swap when it first uses its arena, and is the  *)
(* only one to write it; the diagnostics thread and the at-exit report read *)
(* all slots while the owners write.  Every atomic operation is a step.     *)
(*                                                                          *)
(* Bytes are counted in units of what one closure may allocate; a thread    *)
(* that never allocates never claims a slot.                                *)
(***************************************************************************)
EXTENDS Integers, FiniteSets, FiniteSetsExt

CONSTANTS
    Threads,
    None,
    MAX_THREADS,            \* slots of the registry
    ARENA_RESET_THRESHOLD,
    MaxUse,                 \* bound: what one use of an arena may allocate
    MaxOps                  \* bound: arena uses and strand exits

(* What the proofs need of the constants.                                   *)
MemoryAssumptions ==
    /\ None \notin Threads /\ IsFiniteSet(Threads)
    /\ {MAX_THREADS, ARENA_RESET_THRESHOLD, MaxUse, MaxOps} \subseteq Nat

Slots == 1 .. MAX_THREADS
NoSlot == 0

VARIABLES
    thread_id, arena_bytes, peak_arena_bytes,  \* the slots
    overflow_count,
    pc,         \* per thread: what it does next
    slot,       \* per thread: the slot it tries, then the one it has or NoSlot
    allocated,  \* per thread: ARENA_BYTES_ALLOCATED
    ops,        \* arena operations so far
    highest,    \* history: per thread, the most its arena held
    reader      \* the aggregation: its next slot and load, and its sums

registry == <<thread_id, arena_bytes, peak_arena_bytes, overflow_count>>
thread == <<pc, slot, allocated, ops, highest>>
vars == <<registry, thread, reader>>

Tracked == {t \in Threads : slot[t] # NoSlot /\ pc[t] \notin {"new", "claim"}}
Refused == {t \in Threads : slot[t] = NoSlot /\ pc[t] # "new"}

Go(t, label) == pc' = [pc EXCEPT ![t] = label]

-----------------------------------------------------------------------------
(***************************************************************************)
(* The thread's first use of its arena registers it: it tries the slots one *)
(* after the other and counts itself when none was free.                    *)
(***************************************************************************)
FirstUse(t) ==
    /\ pc[t] = "new"
    /\ Go(t, "claim")
    /\ slot' = [slot EXCEPT ![t] = 1]
    /\ UNCHANGED <<registry, allocated, ops, highest, reader>>

(* Faulty variant: the slot is read, and taken, whoever has it.             *)
ClaimAnyway(t) ==
    /\ pc[t] = "claim" /\ slot[t] \in Slots
    /\ thread_id' = [thread_id EXCEPT ![slot[t]] = t]
    /\ Go(t, "use")
    /\ UNCHANGED <<arena_bytes, peak_arena_bytes, overflow_count, slot, allocated, ops, highest, reader>>

ClaimSlot(t) ==
    /\ pc[t] = "claim" /\ slot[t] \in Slots
    /\ \/ /\ thread_id[slot[t]] = None
          /\ thread_id' = [thread_id EXCEPT ![slot[t]] = t]
          /\ Go(t, "use")
          /\ UNCHANGED slot
       \/ /\ thread_id[slot[t]] # None
          /\ slot' = [slot EXCEPT ![t] = @ + 1]
          /\ UNCHANGED <<thread_id, pc>>
    /\ UNCHANGED <<arena_bytes, peak_arena_bytes, overflow_count, allocated, ops, highest, reader>>

(* Faulty variant: nobody counts the thread.                                *)
FullUncounted(t) ==
    /\ pc[t] = "claim" /\ slot[t] \notin Slots
    /\ slot' = [slot EXCEPT ![t] = NoSlot]
    /\ Go(t, "use")
    /\ UNCHANGED <<registry, allocated, ops, highest, reader>>

(* Faulty variant: the index past the slots is kept as the thread's.        *)
FullKeepsIndex(t) ==
    /\ pc[t] = "claim" /\ slot[t] \notin Slots
    /\ overflow_count' = overflow_count + 1
    /\ Go(t, "use")
    /\ UNCHANGED <<thread_id, arena_bytes, peak_arena_bytes, slot, allocated, ops, highest, reader>>

RegistryFull(t) ==
    /\ pc[t] = "claim" /\ slot[t] \notin Slots
    /\ overflow_count' = overflow_count + 1
    /\ slot' = [slot EXCEPT ![t] = NoSlot]
    /\ Go(t, "use")
    /\ UNCHANGED <<thread_id, arena_bytes, peak_arena_bytes, allocated, ops, highest, reader>>

-----------------------------------------------------------------------------
(***************************************************************************)
(* with_arena: allocate, store the new size, raise the mark, and reset the  *)
(* arena past the threshold.  A thread without a slot skips the registry.   *)
(***************************************************************************)
WithArena(t, n) ==
    /\ pc[t] = "use" /\ ops < MaxOps
    /\ ops' = ops + 1
    /\ allocated' = [allocated EXCEPT ![t] = @ + n]
    /\ highest' = [highest EXCEPT ![t] = Max({@, allocated[t] + n})]
    /\ Go(t, IF slot[t] = NoSlot THEN "check" ELSE "store")
    /\ UNCHANGED <<registry, slot, reader>>

StoreBytes(t) ==
    /\ pc[t] \in {"store", "store0"}
    /\ arena_bytes' = [arena_bytes EXCEPT ![slot[t]] = allocated[t]]
    /\ Go(t, IF pc[t] = "store" THEN "max" ELSE "use")
    /\ UNCHANGED <<thread_id, peak_arena_bytes, overflow_count, slot, allocated, ops, highest, reader>>

(* atomic_max: one swap suffices, since nobody else writes the mark; that   *)
(* of the zero a reset stores never raises it.                              *)
AtomicMax(t) ==
    /\ pc[t] = "max"
    /\ peak_arena_bytes' = [peak_arena_bytes EXCEPT ![slot[t]] = Max({@, allocated[t]})]
    /\ Go(t, "check")
    /\ UNCHANGED <<thread_id, arena_bytes, overflow_count, slot, allocated, ops, highest, reader>>

(* arena_reset: the arena is emptied, then the slot is told.                *)
(* Faulty variant: the registry is not told.                                *)
ResetSilently(t) ==
    /\ allocated' = [allocated EXCEPT ![t] = 0]
    /\ Go(t, "use")
    /\ UNCHANGED <<registry, slot, highest, reader>>

ArenaReset(t) ==
    /\ allocated' = [allocated EXCEPT ![t] = 0]
    /\ Go(t, IF slot[t] = NoSlot THEN "use" ELSE "store0")
    /\ UNCHANGED <<registry, slot, highest, reader>>

(* Faulty variant: the threshold is never looked at.                        *)
NeverReset(t) ==
    /\ pc[t] = "check"
    /\ Go(t, "use")
    /\ UNCHANGED <<registry, slot, allocated, ops, highest, reader>>

ShouldReset(t) ==
    /\ pc[t] = "check"
    /\ \/ /\ allocated[t] > ARENA_RESET_THRESHOLD
          /\ ArenaReset(t)
       \/ /\ allocated[t] <= ARENA_RESET_THRESHOLD
          /\ Go(t, "use")
          /\ UNCHANGED <<registry, slot, allocated, highest, reader>>
    /\ UNCHANGED ops

(* A strand that ends on the thread resets its arena.                       *)
StrandExit(t) ==
    /\ pc[t] = "use" /\ ops < MaxOps
    /\ ops' = ops + 1
    /\ ArenaReset(t)

-----------------------------------------------------------------------------
(***************************************************************************)
(* aggregate_stats: three loads per claimed slot, the first of which        *)
(* decides whether the others are made.  The slots that were claimed when   *)
(* it began and their marks are kept as history.                            *)
(***************************************************************************)
Quiet == [at |-> 0, load |-> "id", active |-> 0, bytes |-> 0, peak |-> 0, overflow |-> 0,
          claimed |-> {}, marks |-> [i \in Slots |-> 0]]

Claimed == {i \in Slots : thread_id[i] # None}

(* The sums of f over the first n slots, and over all.                      *)
Sums(f) == LET sum[n \in 0 .. MAX_THREADS] == IF n = 0 THEN 0 ELSE sum[n - 1] + f[n] IN sum
Total(f) == Sums(f)[MAX_THREADS]

BeginAggregate ==
    /\ reader.at = 0
    /\ reader' = [Quiet EXCEPT !.at = 1, !.claimed = Claimed, !.marks = peak_arena_bytes]
    /\ UNCHANGED <<registry, thread>>

(* Faulty variant: the slots end at the first that is free.                 *)
LoadIdStopping ==
    /\ reader.at \in Slots /\ reader.load = "id"
    /\ reader' = IF thread_id[reader.at] = None THEN [reader EXCEPT !.at = MAX_THREADS + 1]
                 ELSE [reader EXCEPT !.load = "bytes"]
    /\ UNCHANGED <<registry, thread>>

LoadId ==
    /\ reader.at \in Slots /\ reader.load = "id"
    /\ reader' = IF thread_id[reader.at] = None THEN [reader EXCEPT !.at = @ + 1]
                 ELSE [reader EXCEPT !.load = "bytes", !.active = @ + 1]
    /\ UNCHANGED <<registry, thread>>

LoadBytes ==
    /\ reader.at \in Slots /\ reader.load = "bytes"
    /\ reader' = [reader EXCEPT !.load = "peak", !.bytes = @ + arena_bytes[reader.at]]
    /\ UNCHANGED <<registry, thread>>

LoadPeak ==
    /\ reader.at \in Slots /\ reader.load = "peak"
    /\ reader' = [reader EXCEPT !.load = "id", !.at = @ + 1, !.peak = @ + peak_arena_bytes[reader.at]]
    /\ UNCHANGED <<registry, thread>>

LoadOverflow ==
    /\ reader.at = MAX_THREADS + 1
    /\ reader' = [reader EXCEPT !.at = MAX_THREADS + 2, !.overflow = overflow_count]
    /\ UNCHANGED <<registry, thread>>

-----------------------------------------------------------------------------
Init ==
    /\ thread_id = [i \in Slots |-> None]
    /\ arena_bytes = [i \in Slots |-> 0] /\ peak_arena_bytes = arena_bytes
    /\ overflow_count = 0
    /\ pc = [t \in Threads |-> "new"]
    /\ slot = [t \in Threads |-> NoSlot]
    /\ allocated = [t \in Threads |-> 0] /\ highest = allocated
    /\ ops = 0
    /\ reader = Quiet

Next ==
    \/ \E t \in Threads :
        \/ FirstUse(t) \/ ClaimSlot(t) \/ RegistryFull(t)
        \/ \E n \in 0 .. MaxUse : WithArena(t, n)
        \/ StoreBytes(t) \/ AtomicMax(t) \/ ShouldReset(t) \/ StrandExit(t)
    \/ BeginAggregate \/ LoadId \/ LoadBytes \/ LoadPeak \/ LoadOverflow

Spec == Init /\ [][Next]_vars

-----------------------------------------------------------------------------
Aggregated == reader.at = MAX_THREADS + 2

(* Variables have their types.                                              *)
TypeOK ==
    /\ thread_id \in [Slots -> Threads \cup {None}]
    /\ arena_bytes \in [Slots -> Nat] /\ peak_arena_bytes \in [Slots -> Nat]
    /\ slot \in [Threads -> 0 .. MAX_THREADS + 1]
    /\ \A t \in Threads : pc[t] # "claim" => slot[t] \in Slots \cup {NoSlot}
    /\ allocated \in [Threads -> 0 .. ARENA_RESET_THRESHOLD + MaxUse]

(* Threads that register at the same moment never share a slot, none takes  *)
(* two, and a thread is refused only when all slots are taken: the next     *)
(* thread cannot be refused while a slot the scan passed is free.           *)
SlotExclusive ==
    /\ \A t \in Tracked : {i \in Slots : thread_id[i] = t} = {slot[t]}
    /\ Refused # {} => Claimed = Slots

(* Between two arena operations a slot tells its thread's exact memory and  *)
(* the most it ever was, whatever resets came between.                      *)
StatsCurrent ==
    \A t \in Tracked : pc[t] = "use" => /\ arena_bytes[slot[t]] = allocated[t]
                                        /\ peak_arena_bytes[slot[t]] = highest[t]

(* No arena stays above the threshold after a use of it.                    *)
ArenaBounded == \A t \in Threads : pc[t] = "use" => allocated[t] <= ARENA_RESET_THRESHOLD

(* Every thread that uses its arena is tracked or counted as refused.       *)
OverflowExact == overflow_count = Cardinality(Refused)

(* An aggregation that races the threads reports no thread twice and misses *)
(* none that was registered when it began; its peak lies between the peaks  *)
(* at its beginning and those now.                                          *)
AggregateSound ==
    Aggregated => /\ reader.active >= Cardinality(reader.claimed)
                  /\ reader.active <= Cardinality(Claimed)
                  /\ reader.peak >= Total(reader.marks) /\ reader.peak <= Total(peak_arena_bytes)
                  /\ reader.overflow <= overflow_count

(* The peak an aggregation reports is at least the current memory it        *)
(* reports: it is a high-water mark.                                        *)
PeakAtLeastCurrent == Aggregated => reader.peak >= reader.bytes

====
