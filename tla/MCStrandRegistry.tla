-------------------------- MODULE MCStrandRegistry --------------------------
(***************************************************************************)
(* The lock-free bookkeeping of strands and threads for TLC: the strand     *)
(* registry with its watchdog, the memory statistics of as many threads,    *)
(* and the signal flags that strands poll.  A behavior is of one kind; the  *)
(* other parts stay where they begin, the watchdog off.                     *)
(***************************************************************************)
EXTENDS StrandRegistry, TLC

CONSTANTS
    MAX_THREADS, ARENA_RESET_THRESHOLD, MaxUse, MaxOps,  \* MemoryStats
    Raisable, MaxRaised                                  \* Signals

VARIABLES
    kind,
    thread_id, arena_bytes, peak_arena_bytes, refused,                  \* MemoryStats
    mpc, slot, allocated, ops, highest, reader,
    SIGNAL_FLAGS, disposition, alive, raised, handling, seen, merged, cleared, ignored  \* Signals

Memory == INSTANCE MemoryStats WITH
    Threads <- Strands, None <- Free, overflow_count <- refused, pc <- mpc
Polled == INSTANCE Signals WITH Signals <- Raisable

ASSUME MemoryAssumption == Memory!MemoryAssumptions
ASSUME SignalAssumption == MaxRaised \in Nat

memoryVars == <<thread_id, arena_bytes, peak_arena_bytes, refused,
                mpc, slot, allocated, ops, highest, reader>>
signalVars == <<SIGNAL_FLAGS, disposition, alive, raised, handling, seen, merged, cleared, ignored>>

KindInit ==
    /\ Init /\ Memory!Init /\ Polled!Init
    /\ config.threshold = 0 => config.action = "warn"  \* never consulted
    /\ \/ kind = "registry"
       \/ kind \in {"memory", "signals"} /\ config.threshold = 0

KindNext ==
    /\ UNCHANGED kind
    /\ \/ kind = "registry" /\ Next /\ UNCHANGED <<memoryVars, signalVars>>
       \/ kind = "memory" /\ Memory!Next /\ UNCHANGED <<vars, signalVars>>
       \/ kind = "signals" /\ Polled!Next /\ UNCHANGED <<vars, memoryVars>>

KindSpec == KindInit /\ [][KindNext]_<<kind, vars, memoryVars, signalVars>>

Symmetry == Permutations(Strands)

-----------------------------------------------------------------------------
(* Nothing is lost on the way to a figure: a thread's slot is its own, and  *)
(* tells its exact memory and mark between two arena operations, no arena   *)
(* stays above the threshold, a thread is refused only when no slot is left *)
(* and then counted, an aggregation that races them loses and doubles       *)
(* nothing; and every signal raised is received once, cleared, merged into  *)
(* one not yet received, ignored, or on its way.                            *)
FiguresExact ==
    /\ kind = "memory" =>
         /\ Memory!TypeOK /\ Memory!SlotExclusive
         /\ Memory!StatsCurrent /\ Memory!ArenaBounded /\ Memory!OverflowExact /\ Memory!AggregateSound
    /\ kind = "signals" => Polled!EachAccounted
=============================================================================
