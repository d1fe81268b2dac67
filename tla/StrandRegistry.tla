---------------------------- MODULE StrandRegistry ----------------------------
(***************************************************************************)
(* The lock-free strand registry (crates/runtime/src/scheduler/registry.rs)*)
(* and its periodic reader, the watchdog (crates/runtime/src/watchdog.rs). *)
(* A slot is two atomics, strand_id and spawn_time, that are written and   *)
(* read one at a time; every access is a step of its own.                  *)
(*                                                                         *)
(* The accesses are interleaved as if sequentially consistent.  The code   *)
(* uses weaker orderings on spawn_time, so it has these behaviours and     *)
(* possibly more.  SystemTime (external) is a clock in seconds that only   *)
(* moves forward.                                                          *)
(***************************************************************************)
EXTENDS Naturals, FiniteSets

CONSTANTS Strands,     \* strand ids; NEXT_STRAND_ID hands each out once
          Free,        \* strand_id 0: the slot is free
          Capacity,    \* SEQ_STRAND_REGISTRY_SIZE
          Thresholds,  \* values of SEQ_WATCHDOG_SECS; 0 disables the watchdog
          Times        \* bound: the seconds at which something happens

ASSUME RegistryConstants ==
    /\ Free \notin Strands
    /\ Capacity \in Nat
    /\ 1 \in Times /\ Times \subseteq Nat \ {0}
    /\ Thresholds \subseteq Nat

Slots == 1..Capacity

VARIABLES
    strand_id, spawn_time,  \* the two atomics of each slot
    overflow_count,
    clock,
    pc,          \* where each strand is between its spawn and its end
    idx,         \* the slot its register or unregister has reached
    born,        \* the time its register call read
    config,      \* WatchdogConfig: [threshold, action]
    wpc, widx,   \* the watchdog: where it is, and the slot it has reached
    now, id, worst,             \* its locals
    WATCHDOG_TRIGGERED_STRAND,  \* Free before the first alert
    scanned,     \* history: the <<id, time>> pairs read by the current scan
    through      \* history: the strands registered since that scan began

slots    == <<strand_id, spawn_time, overflow_count>>
strands  == <<pc, idx, born>>
watchdog == <<config, wpc, widx, now, id, worst, WATCHDOG_TRIGGERED_STRAND,
              scanned>>
vars     == <<slots, clock, strands, watchdog, through>>

(* WatchdogConfig::from_env; the interval is left to the interleaving.     *)
Configs == [threshold : Thresholds, action : {"warn", "exit"}]

(* No finding yet: the None of the Option that worst is.                   *)
NoStrand == [strand |-> Free, secs |-> 0]

Init ==
    /\ strand_id = [i \in Slots |-> Free]
    /\ spawn_time = [i \in Slots |-> 0]
    /\ overflow_count = 0
    /\ clock = 1
    /\ pc = [s \in Strands |-> "unborn"]
    /\ idx = [s \in Strands |-> 1]
    /\ born = [s \in Strands |-> 0]
    /\ config \in Configs
    /\ wpc = IF config.threshold > 0 THEN "sleep" ELSE "off"
    /\ widx = 1 /\ now = 0 /\ id = Free
    /\ worst = NoStrand
    /\ WATCHDOG_TRIGGERED_STRAND = Free
    /\ scanned = {}
    /\ through = {}

Tick ==
    /\ clock' \in {t \in Times : t > clock}
    /\ UNCHANGED <<slots, strands, watchdog, through>>

-----------------------------------------------------------------------------
(* register, called by the spawner of s before the coroutine exists.       *)

RegisterCall(s) ==
    /\ pc[s] = "unborn"
    /\ born' = [born EXCEPT ![s] = clock]
    /\ pc' = [pc EXCEPT ![s] = "r_store"]
    /\ UNCHANGED <<slots, clock, idx, watchdog, through>>

(* The spawn time is stored before the slot is known to be free.           *)
RegisterStore(s) ==
    /\ pc[s] = "r_store"
    /\ idx[s] \in Slots
    /\ spawn_time' = [spawn_time EXCEPT ![idx[s]] = born[s]]
    /\ pc' = [pc EXCEPT ![s] = "r_claim"]
    /\ UNCHANGED <<strand_id, overflow_count, clock, idx, born, watchdog, through>>

(* Faulty variant: a store instead of a compare-and-swap.                  *)
RegisterOverwrite(s) ==
    /\ pc[s] = "r_claim"
    /\ strand_id' = [strand_id EXCEPT ![idx[s]] = s]
    /\ pc' = [pc EXCEPT ![s] = "run"]
    /\ idx' = [idx EXCEPT ![s] = 1]
    /\ UNCHANGED <<spawn_time, overflow_count, clock, born, watchdog, through>>

(* The compare-and-swap: the slot is claimed, or the scan goes on.         *)
RegisterClaim(s) ==
    /\ pc[s] = "r_claim"
    /\ \/ /\ strand_id[idx[s]] = Free
          /\ strand_id' = [strand_id EXCEPT ![idx[s]] = s]
          /\ pc' = [pc EXCEPT ![s] = "run"]
          /\ idx' = [idx EXCEPT ![s] = 1]
       \/ /\ strand_id[idx[s]] # Free
          /\ idx' = [idx EXCEPT ![s] = @ + 1]
          /\ pc' = [pc EXCEPT ![s] = "r_store"]
          /\ UNCHANGED strand_id
    /\ UNCHANGED <<spawn_time, overflow_count, clock, born, watchdog, through>>

(* No slot was free: the strand runs untracked.                            *)
RegisterOverflow(s) ==
    /\ pc[s] = "r_store"
    /\ idx[s] \notin Slots
    /\ overflow_count' = overflow_count + 1
    /\ pc' = [pc EXCEPT ![s] = "run"]
    /\ idx' = [idx EXCEPT ![s] = 1]
    /\ UNCHANGED <<strand_id, spawn_time, clock, born, watchdog, through>>

-----------------------------------------------------------------------------
(* unregister, called by the strand s when its entry function returns.     *)

UnregisterCall(s) ==
    /\ pc[s] = "run"
    /\ pc' = [pc EXCEPT ![s] = "u_clear"]
    /\ UNCHANGED <<slots, clock, idx, born, watchdog, through>>

(* Faulty variant: compare_exchange_weak, whose spurious failure is taken  *)
(* for somebody else's slot.                                               *)
UnregisterClearWeak(s) ==
    /\ pc[s] = "u_clear"
    /\ idx[s] \in Slots
    /\ \/ /\ strand_id[idx[s]] = s
          /\ strand_id' = [strand_id EXCEPT ![idx[s]] = Free]
          /\ pc' = [pc EXCEPT ![s] = "u_reset"]
          /\ through' = through \ {s}
          /\ UNCHANGED idx
       \/ /\ idx' = [idx EXCEPT ![s] = @ + 1]
          /\ UNCHANGED <<strand_id, pc, through>>
    /\ UNCHANGED <<spawn_time, overflow_count, clock, born, watchdog>>

(* The compare-and-swap from the strand's own id to 0.                     *)
UnregisterClear(s) ==
    /\ pc[s] = "u_clear"
    /\ idx[s] \in Slots
    /\ \/ /\ strand_id[idx[s]] = s
          /\ strand_id' = [strand_id EXCEPT ![idx[s]] = Free]
          /\ pc' = [pc EXCEPT ![s] = "u_reset"]
          /\ through' = through \ {s}
          /\ UNCHANGED idx
       \/ /\ strand_id[idx[s]] # s
          /\ idx' = [idx EXCEPT ![s] = @ + 1]
          /\ UNCHANGED <<strand_id, pc, through>>
    /\ UNCHANGED <<spawn_time, overflow_count, clock, born, watchdog>>

UnregisterReset(s) ==
    /\ pc[s] = "u_reset"
    /\ spawn_time' = [spawn_time EXCEPT ![idx[s]] = 0]
    /\ pc' = [pc EXCEPT ![s] = "gone"]
    /\ idx' = [idx EXCEPT ![s] = 1]
    /\ born' = [born EXCEPT ![s] = 0]
    /\ UNCHANGED <<strand_id, overflow_count, clock, watchdog, through>>

UnregisterMiss(s) ==
    /\ pc[s] = "u_clear"
    /\ idx[s] \notin Slots
    /\ pc' = [pc EXCEPT ![s] = "gone"]
    /\ idx' = [idx EXCEPT ![s] = 1]
    /\ born' = [born EXCEPT ![s] = 0]
    /\ UNCHANGED <<slots, clock, watchdog, through>>

-----------------------------------------------------------------------------
(* The watchdog thread: sleep, scan with active_strands, alert.            *)

(* The interval is over and check_for_stuck_strands reads the time.        *)
WatchBegin ==
    /\ wpc = "sleep"
    /\ now' = clock
    /\ through' = {s \in Strands : \E i \in Slots : strand_id[i] = s}
    /\ wpc' = "load_id"
    /\ UNCHANGED <<slots, clock, strands, config, widx, id, worst,
                   WATCHDOG_TRIGGERED_STRAND, scanned>>

(* Faulty variant: a free slot is not skipped.                             *)
WatchLoadAnyId ==
    /\ wpc = "load_id"
    /\ widx \in Slots
    /\ id' = strand_id[widx]
    /\ wpc' = "load_time"
    /\ UNCHANGED <<slots, clock, strands, config, widx, now, worst,
                   WATCHDOG_TRIGGERED_STRAND, scanned, through>>

(* Faulty variant: the scan stops at the first free slot.                  *)
WatchStopAtFree ==
    /\ wpc = "load_id"
    /\ widx \in Slots
    /\ \/ /\ strand_id[widx] = Free
          /\ widx' = Capacity + 1
          /\ UNCHANGED <<id, wpc>>
       \/ /\ strand_id[widx] # Free
          /\ id' = strand_id[widx]
          /\ wpc' = "load_time"
          /\ UNCHANGED widx
    /\ UNCHANGED <<slots, clock, strands, config, now, worst,
                   WATCHDOG_TRIGGERED_STRAND, scanned, through>>

(* active_strands reads the id of the next slot and skips a free one.      *)
WatchLoadId ==
    /\ wpc = "load_id"
    /\ widx \in Slots
    /\ \/ /\ strand_id[widx] = Free
          /\ widx' = widx + 1
          /\ UNCHANGED <<id, wpc>>
       \/ /\ strand_id[widx] # Free
          /\ id' = strand_id[widx]
          /\ wpc' = "load_time"
          /\ UNCHANGED widx
    /\ UNCHANGED <<slots, clock, strands, config, now, worst,
                   WATCHDOG_TRIGGERED_STRAND, scanned, through>>

(* saturating_sub.                                                         *)
RunningSecs(time) == IF now > time THEN now - time ELSE 0

(* Faulty variant: the last stuck strand instead of the longest.           *)
AnyStuck(time) == time # 0 /\ RunningSecs(time) > config.threshold

(* Over the threshold, and by more than what was found before.             *)
Worse(time) ==
    /\ time # 0
    /\ RunningSecs(time) > config.threshold
    /\ worst = NoStrand \/ RunningSecs(time) > worst.secs

(* ... and then its time; a time of 0 is skipped.                          *)
WatchLoadTime ==
    /\ wpc = "load_time"
    /\ scanned' = scanned \cup {<<id, spawn_time[widx]>>}
    /\ worst' = IF Worse(spawn_time[widx])
                THEN [strand |-> id, secs |-> RunningSecs(spawn_time[widx])]
                ELSE worst
    /\ id' = Free
    /\ widx' = widx + 1
    /\ wpc' = "load_id"
    /\ UNCHANGED <<slots, clock, strands, config, now,
                   WATCHDOG_TRIGGERED_STRAND, through>>

(* The scan is over: handle_stuck_strand if it found something.  It warns   *)
(* (and dumps the diagnostics unless the same strand triggered the last    *)
(* alert), and ends the process if so configured.                          *)
WatchEnd ==
    /\ wpc = "load_id"
    /\ widx \notin Slots
    /\ IF worst = NoStrand
       THEN /\ wpc' = "sleep"
            /\ UNCHANGED WATCHDOG_TRIGGERED_STRAND
       ELSE /\ WATCHDOG_TRIGGERED_STRAND' = worst.strand
            /\ wpc' = IF config.action = "exit" THEN "exited" ELSE "sleep"
    /\ now' = 0 /\ widx' = 1 /\ worst' = NoStrand
    /\ scanned' = {} /\ through' = {}
    /\ UNCHANGED <<slots, clock, strands, config, id>>

Watch == WatchBegin \/ WatchLoadId \/ WatchLoadTime \/ WatchEnd

-----------------------------------------------------------------------------
(* The process has ended, or nothing is left to do in it.                  *)
Ended ==
    /\ \/ wpc = "exited"
       \/ /\ wpc = "off"
          /\ \A t \in Times : t <= clock
          /\ \A s \in Strands : pc[s] = "gone"
    /\ UNCHANGED vars

StrandStep(s) ==
    \/ RegisterCall(s) \/ RegisterStore(s) \/ RegisterClaim(s) \/ RegisterOverflow(s)
    \/ UnregisterCall(s) \/ UnregisterClear(s) \/ UnregisterReset(s) \/ UnregisterMiss(s)

Next ==
    \/ wpc # "exited" /\ (Tick \/ Watch \/ \E s \in Strands : StrandStep(s))
    \/ Ended

Spec == Init /\ [][Next]_vars

-----------------------------------------------------------------------------
StrandLabels == {"unborn", "r_store", "r_claim", "run", "u_clear", "u_reset", "gone"}

(* Every atomic of a slot and every local of register, unregister and the  *)
(* watchdog's scan has its type; no scan leaves the array by more than one.*)
TypeOK ==
    /\ strand_id \in [Slots -> Strands \cup {Free}]
    /\ spawn_time \in [Slots -> Times \cup {0}]
    /\ overflow_count \in Nat
    /\ clock \in Times
    /\ pc \in [Strands -> StrandLabels]
    /\ idx \in [Strands -> 1..(Capacity + 1)]
    /\ born \in [Strands -> Times \cup {0}]
    /\ config \in Configs
    /\ wpc \in {"off", "sleep", "load_id", "load_time", "exited"}
    /\ widx \in 1..(Capacity + 1)
    /\ now \in Times \cup {0}
    /\ id \in Strands \cup {Free}
    /\ worst \in [strand : Strands \cup {Free}, secs : Nat]
    /\ WATCHDOG_TRIGGERED_STRAND \in Strands \cup {Free}
    /\ scanned \subseteq Strands \X (Times \cup {0})
    /\ through \subseteq Strands

SlotsOf(s) == {i \in Slots : strand_id[i] = s}
Tracked    == {s \in Strands : SlotsOf(s) # {}}

(* Claiming and clearing by compare-and-swap keeps every strand's entry    *)
(* its own: no strand is in two slots, none is in a slot before its claim  *)
(* or after its unregister, and those that run without a slot are at most  *)
(* the ones overflow_count counts.                                         *)
EntriesOwned ==
    /\ \A s \in Strands : Cardinality(SlotsOf(s)) <= 1
    /\ \A s \in Tracked : pc[s] \in {"run", "u_clear"}
    /\ Cardinality({s \in Strands : pc[s] = "run"} \ Tracked) <= overflow_count

(* unregister "scans for the slot containing this strand ID and clears     *)
(* it": it never walks past the slot, whatever others do meanwhile.        *)
UnregisterFinds ==
    \A s \in Tracked : pc[s] = "u_clear" => \E i \in SlotsOf(s) : idx[s] <= i

(* A scan of active_strands may be inconsistent, but it misses no strand   *)
(* that is registered from its beginning to its end, and lists no strand   *)
(* twice.                                                                  *)
SnapshotComplete ==
    /\ wpc = "load_id" /\ widx \notin Slots =>
           through \subseteq {p[1] : p \in scanned}
    /\ \A p, q \in scanned : p[1] = q[1] => p = q

(* check_for_stuck_strands returns "the longest-running stuck strand" of   *)
(* those it saw: nothing if none is over the threshold, and otherwise a    *)
(* largest excess.                                                         *)
LongestReported ==
    wpc = "load_id" /\ widx \notin Slots =>
        LET stuck == {p \in scanned : p[2] # 0 /\ RunningSecs(p[2]) > config.threshold}
        IN  IF stuck = {} THEN worst = NoStrand
            ELSE \E p \in stuck :
                    /\ worst = [strand |-> p[1], secs |-> RunningSecs(p[2])]
                    /\ \A q \in stuck : RunningSecs(q[2]) <= worst.secs

(* Slots claimed and cleared by compare-and-swap have one owner, and an    *)
(* owner one slot; unregister finds it, and only a full registry refuses.  *)
SlotsOwned == TypeOK /\ EntriesOwned /\ UnregisterFinds

(* A scan that races register and unregister misses no strand that was     *)
(* there throughout, lists none twice, and the watchdog reports the        *)
(* longest-running of those it saw.                                        *)
ScanTrue == SnapshotComplete /\ LongestReported

-----------------------------------------------------------------------------
(* What the documentation says of the watchdog.                            *)

(* "The watchdog compares each strand's spawn time against the current     *)
(* time to detect strands that have been running longer than the           *)
(* threshold": a scan that ends finds something if some strand, registered *)
(* throughout, was spawned more than the threshold ago.                    *)
StuckIsSeen ==
    wpc = "load_id" /\ widx \notin Slots =>
        ((\E s \in through : RunningSecs(born[s]) > config.threshold)
            => worst # NoStrand)
=============================================================================
