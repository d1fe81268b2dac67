------------------------------ MODULE Diagnostics ------------------------------
(***************************************************************************)
(* What the running program tells of itself: the dump on SIGQUIT and the    *)
(* report at exit (crates/runtime/src/diagnostics.rs, report.rs).  Both     *)
(* load the scheduler's counters one after the other, the dump from its own *)
(* thread while strands and weaves go on, the report from the main thread   *)
(* once scheduler_run has returned.  Composed with Weave, whose steps are   *)
(* the counters' updates; the registry and the arenas that both also print  *)
(* are StrandRegistry and MemoryStats.                                      *)
(***************************************************************************)
EXTENDS Weave

VARIABLES
    dump,   \* the dump's locals, and what was the case when it began
    report  \* the report's

readers == <<dump, report>>
everything == <<allVars, readers>>

Leaving == {s \in Strands : pc[s] = "complete"}

Blank == [at |-> "active", active |-> 0, spawned |-> 0, completed |-> 0, peak |-> 0,
          leaving |-> 0, before |-> 0]

-----------------------------------------------------------------------------
(***************************************************************************)
(* dump_diagnostics.                                                        *)
(***************************************************************************)
DumpActive ==
    /\ dump.at = "active"
    /\ dump' = [dump EXCEPT !.at = "spawned", !.active = ACTIVE_STRANDS,
                            !.leaving = Cardinality(Leaving), !.before = TOTAL_SPAWNED]
    /\ UNCHANGED <<allVars, report>>

DumpSpawned ==
    /\ dump.at = "spawned"
    /\ dump' = [dump EXCEPT !.at = "completed", !.spawned = TOTAL_SPAWNED]
    /\ UNCHANGED <<allVars, report>>

DumpCompleted ==
    /\ dump.at = "completed"
    /\ dump' = [dump EXCEPT !.at = "peak", !.completed = TOTAL_COMPLETED]
    /\ UNCHANGED <<allVars, report>>

DumpPeak ==
    /\ dump.at = "peak"
    /\ dump' = [dump EXCEPT !.at = "printed", !.peak = PEAK_STRANDS]
    /\ UNCHANGED <<allVars, report>>

(* The number of lost strands the dump warns of, if any.  saturating_sub.   *)
(* Faulty variant: those that are still active are not taken off.           *)
LostIgnoringActive(d) == Maximum(0, d.spawned - d.completed)

Lost(d) == Maximum(0, Maximum(0, d.spawned - d.active) - d.completed)

-----------------------------------------------------------------------------
(***************************************************************************)
(* collect_report_data, once every waiting thread has returned.             *)
(***************************************************************************)
(* Faulty variant: the report does not wait for scheduler_run to return.    *)
ReportSpawnedEarly ==
    /\ report.at = "active"
    /\ \E t \in Threads : pc[t] # "run"
    /\ report' = [report EXCEPT !.at = "completed", !.spawned = TOTAL_SPAWNED,
                                !.leaving = Cardinality(Leaving)]
    /\ UNCHANGED <<allVars, dump>>

ReportSpawned ==
    /\ report.at = "active"
    /\ \A t \in Threads : pc[t] = "returned"
    /\ report' = [report EXCEPT !.at = "completed", !.spawned = TOTAL_SPAWNED,
                                !.leaving = Cardinality(Leaving)]
    /\ UNCHANGED <<allVars, dump>>

ReportCompleted ==
    /\ report.at = "completed"
    /\ report' = [report EXCEPT !.at = "peak", !.completed = TOTAL_COMPLETED]
    /\ UNCHANGED <<allVars, dump>>

ReportPeak ==
    /\ report.at = "peak"
    /\ report' = [report EXCEPT !.at = "printed", !.peak = PEAK_STRANDS]
    /\ UNCHANGED <<allVars, dump>>

-----------------------------------------------------------------------------
DiagnosticsInit == WeaveInit /\ dump = Blank /\ report = Blank

DiagnosticsNext ==
    \/ WeaveNext /\ UNCHANGED readers
    \/ DumpActive \/ DumpSpawned \/ DumpCompleted \/ DumpPeak
    \/ ReportSpawned \/ ReportCompleted \/ ReportPeak

DiagnosticsSpec == DiagnosticsInit /\ [][DiagnosticsNext]_everything

-----------------------------------------------------------------------------
Printed(r) == r.at = "printed"

(* The dump's warning is bounded by what overlapped it: it names at most    *)
(* the strands that were between their two counters when it began and those *)
(* spawned while it ran; weaves, which no spawn counts, never add to it.    *)
WarningBounded == Printed(dump) => Lost(dump) <= dump.leaving + (dump.spawned - dump.before)

(* The report counts every strand spawned, and of those that ended it can   *)
(* miss only the ones still between their two counters when it began.       *)
ReportAccounts ==
    Printed(report) =>
        /\ report.spawned = Cardinality({s \in Plain : pc[s] # "unborn"})
        /\ report.completed + report.leaving >= report.spawned

(* A dump and a report are off by no more than what overlapped them.        *)
FiguresAccount == WarningBounded /\ ReportAccounts

(* A dump warns of lost strands only if strands were lost: here none is.    *)
NoFalseAlarm == Printed(dump) => Lost(dump) = 0

(* The strands the report calls done are among those it calls spawned.      *)
DoneWereSpawned == Printed(report) => report.completed <= report.spawned

(* All strands spawned have ended when the report is made, and it says so.  *)
EveryEndReported == Printed(report) => report.completed >= report.spawned

(* The peak a report gives is the most strands that were ever active.       *)
PeakReported == Printed(report) => report.peak = highWater

====
