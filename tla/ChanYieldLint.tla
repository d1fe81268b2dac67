----------------------------- MODULE ChanYieldLint -----------------------------
(***************************************************************************)
(* The chan.yield lint (crates/compiler/src/chan_yield_lint.rs): a yield is *)
(* an error in a word that no spawned code can come to.  The cooperative    *)
(* words are found with a worklist that is filled from hash sets, in any    *)
(* order and with repetitions.  A program is what the scans of its words    *)
(* collect: the calls, the words that spawn, the calls within quotations    *)
(* that are spawned on the spot, and the words that yield.                  *)
(***************************************************************************)
EXTENDS Naturals, Sequences, SequencesExt

CONSTANTS
    Words,    \* the program's words
    Programs  \* the programs considered

IsProgram(p) ==
    /\ p.calls \in [Words -> SUBSET Words]
    /\ p.spawners \subseteq Words /\ p.yields \subseteq Words
    /\ p.spawned \in [Words -> SUBSET Words]
    /\ \A w \in Words : p.spawned[w] \subseteq p.calls[w]
    /\ \A w \in Words : p.spawned[w] # {} => w \in p.spawners

VARIABLES
    program,
    phase,     \* "scan", "close", "report", "done"
    frontier,  \* worklist, a stack
    coop,      \* cooperative words
    reported   \* words whose yields are errors

vars == <<program, phase, frontier, coop, reported>>

Waiting == {frontier[i] : i \in 1 .. Len(frontier)}

Init ==
    /\ program \in Programs
    /\ phase = "scan"
    /\ frontier = <<>> /\ coop = {} /\ reported = {}

(* Faulty variant: the words that spawn are no seeds.                       *)
SeedsSpawned(p) == UNION {p.spawned[w] : w \in Words}

Seeds(p) == p.spawners \cup UNION {p.spawned[w] : w \in Words}

ScanForSeeds ==
    /\ phase = "scan" /\ phase' = "close"
    /\ frontier' \in SetToSeqs(Seeds(program))
    /\ UNCHANGED <<program, coop, reported>>

(* The topmost word joins, and its callees that have not joined wait.       *)
Close ==
    /\ phase = "close" /\ frontier # <<>>
    /\ LET w == frontier[Len(frontier)]
           rest == SubSeq(frontier, 1, Len(frontier) - 1)
       IN IF w \in coop THEN frontier' = rest /\ coop' = coop
          ELSE /\ coop' = coop \cup {w}
               /\ frontier' \in {rest \o more : more \in SetToSeqs(program.calls[w] \ (coop \cup {w}))}
    /\ UNCHANGED <<program, phase, reported>>

Closing ==
    /\ phase = "close" /\ frontier = <<>> /\ phase' = "report"
    /\ UNCHANGED <<program, frontier, coop, reported>>

Report ==
    /\ phase = "report" /\ phase' = "done"
    /\ reported' = program.yields \ coop
    /\ UNCHANGED <<program, frontier, coop>>

Next == ScanForSeeds \/ Close \/ Closing \/ Report

Spec == Init /\ [][Next]_vars

-----------------------------------------------------------------------------
TypeOK ==
    /\ IsProgram(program)
    /\ phase \in {"scan", "close", "report", "done"}
    /\ frontier \in Seq(Words)
    /\ coop \subseteq Words /\ reported \subseteq Words

(* The sets that the seeds cannot leave by calls.                           *)
Enclosing(S) ==
    /\ program.spawners \subseteq S
    /\ \A w \in Words : program.spawned[w] \subseteq S
    /\ \A w \in S : program.calls[w] \subseteq S

(* Whatever the order of the worklist, the words reported are the ones that *)
(* yield and that no chain of calls from a spawning or spawned word comes   *)
(* to: they are outside some set that encloses the seeds.                   *)
ReportExact ==
    phase = "done" =>
        \A w \in Words :
            w \in reported <=> /\ w \in program.yields
                               /\ \E S \in SUBSET Words : Enclosing(S) /\ w \notin S

====
