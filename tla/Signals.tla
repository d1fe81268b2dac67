--------------------------------- MODULE Signals ---------------------------------
(***************************************************************************)
(* OS signals, crates/runtime/src/signal: dispositions changed through      *)
(* sigaction, a handler that sets a flag, and strands that poll the flags.  *)
(*                                                                          *)
(* The kernel reads the disposition when it delivers and the handler stores *)
(* afterwards, in whatever thread it interrupted: a strand may change the   *)
(* disposition, or take or clear the flag, in between.  sigaction runs      *)
(* under a mutex and is one step.  signal.pending? changes nothing.         *)
(***************************************************************************)
EXTENDS Integers

CONSTANTS
    Signals,   \* signal numbers below MAX_SIGNAL
    MaxRaised  \* bound on the signals raised of each number

VARIABLES
    SIGNAL_FLAGS,
    disposition,  \* per signal: "default", "trap" or "ignore"
    alive,        \* FALSE once a signal took its default action
    raised,       \* per signal, how many were raised
    handling,     \* per signal, handlers entered that have not stored yet
    seen,         \* history: per signal, how often received? was true, in whatever strand
    merged,       \* history: per signal, handlers that found the flag set
    cleared,      \* history: per signal, set flags that were cleared
    ignored       \* history: per signal, those raised while it was ignored

vars == <<SIGNAL_FLAGS, disposition, alive, raised, handling, seen, merged, cleared, ignored>>

One(b) == IF b THEN 1 ELSE 0

-----------------------------------------------------------------------------
(* signal.trap, signal.default and signal.ignore: the flag is not touched.  *)
Install(sig, kind) ==
    /\ alive
    /\ disposition' = [disposition EXCEPT ![sig] = kind]
    /\ UNCHANGED <<SIGNAL_FLAGS, alive, raised, handling, seen, merged, cleared, ignored>>

(* Delivery by the kernel ...                                               *)
Deliver(sig) ==
    /\ alive /\ raised[sig] < MaxRaised
    /\ raised' = [raised EXCEPT ![sig] = @ + 1]
    /\ handling' = [handling EXCEPT ![sig] = @ + One(disposition[sig] = "trap")]
    /\ ignored' = [ignored EXCEPT ![sig] = @ + One(disposition[sig] = "ignore")]
    /\ alive' = (disposition[sig] # "default")
    /\ UNCHANGED <<SIGNAL_FLAGS, disposition, seen, merged, cleared>>

(* ... and the handler it enters.                                           *)
FlagHandler(sig) ==
    /\ alive /\ handling[sig] > 0
    /\ handling' = [handling EXCEPT ![sig] = @ - 1]
    /\ SIGNAL_FLAGS' = [SIGNAL_FLAGS EXCEPT ![sig] = TRUE]
    /\ merged' = [merged EXCEPT ![sig] = @ + One(SIGNAL_FLAGS[sig])]
    /\ UNCHANGED <<disposition, alive, raised, seen, cleared, ignored>>

(* signal.received? takes the flag and tells whether it was set: whichever  *)
(* strand asks, the swap is one step.                                       *)
(* Faulty variant: the flag is only read.                                   *)
ReceivedKeeping(sig) ==
    /\ alive /\ seen[sig] < 2 * MaxRaised
    /\ seen' = [seen EXCEPT ![sig] = @ + One(SIGNAL_FLAGS[sig])]
    /\ UNCHANGED <<SIGNAL_FLAGS, disposition, alive, raised, handling, merged, cleared, ignored>>

Received(sig) ==
    /\ alive
    /\ seen' = [seen EXCEPT ![sig] = @ + One(SIGNAL_FLAGS[sig])]
    /\ SIGNAL_FLAGS' = [SIGNAL_FLAGS EXCEPT ![sig] = FALSE]
    /\ UNCHANGED <<disposition, alive, raised, handling, merged, cleared, ignored>>

(* signal.clear.                                                            *)
Clear(sig) ==
    /\ alive
    /\ SIGNAL_FLAGS' = [SIGNAL_FLAGS EXCEPT ![sig] = FALSE]
    /\ cleared' = [cleared EXCEPT ![sig] = @ + One(SIGNAL_FLAGS[sig])]
    /\ UNCHANGED <<disposition, alive, raised, handling, seen, merged, ignored>>

-----------------------------------------------------------------------------
Init ==
    /\ SIGNAL_FLAGS = [sig \in Signals |-> FALSE]
    /\ disposition = [sig \in Signals |-> "default"]
    /\ alive = TRUE
    /\ raised = [sig \in Signals |-> 0] /\ handling = raised
    /\ seen = raised /\ merged = raised /\ cleared = raised /\ ignored = raised

Next ==
    \E sig \in Signals :
        \/ Deliver(sig) \/ FlagHandler(sig) \/ Received(sig) \/ Clear(sig)
        \/ \E kind \in {"trap", "default", "ignore"} : Install(sig, kind)

Spec == Init /\ [][Next]_vars

-----------------------------------------------------------------------------
(* Every signal raised is accounted for while the program runs: received by *)
(* exactly one strand ("only one will observe `true`"), cleared, merged     *)
(* into one not yet received, flagged, on its way to the flag, or ignored.  *)
EachAccounted ==
    alive => \A sig \in Signals :
        raised[sig] = seen[sig] + merged[sig] + cleared[sig] + ignored[sig]
                      + handling[sig] + One(SIGNAL_FLAGS[sig])

====
