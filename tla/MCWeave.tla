------------------------------- MODULE MCWeave -------------------------------
(***************************************************************************)
(* Diagnostics and, with it, Weave for TLC, in behaviors of two kinds, each *)
(* of which leaves one strand unborn: two strands and a weave that is       *)
(* resumed once, whose counters a dump or the report reads, and one strand  *)
(* with two weaves that are resumed three times, the readers idle.  Handles *)
(* go to anyone.                                                            *)
(***************************************************************************)
EXTENDS Diagnostics

CONSTANTS s2, w1, w2

VARIABLE kind

KindInit == kind \in {"read", "shared"} /\ DiagnosticsInit

KindNext ==
    /\ UNCHANGED kind
    /\ DiagnosticsNext
    /\ kind = "read" => /\ pc'[w2] = "unborn" /\ resumes'[w1] <= 1
                        /\ Blank \in {dump', report'}
    /\ kind = "shared" => pc'[s2] = "unborn" /\ UNCHANGED readers

KindSpec == KindInit /\ [][KindNext]_<<kind, everything>>
=============================================================================
