--------------------------------- MODULE MCDns ---------------------------------
(***************************************************************************)
(* What a strand waits for in the network, for TLC: the DNS resolver, and   *)
(* two UDP sockets in turn on one port (Udp), whose safety is part of       *)
(* MCHttpClient.  A behavior is of one kind; the other part stays where it  *)
(* begins.  Each host has an address of its own, so that an answer that     *)
(* belongs to another host can be told apart.                               *)
(***************************************************************************)
EXTENDS Dns, TLC

CONSTANTS h1, h2, a1, a2, s1, s2

MCAddrs == h1 :> {a1} @@ h2 :> {a2}

VARIABLES
    kind,
    sockets, free_ids, arcs, port, held, sent, handles, upc, hand, call, result  \* Udp

Datagrams == INSTANCE Udp WITH
    Strands <- {s1, s2}, Sockets <- {"k1", "k2"}, Ports <- {"p"}, MAX_SOCKETS <- 2, MaxSent <- 1,
    queue <- held, pc <- upc, job <- call, answer <- result

udpVars == <<sockets, free_ids, arcs, port, held, sent, handles, upc, hand, call, result>>

KindInit == kind \in {"dns", "udp"} /\ Init /\ (kind = "udp" => poolUp) /\ Datagrams!Init

KindNext ==
    /\ UNCHANGED kind
    /\ \/ kind = "dns" /\ Next /\ UNCHANGED udpVars
       \/ kind = "udp" /\ Datagrams!Next /\ UNCHANGED vars

KindSpec == KindInit /\ [][KindNext]_<<kind, vars, udpVars>> /\ Fairness /\ Datagrams!Fairness

-----------------------------------------------------------------------------
(* Every resolve returns, whoever leads, follows or fails; every UDP        *)
(* operation other than a receive ends, and a receive does once a datagram  *)
(* is there, even if its socket is closed meanwhile.                        *)
CallsReturn == ResolveReturns /\ Datagrams!OperationsEnd
=============================================================================
