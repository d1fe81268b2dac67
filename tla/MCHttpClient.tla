----------------------------- MODULE MCHttpClient -----------------------------
(***************************************************************************)
(* The HTTP client with its pool for TLC and, beside it, the UDP registry.  *)
(* A behavior is of one part; the other stays where it begins.  The two     *)
(* strands, the connections or sockets and the two keys or ports are alike. *)
(***************************************************************************)
EXTENDS HttpClient, TLC

CONSTANTS
    MAX_SOCKETS,  \* slots of the UDP registry
    MaxSent       \* bound on the datagrams sent

VARIABLES
    part,
    sockets, free_ids, arcs, port, queue, sent, handles, upc, hand, job, result  \* Udp

Datagrams == INSTANCE Udp WITH
    Sockets <- Conns, Ports <- Keys \cup {"any"}, pc <- upc, answer <- result

ASSUME HttpAssumption == PoolAssumptions
ASSUME UdpAssumption == Datagrams!UdpAssumptions

udpVars == <<sockets, free_ids, arcs, port, queue, sent, handles, upc, hand, job, result>>

PartInit == part \in {"udp", "http"} /\ Init /\ Datagrams!Init

PartNext ==
    /\ UNCHANGED part
    /\ \/ part = "http" /\ Next /\ UNCHANGED udpVars
       \/ part = "udp" /\ Datagrams!Next /\ UNCHANGED vars

PartSpec == PartInit /\ [][PartNext]_<<part, vars, udpVars>>

Symmetry == Permutations(Strands) \cup Permutations(Conns) \cup Permutations(Keys)

-----------------------------------------------------------------------------
(* A UDP socket is open as long as its slot or an operation in flight holds *)
(* it, even when its id was closed and given to another meanwhile; its id   *)
(* is free or in use but never both, and a datagram is received once.       *)
DatagramsSound == Datagrams!DatagramsSound
=============================================================================
