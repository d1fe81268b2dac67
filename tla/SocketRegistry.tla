---------------------------- MODULE SocketRegistry ----------------------------
(***************************************************************************)
(* The two socket registries of crates/runtime/src/tcp.rs, LISTENERS and   *)
(* STREAMS: a vector of slots and a stack of free ids behind one mutex     *)
(* each.  An operation that blocks (accept, read, write, the TLS handshake *)
(* of tls.rs) takes the socket out of its slot, releases the mutex, and    *)
(* puts the socket back afterwards; meanwhile the slot is empty without    *)
(* being free.  Each step here is one critical section.                    *)
(*                                                                         *)
(* Ids count from 1 (from 0 in the code).  A program may pass any id it    *)
(* has ever been given, to any operation.  An operation that finds nothing *)
(* in the slot answers false and changes nothing, and net.tcp.local-port   *)
(* changes nothing at all: both are stuttering steps.                      *)
(***************************************************************************)
EXTENDS Naturals, Sequences, Functions

CONSTANTS Strands,
          Sockets,      \* the sockets the operating system hands out
          None,
          MAX_SOCKETS   \* slots of one registry

ASSUME SocketConstants == None \notin Sockets /\ MAX_SOCKETS \in Nat

Registries == {"listeners", "streams"}

VARIABLES
    sockets,   \* per registry, the slots: a socket or None
    free_ids,  \* per registry, the stack of free ids
    kind,      \* "new", "listener", "tcp", "tls", or "closed" once dropped
    pc,
    id,        \* the id a strand's operation works on
    hand       \* the socket a strand has taken out, or is about to store

registry == <<sockets, free_ids>>
strand   == <<pc, id, hand>>
vars     == <<registry, kind, strand>>

(* Where a strand is, by the registry in which it keeps a slot empty.      *)
Reserving == [listeners |-> {"accept"}, streams |-> {"io", "handshake", "release"}]

Ids(r) == 1..Len(sockets[r])

Init ==
    /\ sockets = [r \in Registries |-> <<>>]
    /\ free_ids = [r \in Registries |-> <<>>]
    /\ kind = [c \in Sockets |-> "new"]
    /\ pc = [s \in Strands |-> "idle"]
    /\ id = [s \in Strands |-> 0]
    /\ hand = [s \in Strands |-> None]

-----------------------------------------------------------------------------
(* The methods of SocketRegistry.                                          *)

Fill(r, i, c) == [sockets EXCEPT ![r] = [@ EXCEPT ![i] = c]]

(* Faulty variant: the limit is checked with > instead of >=.              *)
AllocateOneMore(r, c, k) ==
    \/ /\ free_ids[r] # <<>>
       /\ sockets' = Fill(r, free_ids[r][Len(free_ids[r])], c)
       /\ free_ids' = [free_ids EXCEPT ![r] = SubSeq(@, 1, Len(@) - 1)]
       /\ kind' = [kind EXCEPT ![c] = k]
    \/ /\ free_ids[r] = <<>>
       /\ Len(sockets[r]) <= MAX_SOCKETS
       /\ sockets' = [sockets EXCEPT ![r] = Append(@, c)]
       /\ kind' = [kind EXCEPT ![c] = k]
       /\ UNCHANGED free_ids

(* allocate: the id freed last, else a new one, else the socket is dropped.*)
Allocate(r, c, k) ==
    \/ /\ free_ids[r] # <<>>
       /\ sockets' = Fill(r, free_ids[r][Len(free_ids[r])], c)
       /\ free_ids' = [free_ids EXCEPT ![r] = SubSeq(@, 1, Len(@) - 1)]
       /\ kind' = [kind EXCEPT ![c] = k]
    \/ /\ free_ids[r] = <<>>
       /\ Len(sockets[r]) < MAX_SOCKETS
       /\ sockets' = [sockets EXCEPT ![r] = Append(@, c)]
       /\ kind' = [kind EXCEPT ![c] = k]
       /\ UNCHANGED free_ids
    \/ /\ free_ids[r] = <<>>
       /\ Len(sockets[r]) >= MAX_SOCKETS
       /\ kind' = [kind EXCEPT ![c] = "closed"]
       /\ UNCHANGED registry

(* free, on an occupied slot; on an empty one it does nothing.             *)
Free(r, i) ==
    /\ sockets' = Fill(r, i, None)
    /\ free_ids' = [free_ids EXCEPT ![r] = Append(@, i)]
    /\ kind' = [kind EXCEPT ![sockets[r][i]] = "closed"]

Take(s, r, i, next) ==
    /\ pc[s] = "idle"
    /\ i \in Ids(r)
    /\ sockets[r][i] # None
    /\ sockets' = Fill(r, i, None)
    /\ hand' = [hand EXCEPT ![s] = sockets[r][i]]
    /\ id' = [id EXCEPT ![s] = i]
    /\ pc' = [pc EXCEPT ![s] = next]

Return(s) ==
    /\ pc' = [pc EXCEPT ![s] = "idle"]
    /\ hand' = [hand EXCEPT ![s] = None]
    /\ id' = [id EXCEPT ![s] = 0]

-----------------------------------------------------------------------------
(* net.tcp.listen and net.tcp.connect: the socket exists before the        *)
(* registry is locked; if bind or connect fails nothing happens.           *)
Listen(s, c) ==
    /\ pc[s] = "idle"
    /\ kind[c] = "new"
    /\ Allocate("listeners", c, "listener")
    /\ UNCHANGED strand

Connect(s, c) ==
    /\ pc[s] = "idle"
    /\ kind[c] = "new"
    /\ Allocate("streams", c, "tcp")
    /\ UNCHANGED strand

(* net.tcp.accept.                                                         *)
AcceptTake(s, i) == Take(s, "listeners", i, "accept") /\ UNCHANGED <<free_ids, kind>>

AcceptFails(s) ==
    /\ pc[s] = "accept"
    /\ sockets' = Fill("listeners", id[s], hand[s])
    /\ Return(s)
    /\ UNCHANGED <<free_ids, kind>>

(* A connection arrives: the listener goes back first.                     *)
AcceptReturns(s, c) ==
    /\ pc[s] = "accept"
    /\ kind[c] = "new"
    /\ sockets' = Fill("listeners", id[s], hand[s])
    /\ kind' = [kind EXCEPT ![c] = "tcp"]
    /\ pc' = [pc EXCEPT ![s] = "store"]
    /\ hand' = [hand EXCEPT ![s] = c]
    /\ id' = [id EXCEPT ![s] = 0]
    /\ UNCHANGED free_ids

AcceptStore(s) ==
    /\ pc[s] = "store"
    /\ Allocate("streams", hand[s], "tcp")
    /\ Return(s)

(* Faulty variant: the operation uses a second handle of the socket.       *)
IoShare(s, i) ==
    /\ pc[s] = "idle"
    /\ sockets["streams"][i] # None
    /\ hand' = [hand EXCEPT ![s] = sockets["streams"][i]]
    /\ id' = [id EXCEPT ![s] = i]
    /\ pc' = [pc EXCEPT ![s] = "io"]
    /\ UNCHANGED <<registry, kind>>

(* net.tcp.read and net.tcp.write, whatever the outcome of the I/O.        *)
IoTake(s, i) == Take(s, "streams", i, "io") /\ UNCHANGED <<free_ids, kind>>

IoReturns(s) ==
    /\ pc[s] = "io"
    /\ sockets' = Fill("streams", id[s], hand[s])
    /\ Return(s)
    /\ UNCHANGED <<free_ids, kind>>

(* net.tls.client: take_tcp leaves a TLS socket where it is.               *)
UpgradeTake(s, i) ==
    /\ Take(s, "streams", i, "handshake")
    /\ kind[sockets["streams"][i]] = "tcp"
    /\ UNCHANGED <<free_ids, kind>>

UpgradeOk(s) ==
    /\ pc[s] = "handshake"
    /\ sockets' = Fill("streams", id[s], hand[s])
    /\ kind' = [kind EXCEPT ![hand[s]] = "tls"]
    /\ Return(s)
    /\ UNCHANGED free_ids

(* A failed handshake drops the connection ...                             *)
UpgradeFails(s) ==
    /\ pc[s] = "handshake"
    /\ kind' = [kind EXCEPT ![hand[s]] = "closed"]
    /\ hand' = [hand EXCEPT ![s] = None]
    /\ pc' = [pc EXCEPT ![s] = "release"]
    /\ UNCHANGED <<registry, id>>

(* Faulty variant: plain free, which ignores an empty slot.                *)
FreeReserved(s) ==
    /\ pc[s] = "release"
    /\ Return(s)
    /\ UNCHANGED <<registry, kind>>

(* ... and release_reserved gives its id back, once.                       *)
ReleaseReserved(s) ==
    /\ pc[s] = "release"
    /\ free_ids' = IF /\ sockets["streams"][id[s]] = None
                      /\ id[s] \notin Range(free_ids["streams"])
                   THEN [free_ids EXCEPT !["streams"] = Append(@, id[s])]
                   ELSE free_ids
    /\ Return(s)
    /\ UNCHANGED <<sockets, kind>>

(* Faulty variant: an empty slot is freed as well.                         *)
CloseStreamsUnguarded(s, i) ==
    /\ pc[s] = "idle"
    /\ i \in Ids("streams")
    /\ sockets' = Fill("streams", i, None)
    /\ free_ids' = [free_ids EXCEPT !["streams"] = Append(@, i)]
    /\ kind' = [c \in Sockets |-> IF c = sockets["streams"][i] THEN "closed" ELSE kind[c]]
    /\ UNCHANGED strand

(* net.tcp.close looks for a stream with the id ...                        *)
CloseStreams(s, i) ==
    /\ pc[s] = "idle"
    /\ i \in Ids("streams") \cup Ids("listeners")
    /\ \/ /\ i \in Ids("streams") /\ sockets["streams"][i] # None
          /\ Free("streams", i)
          /\ UNCHANGED strand
       \/ /\ ~(i \in Ids("streams") /\ sockets["streams"][i] # None)
          /\ pc' = [pc EXCEPT ![s] = "close"]
          /\ id' = [id EXCEPT ![s] = i]
          /\ UNCHANGED <<registry, kind, hand>>

(* ... and then for a listener.                                            *)
CloseListeners(s) ==
    /\ pc[s] = "close"
    /\ \/ /\ id[s] \in Ids("listeners") /\ sockets["listeners"][id[s]] # None
          /\ Free("listeners", id[s])
       \/ /\ ~(id[s] \in Ids("listeners") /\ sockets["listeners"][id[s]] # None)
          /\ UNCHANGED <<registry, kind>>
    /\ Return(s)

-----------------------------------------------------------------------------
Next ==
    \E s \in Strands :
        \/ \E c \in Sockets : Listen(s, c) \/ Connect(s, c) \/ AcceptReturns(s, c)
        \/ \E i \in Ids("listeners") : AcceptTake(s, i)
        \/ \E i \in Ids("streams") : IoTake(s, i) \/ UpgradeTake(s, i)
        \/ \E i \in Ids("streams") \cup Ids("listeners") : CloseStreams(s, i)
        \/ AcceptFails(s) \/ AcceptStore(s) \/ IoReturns(s)
        \/ UpgradeOk(s) \/ UpgradeFails(s) \/ ReleaseReserved(s)
        \/ CloseListeners(s)

Spec == Init /\ [][Next]_vars

-----------------------------------------------------------------------------
Labels == {"idle", "accept", "store", "io", "handshake", "release", "close"}

(* Slots hold sockets of their registry's kind, and no registry outgrows   *)
(* MAX_SOCKETS.                                                            *)
TypeOK ==
    /\ sockets \in [Registries -> Seq(Sockets \cup {None})]
    /\ free_ids \in [Registries -> Seq(Nat)]
    /\ kind \in [Sockets -> {"new", "listener", "tcp", "tls", "closed"}]
    /\ pc \in [Strands -> Labels]
    /\ id \in [Strands -> Nat]
    /\ hand \in [Strands -> Sockets \cup {None}]
    /\ \A r \in Registries : Len(sockets[r]) <= MAX_SOCKETS

(* A strand that keeps slot i of registry r empty for its own return.      *)
Holds(s, r, i) == pc[s] \in Reserving[r] /\ id[s] = i

(* Every id is accounted for: it is on the free list once, or its slot is  *)
(* occupied, or one operation holds it reserved, and no two of these.  So  *)
(* no id is handed out twice and none is lost, also when a handshake that  *)
(* yielded fails.                                                          *)
IdsAccounted ==
    \A r \in Registries :
        /\ \A m, n \in DOMAIN free_ids[r] : free_ids[r][m] = free_ids[r][n] => m = n
        /\ Range(free_ids[r]) \subseteq Ids(r)
        /\ \A s \in Strands : pc[s] \in Reserving[r] => id[s] \in Ids(r)
        /\ \A i \in Ids(r) :
              /\ sockets[r][i] # None => i \notin Range(free_ids[r])
              /\ sockets[r][i] = None =>
                     (i \in Range(free_ids[r]) <=> \A s \in Strands : ~Holds(s, r, i))
              /\ \A s \in Strands : Holds(s, r, i) =>
                     /\ sockets[r][i] = None
                     /\ \A t \in Strands : Holds(t, r, i) => t = s

(* Where a socket can be found.                                            *)
InSlot(c, r, i) == i \in Ids(r) /\ sockets[r][i] = c
InHand(c, s) == hand[s] = c
Reachable(c) ==
    \/ \E r \in Registries : \E i \in Ids(r) : InSlot(c, r, i)
    \/ \E s \in Strands : InHand(c, s)

(* Every open socket is in exactly one place, a slot or an operation's     *)
(* hands, and every dropped one in none: nothing is closed under a reader, *)
(* shared by two ids, or left open out of reach.                           *)
OnePlace ==
    \A c \in Sockets :
        /\ \A r, q \in Registries : \A i \in Ids(r), j \in Ids(q) :
              InSlot(c, r, i) /\ InSlot(c, q, j) => r = q /\ i = j
        /\ \A s, t \in Strands : InHand(c, s) /\ InHand(c, t) => s = t
        /\ \A s \in Strands : InHand(c, s) =>
              \A r \in Registries : \A i \in Ids(r) : ~InSlot(c, r, i)
        /\ Reachable(c) <=> kind[c] \in {"listener", "tcp", "tls"}

(* Sockets and ids are owned: an open socket has one holder, an id one     *)
(* use, and the registries keep to their limit.                            *)
SocketsOwned == TypeOK /\ OnePlace /\ IdsAccounted

(* No step puts a socket into an occupied slot: what an operation puts     *)
(* back never evicts a connection somebody else has opened meanwhile.      *)
NoClobber ==
    [][\A r \in Registries : \A i \in Ids(r) :
          sockets[r][i] # None => sockets'[r][i] \in {None, sockets[r][i]}]_vars
=============================================================================
