---------------------------------- MODULE Udp ----------------------------------
(***************************************************************************)
(* UDP sockets, crates/runtime/src/udp.rs: a registry whose slots share     *)
(* their sockets with the strands that use them.  An operation clones the   *)
(* Arc under the lock and does its I/O without it, so a socket can be       *)
(* closed, and its id given to another, while a strand still sends or       *)
(* receives on it.                                                          *)
(*                                                                          *)
(* A handle is the id a strand was given and, as history, the socket it     *)
(* stood for.  Programs pass handles around: any strand may use any.        *)
(* Datagrams are delivered to the socket bound to their port, or lost.      *)
(***************************************************************************)
EXTENDS Integers, Sequences, FiniteSets, Functions

CONSTANTS
    Strands,
    Sockets,      \* the operating system's sockets, each bound at most once
    Ports,
    None,
    MAX_SOCKETS,  \* slots of the registry
    MaxSent       \* bound on the datagrams sent

(* What the proofs need of the constants.                                   *)
UdpAssumptions ==
    /\ None \notin Sockets /\ None \notin Ports
    /\ IsFiniteSet(Strands)
    /\ MAX_SOCKETS \in Nat /\ MaxSent \in Nat

VARIABLES
    sockets,   \* the slots: a socket or None
    free_ids,  \* the stack of free ids
    arcs,      \* per socket, its reference count
    port,      \* per socket, the port it is bound to while it is open, else None
    queue,     \* per socket, the datagrams the kernel holds for it
    sent,      \* datagrams sent so far
    handles,   \* history: the handles programs were given
    pc, hand,  \* per strand: where it is and the Arc it holds
    job,       \* per strand: what it was called with
    answer     \* per strand: what the last operation returned

registry == <<sockets, free_ids>>
kernel == <<port, queue, sent>>
strand == <<pc, hand, job, answer>>
vars == <<registry, arcs, kernel, handles, strand>>

Ids == 1 .. Len(sockets)
Open(k) == port[k] # None
NoJob == [id |-> 0, meant |-> None, to |-> None]
Idle(s) == pc[s] = "idle"

Fail == [ok |-> FALSE, n |-> 0, closed |-> None, meant |-> None]
Ok == [Fail EXCEPT !.ok = TRUE]
Got(datagram) == [Ok EXCEPT !.n = datagram.n]

-----------------------------------------------------------------------------
(***************************************************************************)
(* Reference counts.  The socket is closed when its last Arc is dropped.    *)
(***************************************************************************)
Acquire(k) == arcs' = [arcs EXCEPT ![k] = @ + 1]

(* Faulty variant: the first drop closes the socket.                        *)
DropAtOnce(k) ==
    /\ arcs' = [arcs EXCEPT ![k] = @ - 1]
    /\ port' = [port EXCEPT ![k] = None]
    /\ queue' = [queue EXCEPT ![k] = <<>>]
    /\ UNCHANGED sent

DropArc(k) ==
    /\ arcs' = [arcs EXCEPT ![k] = @ - 1]
    /\ port' = IF arcs[k] = 1 THEN [port EXCEPT ![k] = None] ELSE port
    /\ queue' = IF arcs[k] = 1 THEN [queue EXCEPT ![k] = <<>>] ELSE queue
    /\ UNCHANGED sent

Become(s, label, k, j, a) ==
    /\ pc' = [pc EXCEPT ![s] = label]
    /\ hand' = [hand EXCEPT ![s] = k]
    /\ job' = [job EXCEPT ![s] = j]
    /\ answer' = [answer EXCEPT ![s] = a]

Return(s, a) == Become(s, "idle", None, NoJob, a)

-----------------------------------------------------------------------------
(***************************************************************************)
(* net.udp.bind: the kernel binds, then the registry takes the socket, or   *)
(* drops it when it is full.                                                *)
(***************************************************************************)
BindPort(s, k, p) ==
    /\ Idle(s) /\ arcs[k] = 0 /\ ~Open(k)
    /\ \A other \in Sockets : port[other] # p
    /\ arcs' = [arcs EXCEPT ![k] = 1]
    /\ port' = [port EXCEPT ![k] = p]
    /\ Become(s, "allocate", k, NoJob, Fail)
    /\ UNCHANGED <<registry, queue, sent, handles>>

TopFree == free_ids[Len(free_ids)]

Given(i, k) == handles' = handles \cup {[id |-> i, sock |-> k]}

Reuse(s) ==
    /\ free_ids # <<>>
    /\ sockets' = [sockets EXCEPT ![TopFree] = hand[s]]
    /\ free_ids' = SubSeq(free_ids, 1, Len(free_ids) - 1)
    /\ Given(TopFree, hand[s])
    /\ Return(s, Ok)
    /\ UNCHANGED <<arcs, kernel>>

Grow(s) ==
    /\ free_ids = <<>> /\ Len(sockets) < MAX_SOCKETS
    /\ sockets' = Append(sockets, hand[s])
    /\ Given(Len(sockets) + 1, hand[s])
    /\ Return(s, Ok)
    /\ UNCHANGED <<free_ids, arcs, kernel>>

Full(s) ==
    /\ free_ids = <<>> /\ Len(sockets) >= MAX_SOCKETS
    /\ DropArc(hand[s])
    /\ Return(s, Fail)
    /\ UNCHANGED <<registry, handles>>

(* Faulty variant: the limit is not checked.                                *)
AllocateUnlimited(s) ==
    /\ pc[s] = "allocate"
    /\ \/ Reuse(s)
       \/ /\ free_ids = <<>>
          /\ sockets' = Append(sockets, hand[s])
          /\ Given(Len(sockets) + 1, hand[s])
          /\ Return(s, Ok)
          /\ UNCHANGED <<free_ids, arcs, kernel>>

Allocate(s) == pc[s] = "allocate" /\ (Reuse(s) \/ Grow(s) \/ Full(s))

-----------------------------------------------------------------------------
(***************************************************************************)
(* checkout: the Arc is cloned under the lock, or the operation fails.      *)
(***************************************************************************)
Checkout(s, h, next, to) ==
    /\ Idle(s)
    /\ IF h.id \in Ids /\ sockets[h.id] # None
       THEN /\ Acquire(sockets[h.id])
            /\ Become(s, next, sockets[h.id],
                      [id |-> h.id, meant |-> sockets[h.id], to |-> to], Fail)
       ELSE Return(s, Fail) /\ UNCHANGED arcs
    /\ UNCHANGED <<registry, kernel, handles>>

(***************************************************************************)
(* net.udp.send-to: the host is resolved between the checkout and the send. *)
(* The addresses are tried in turn until one is accepted.                   *)
(***************************************************************************)
SendTo(s, h, p) == sent < MaxSent /\ Checkout(s, h, "resolve", p)

(* Faulty variant: the socket is looked up again after the resolution.      *)
ResolveAgain(s) ==
    /\ pc[s] = "resolve"
    /\ LET now == sockets[job[s].id] IN
       IF now = None
       THEN DropArc(hand[s]) /\ Return(s, Fail)
       ELSE /\ IF now = hand[s] THEN UNCHANGED <<arcs, kernel>>
               ELSE /\ arcs' = [arcs EXCEPT ![hand[s]] = @ - 1, ![now] = @ + 1]
                    /\ port' = IF arcs[hand[s]] = 1 THEN [port EXCEPT ![hand[s]] = None] ELSE port
                    /\ queue' = IF arcs[hand[s]] = 1
                                THEN [queue EXCEPT ![hand[s]] = <<>>] ELSE queue
                    /\ UNCHANGED sent
            /\ pc' = [pc EXCEPT ![s] = "send"]
            /\ hand' = [hand EXCEPT ![s] = now]
            /\ UNCHANGED <<job, answer>>
    /\ UNCHANGED <<registry, handles>>

Resolve(s) ==
    /\ pc[s] = "resolve"
    /\ \/ pc' = [pc EXCEPT ![s] = "send"] /\ UNCHANGED <<arcs, kernel, hand, job, answer>>
       \/ DropArc(hand[s]) /\ Return(s, Fail)
    /\ UNCHANGED <<registry, handles>>

Datagram(s) == [n |-> sent + 1, to |-> job[s].to, from |-> port[hand[s]]]

Send(s) ==
    /\ pc[s] = "send" /\ sent < MaxSent
    /\ sent' = sent + 1
    /\ \/ queue' = [k \in Sockets |-> IF port[k] = job[s].to THEN Append(queue[k], Datagram(s))
                                     ELSE queue[k]]
       \/ UNCHANGED queue
    /\ pc' = [pc EXCEPT ![s] = "drop"]
    /\ answer' = [answer EXCEPT ![s] = Ok]
    /\ UNCHANGED <<registry, arcs, port, handles, hand, job>>

SendRefused(s) ==
    /\ pc[s] = "send"
    /\ pc' = [pc EXCEPT ![s] = "drop"]
    /\ answer' = [answer EXCEPT ![s] = Fail]
    /\ UNCHANGED <<registry, arcs, kernel, handles, hand, job>>

(***************************************************************************)
(* net.udp.receive-from: waits for a datagram of the socket it checked out. *)
(***************************************************************************)
ReceiveFrom(s, h) == Checkout(s, h, "receive", None)

(* Faulty variant: the datagram is left in the queue.                       *)
ReceivePeeking(s) ==
    /\ pc[s] = "receive" /\ queue[hand[s]] # <<>>
    /\ answer' = [answer EXCEPT ![s] = Got(Head(queue[hand[s]]))]
    /\ pc' = [pc EXCEPT ![s] = "drop"]
    /\ UNCHANGED <<registry, arcs, kernel, handles, hand, job>>

(* Faulty variant: the answer is waited for only while the id is in use.    *)
ReceiveRegistered(s) ==
    /\ pc[s] = "receive" /\ queue[hand[s]] # <<>>
    /\ sockets[job[s].id] = hand[s]
    /\ queue' = [queue EXCEPT ![hand[s]] = Tail(@)]
    /\ answer' = [answer EXCEPT ![s] = Got(Head(queue[hand[s]]))]
    /\ pc' = [pc EXCEPT ![s] = "drop"]
    /\ UNCHANGED <<registry, arcs, port, sent, handles, hand, job>>

Receive(s) ==
    /\ pc[s] = "receive" /\ queue[hand[s]] # <<>>
    /\ queue' = [queue EXCEPT ![hand[s]] = Tail(@)]
    /\ answer' = [answer EXCEPT ![s] = Got(Head(queue[hand[s]]))]
    /\ pc' = [pc EXCEPT ![s] = "drop"]
    /\ UNCHANGED <<registry, arcs, port, sent, handles, hand, job>>

ReceiveFails(s) ==
    /\ pc[s] = "receive"
    /\ pc' = [pc EXCEPT ![s] = "drop"]
    /\ answer' = [answer EXCEPT ![s] = Fail]
    /\ UNCHANGED <<registry, arcs, kernel, handles, hand, job>>

(* The clone goes out of scope when the operation returns.                  *)
DropHand(s) ==
    /\ pc[s] = "drop"
    /\ DropArc(hand[s])
    /\ pc' = [pc EXCEPT ![s] = "idle"]
    /\ hand' = [hand EXCEPT ![s] = None]
    /\ job' = [job EXCEPT ![s] = NoJob]
    /\ UNCHANGED <<registry, handles, answer>>

-----------------------------------------------------------------------------
(***************************************************************************)
(* net.udp.close frees the slot and its id, whoever still uses the socket.  *)
(***************************************************************************)
Closing(s, h) == Return(s, [Ok EXCEPT !.closed = sockets[h.id], !.meant = h.sock])

(* Faulty variant: an empty slot is freed as well.                          *)
CloseTwice(s, h) ==
    /\ Idle(s) /\ h.id \in Ids
    /\ free_ids' = Append(free_ids, h.id)
    /\ sockets' = [sockets EXCEPT ![h.id] = None]
    /\ IF sockets[h.id] # None
       THEN DropArc(sockets[h.id]) /\ Closing(s, h)
       ELSE Return(s, Fail) /\ UNCHANGED <<arcs, kernel>>
    /\ UNCHANGED handles

Close(s, h) ==
    /\ Idle(s)
    /\ IF h.id \in Ids /\ sockets[h.id] # None
       THEN /\ sockets' = [sockets EXCEPT ![h.id] = None]
            /\ free_ids' = Append(free_ids, h.id)
            /\ DropArc(sockets[h.id])
            /\ Closing(s, h)
       ELSE Return(s, Fail) /\ UNCHANGED <<registry, arcs, kernel>>
    /\ UNCHANGED handles

-----------------------------------------------------------------------------
Init ==
    /\ sockets = <<>> /\ free_ids = <<>>
    /\ arcs = [k \in Sockets |-> 0]
    /\ port = [k \in Sockets |-> None]
    /\ queue = [k \in Sockets |-> <<>>]
    /\ sent = 0
    /\ handles = {}
    /\ pc = [s \in Strands |-> "idle"]
    /\ hand = [s \in Strands |-> None]
    /\ job = [s \in Strands |-> NoJob]
    /\ answer = [s \in Strands |-> Fail]

Next ==
    \E s \in Strands :
        \/ \E k \in Sockets, p \in Ports : BindPort(s, k, p)
        \/ Allocate(s)
        \/ \E h \in handles : \/ \E p \in Ports : SendTo(s, h, p)
                              \/ ReceiveFrom(s, h)
                              \/ Close(s, h)
        \/ Resolve(s) \/ Send(s) \/ SendRefused(s)
        \/ Receive(s) \/ ReceiveFails(s) \/ DropHand(s)

(***************************************************************************)
(* A strand that can go on does; a receive waits for as long as nothing     *)
(* arrives, and the kernel hands over what has.                             *)
(***************************************************************************)
Fairness ==
    \A s \in Strands : WF_vars(Allocate(s) \/ Resolve(s) \/ Send(s) \/ SendRefused(s)
                               \/ Receive(s) \/ DropHand(s))

Spec == Init /\ [][Next]_vars /\ Fairness

-----------------------------------------------------------------------------
Labels == {"idle", "allocate", "resolve", "send", "receive", "drop"}
Handles == [id : Nat, sock : Sockets]
Jobs == [id : Nat, meant : Sockets \cup {None}, to : Ports \cup {None}]
Answers == [ok : BOOLEAN, n : Nat, closed : Sockets \cup {None}, meant : Sockets \cup {None}]
Datagrams == [n : Nat, to : Ports, from : Ports \cup {None}]

(* Variables have their types.                                              *)
TypeOK ==
    /\ sockets \in Seq(Sockets \cup {None}) /\ Len(sockets) <= MAX_SOCKETS
    /\ free_ids \in Seq(Nat)
    /\ arcs \in [Sockets -> Nat]
    /\ port \in [Sockets -> Ports \cup {None}]
    /\ queue \in [Sockets -> Seq(Datagrams)]
    /\ sent \in 0 .. MaxSent
    /\ handles \subseteq Handles
    /\ pc \in [Strands -> Labels]
    /\ hand \in [Strands -> Sockets \cup {None}]
    /\ job \in [Strands -> Jobs]
    /\ answer \in [Strands -> Answers]

(* The free ids are the empty slots, each once: no id is lost by a close    *)
(* that races an operation, and none is handed out twice.                   *)
IdsAccounted ==
    /\ Range(free_ids) = {i \in Ids : sockets[i] = None}
    /\ \A i, j \in 1 .. Len(free_ids) : free_ids[i] = free_ids[j] => i = j

(* A socket's count is the slots and strands that hold it: it stays open    *)
(* exactly as long as one of them does.                                     *)
CountsExact ==
    \A k \in Sockets :
        /\ arcs[k] = Cardinality({i \in Ids : sockets[i] = k})
                     + Cardinality({s \in Strands : hand[s] = k})
        /\ Open(k) <=> arcs[k] > 0

(* An operation in flight works on the socket its id stood for when it was  *)
(* called, open until it is done, even if the id was closed and reused.     *)
InFlightKept ==
    \A s \in Strands : hand[s] # None => /\ Open(hand[s])
                                         /\ job[s].meant # None => hand[s] = job[s].meant

(* A datagram is received at most once, and only among those sent.          *)
ReceivedOnce ==
    \A s \in Strands :
        /\ answer[s].n <= sent
        /\ \A r \in Strands : s # r /\ answer[s].n = answer[r].n => answer[s].n = 0

(* The registry and the sockets in use agree, whoever closes what meanwhile.*)
DatagramsSound == TypeOK /\ IdsAccounted /\ CountsExact /\ InFlightKept /\ ReceivedOnce

(* A strand's operation other than a receive always comes to its end, and a *)
(* receive does once a datagram is there.                                   *)
OperationsEnd ==
    \A s \in Strands :
        /\ pc[s] \in {"allocate", "resolve", "send", "drop"} ~> Idle(s)
        /\ (pc[s] = "receive" /\ queue[hand[s]] # <<>>)
             ~> (pc[s] # "receive" \/ queue[hand[s]] = <<>>)

(* A close that answers true has closed the socket the handle was given for *)
(* ("Idempotent: a second close on the same id returns `false`").           *)
CloseIdempotent ==
    \A s \in Strands : answer[s].closed = answer[s].meant

====
