------------------------------ MODULE UdpProofs ------------------------------
(***************************************************************************)
(* Proofs about Udp, for any number of strands, sockets, ports, slots and  *)
(* datagrams.                                                              *)
(*                                                                         *)
(* HandInv says who has an Arc in hand, so that a count is what the slots  *)
(* and the hands add up to; PortInv and NumbersInv say that a datagram is  *)
(* in one queue or one answer, so that it cannot be received twice.        *)
(*                                                                         *)
(* The actions are first sorted by what they do to the registry, the       *)
(* counts and the kernel (StepKinds); each part of the invariant is then   *)
(* shown to survive each kind of step.                                     *)
(***************************************************************************)
EXTENDS Udp, SequenceTheorems, FiniteSetTheorems, TLAPS

SlotsOf(k) == {i \in Ids : sockets[i] = k}
HandsOf(k) == {s \in Strands : hand[s] = k}

(* Who has an Arc in hand, and that it is the one the id stood for.        *)
HandInv ==
    \A s \in Strands :
        /\ hand[s] = None <=> pc[s] = "idle"
        /\ pc[s] \in {"idle", "allocate"} => job[s] = NoJob
        /\ pc[s] \notin {"idle", "allocate"} => job[s].meant = hand[s]
        /\ pc[s] \in {"resolve", "send"} => job[s].to \in Ports

(* A port belongs to one socket: what is sent to it is delivered once.     *)
PortInv == \A k, l \in Sockets : port[k] = port[l] /\ port[k] # None => k = l

(* A datagram is in one queue, or was received, once.                      *)
NumbersInv ==
    /\ \A k \in Sockets : \A i \in 1..Len(queue[k]) : queue[k][i].n \in 1..sent
    /\ \A k, l \in Sockets : \A i \in 1..Len(queue[k]), j \in 1..Len(queue[l]) :
           queue[k][i].n = queue[l][j].n => k = l /\ i = j
    /\ \A s \in Strands : \A k \in Sockets : \A i \in 1..Len(queue[k]) :
           queue[k][i].n # answer[s].n

IInv == TypeOK /\ HandInv /\ IdsAccounted /\ CountsExact /\ PortInv /\ NumbersInv /\ ReceivedOnce

-----------------------------------------------------------------------------
(* The kinds of steps of a strand.                                         *)

(* An operation ends and drops its Arc.                                    *)
LetGo(s) ==
    /\ pc[s] # "idle"
    /\ DropArc(hand[s])
    /\ pc' = [pc EXCEPT ![s] = "idle"]
    /\ hand' = [hand EXCEPT ![s] = None]
    /\ job' = [job EXCEPT ![s] = NoJob]
    /\ answer' = answer \/ answer' = [answer EXCEPT ![s] = Fail]
    /\ UNCHANGED <<registry, handles>>

(* A checkout succeeds.                                                    *)
CheckedOut(s, i, next, to) ==
    /\ Idle(s) /\ i \in Ids /\ sockets[i] # None
    /\ \/ next = "resolve" /\ to \in Ports
       \/ next = "receive" /\ to = None
    /\ Acquire(sockets[i])
    /\ Become(s, next, sockets[i], [id |-> i, meant |-> sockets[i], to |-> to], Fail)
    /\ UNCHANGED <<registry, kernel, handles>>

(* An operation on an id that is not in use.                               *)
Missed(s) ==
    /\ Idle(s)
    /\ Return(s, Fail)
    /\ UNCHANGED <<registry, arcs, kernel, handles>>

(* An operation goes on, or fails, with its Arc still in hand.             *)
Passed(s) ==
    /\ \/ pc[s] = "resolve" /\ pc' = [pc EXCEPT ![s] = "send"]
       \/ pc[s] \in {"send", "receive"} /\ pc' = [pc EXCEPT ![s] = "drop"]
    /\ answer' = answer \/ answer' = [answer EXCEPT ![s] = Fail]
    /\ UNCHANGED <<registry, arcs, kernel, handles, hand, job>>

Closed(s, h) ==
    /\ Idle(s) /\ h.id \in Ids /\ sockets[h.id] # None
    /\ sockets' = [sockets EXCEPT ![h.id] = None]
    /\ free_ids' = Append(free_ids, h.id)
    /\ DropArc(sockets[h.id])
    /\ Closing(s, h)
    /\ UNCHANGED handles

KindOf(s) ==
    \/ \E k \in Sockets, p \in Ports : BindPort(s, k, p)
    \/ pc[s] = "allocate" /\ Reuse(s)
    \/ pc[s] = "allocate" /\ Grow(s)
    \/ LetGo(s)
    \/ \E i \in Ids, next \in Labels, to \in Ports \cup {None} : CheckedOut(s, i, next, to)
    \/ Missed(s)
    \/ Passed(s)
    \/ Send(s)
    \/ Receive(s)
    \/ \E h \in handles : Closed(s, h)

LEMMA StepKinds ==
    ASSUME [Next]_vars
    PROVE  UNCHANGED vars \/ \E s \in Strands : KindOf(s)
<1> SUFFICES ASSUME Next PROVE \E s \in Strands : KindOf(s)
  OBVIOUS
<1>1. ASSUME NEW s \in Strands, NEW k \in Sockets, NEW p \in Ports, BindPort(s, k, p)
      PROVE  KindOf(s)
  BY <1>1 DEF KindOf
<1>2. ASSUME NEW s \in Strands, Allocate(s)
      PROVE  KindOf(s)
  <2>1. Full(s) => LetGo(s)
    BY <1>2 DEF Allocate, Full, LetGo, Return, Become
  <2> QED
    BY <1>2, <2>1 DEF Allocate, KindOf
<1>3. ASSUME NEW s \in Strands, NEW h \in handles, NEW next \in Labels,
             NEW to \in Ports \cup {None}, Checkout(s, h, next, to),
             (next = "resolve" /\ to \in Ports) \/ (next = "receive" /\ to = None)
      PROVE  KindOf(s)
  <2>1. CASE h.id \in Ids /\ sockets[h.id] # None
    <3>1. CheckedOut(s, h.id, next, to)
      BY <1>3, <2>1 DEF Checkout, CheckedOut
    <3> QED
      BY <2>1, <3>1 DEF KindOf
  <2>2. CASE ~(h.id \in Ids /\ sockets[h.id] # None)
    <3>1. Missed(s)
      BY <1>3, <2>2 DEF Checkout, Missed
    <3> QED
      BY <3>1 DEF KindOf
  <2> QED
    BY <2>1, <2>2
<1>4. ASSUME NEW s \in Strands, NEW h \in handles, NEW p \in Ports, SendTo(s, h, p)
      PROVE  KindOf(s)
  BY <1>3, <1>4 DEF SendTo, Labels
<1>5. ASSUME NEW s \in Strands, NEW h \in handles, ReceiveFrom(s, h)
      PROVE  KindOf(s)
  BY <1>3, <1>5 DEF ReceiveFrom, Labels
<1>6. ASSUME NEW s \in Strands, NEW h \in handles, Close(s, h)
      PROVE  KindOf(s)
  <2>1. CASE h.id \in Ids /\ sockets[h.id] # None
    <3>1. Closed(s, h)
      BY <1>6, <2>1 DEF Close, Closed
    <3> QED
      BY <3>1 DEF KindOf
  <2>2. CASE ~(h.id \in Ids /\ sockets[h.id] # None)
    <3>1. Missed(s)
      BY <1>6, <2>2 DEF Close, Missed
    <3> QED
      BY <3>1 DEF KindOf
  <2> QED
    BY <2>1, <2>2
<1>7. ASSUME NEW s \in Strands, Resolve(s)
      PROVE  KindOf(s)
  <2>1. LetGo(s) \/ Passed(s)
    BY <1>7 DEF Resolve, LetGo, Passed, Return, Become
  <2> QED
    BY <2>1 DEF KindOf
<1>8. ASSUME NEW s \in Strands, SendRefused(s) \/ ReceiveFails(s)
      PROVE  KindOf(s)
  <2>1. Passed(s)
    BY <1>8 DEF SendRefused, ReceiveFails, Passed
  <2> QED
    BY <2>1 DEF KindOf
<1>9. ASSUME NEW s \in Strands, DropHand(s)
      PROVE  KindOf(s)
  <2>1. LetGo(s)
    BY <1>9 DEF DropHand, LetGo
  <2> QED
    BY <2>1 DEF KindOf
<1>10. ASSUME NEW s \in Strands, Send(s) \/ Receive(s)
       PROVE  KindOf(s)
  BY <1>10 DEF KindOf
<1> QED
  BY <1>1, <1>2, <1>4, <1>5, <1>6, <1>7, <1>8, <1>9, <1>10 DEF Next

-----------------------------------------------------------------------------
(* The registry: the ids on the stack, and what the slots hold.            *)

OnceEach(q) == \A i, j \in 1..Len(q) : q[i] = q[j] => i = j

LEMMA ElementsOf ==
    ASSUME NEW S, NEW q \in Seq(S), NEW m
    PROVE  m \in Range(q) <=> \E i \in 1..Len(q) : q[i] = m
<1>1. DOMAIN q = 1..Len(q)
  BY LenProperties
<1>2. Range(q) = {q[i] : i \in 1..Len(q)}
  BY <1>1 DEF Range
<1> QED
  BY <1>2, Zenon

LEMMA PushFacts ==
    ASSUME NEW q \in Seq(Nat), NEW i \in Nat, NEW new, new = Append(q, i)
    PROVE  /\ new \in Seq(Nat)
           /\ Range(new) = Range(q) \cup {i}
           /\ OnceEach(q) /\ i \notin Range(q) => OnceEach(new)
<1> DEFINE n == Len(q)
<1>1. n \in Nat
  BY LenProperties
<1>2. /\ new \in Seq(Nat)
      /\ Len(new) = n + 1
      /\ \A j \in 1..n : new[j] = q[j]
      /\ new[n + 1] = i
  BY AppendProperties
<1>3. \A m : m \in Range(q) <=> \E j \in 1..n : q[j] = m
  BY ElementsOf, Zenon
<1>4. \A m : m \in Range(new) <=> \E j \in 1..Len(new) : new[j] = m
  BY <1>2, ElementsOf, Zenon
<1> HIDE DEF n
<1>5. \A j : j \in 1..(n + 1) <=> j \in 1..n \/ j = n + 1
  BY <1>1
<1>6. \A m : m \in Range(new) <=> m \in Range(q) \cup {i}
  BY <1>2, <1>3, <1>4, <1>5
<1>7. ASSUME OnceEach(q), i \notin Range(q) PROVE OnceEach(new)
  BY <1>2, <1>3, <1>5, <1>7 DEF OnceEach, n
<1> QED
  BY <1>2, <1>6, <1>7

LEMMA PopFacts ==
    ASSUME NEW q \in Seq(Nat), q # <<>>, OnceEach(q),
           NEW new, new = SubSeq(q, 1, Len(q) - 1)
    PROVE  /\ new \in Seq(Nat)
           /\ q[Len(q)] \in Range(q)
           /\ Range(new) = Range(q) \ {q[Len(q)]}
           /\ OnceEach(new)
<1> DEFINE n == Len(q)
<1>1. n \in Nat /\ n >= 1
  BY EmptySeq, LenProperties
<1>2. \A j \in 1..(n - 1) : q[j] \in Nat
  BY <1>1, ElementOfSeq
<1>3. /\ new \in Seq(Nat)
      /\ Len(new) = n - 1
      /\ \A j \in 1..(n - 1) : new[j] = q[j]
  <2> DEFINE cut == SubSeq(q, 1, n - 1)
  <2>1. /\ cut \in Seq(Nat)
        /\ Len(cut) = IF 1 <= n - 1 THEN n - 1 - 1 + 1 ELSE 0
        /\ \A j \in 1..(n - 1 - 1 + 1) : cut[j] = q[1 + j - 1]
    <3>1. 1 \in Int /\ n - 1 \in Int
      BY <1>1
    <3> HIDE DEF n
    <3> QED
      BY <1>2, <3>1, SubSeqProperties
  <2>2. new = cut
    OBVIOUS
  <2> HIDE DEF cut, n
  <2> QED
    BY <1>1, <2>1, <2>2, SMTT(60)
<1>4. \A m : m \in Range(q) <=> \E j \in 1..n : q[j] = m
  BY ElementsOf, Zenon
<1>5. \A m : m \in Range(new) <=> \E j \in 1..Len(new) : new[j] = m
  BY <1>3, ElementsOf, Zenon
<1>6. \A j, k \in 1..n : q[j] = q[k] => j = k
  BY DEF OnceEach
<1>7. OnceEach(new)
  <2> HIDE DEF n
  <2>1. \A j \in 1..(n - 1) : j \in 1..n
    BY <1>1
  <2> QED
    BY <1>3, <1>6, <2>1, SMTT(60) DEF OnceEach
<1> HIDE DEF n
<1>8. /\ \A j : j \in 1..n <=> j \in 1..(n - 1) \/ j = n
      /\ n \notin 1..(n - 1)
  BY <1>1
<1>9. q[n] \in Range(q)
  BY <1>4, <1>8
<1>10. \A m : m \in Range(new) <=> m \in Range(q) \ {q[n]}
  <2> TAKE m
  <2>1. ASSUME m \in Range(new) PROVE m \in Range(q) /\ m # q[n]
    BY <1>3, <1>4, <1>5, <1>6, <1>8, <2>1, SMTT(60)
  <2>2. ASSUME m \in Range(q), m # q[n] PROVE m \in Range(new)
    BY <1>3, <1>4, <1>5, <1>8, <2>2
  <2> QED
    BY <2>1, <2>2
<1> QED
  BY <1>3, <1>7, <1>9, <1>10 DEF n

(* Slot i becomes c; there is one more slot, with c in it.                 *)
Filled(i, c) ==
    /\ Ids' = Ids /\ i \in Ids
    /\ \A j \in Ids : sockets'[j] = IF j = i THEN c ELSE sockets[j]

Grown(n, c) ==
    /\ n \notin Ids /\ Ids' = Ids \cup {n} /\ sockets'[n] = c
    /\ \A j \in Ids : sockets'[j] = sockets[j]

LEMMA FillFacts ==
    ASSUME TypeOK, NEW i \in Ids, NEW c \in Sockets \cup {None},
           sockets' = [sockets EXCEPT ![i] = c]
    PROVE  /\ sockets' \in Seq(Sockets \cup {None}) /\ Len(sockets') = Len(sockets)
           /\ Filled(i, c)
<1>1. /\ sockets' \in Seq(Sockets \cup {None})
      /\ Len(sockets') = Len(sockets)
      /\ \A j \in 1..Len(sockets) : sockets'[j] = IF j = i THEN c ELSE sockets[j]
  BY ExceptSeq DEF TypeOK, Ids
<1> QED
  BY <1>1 DEF Filled, Ids

LEMMA GrowFacts ==
    ASSUME TypeOK, NEW c \in Sockets, sockets' = Append(sockets, c)
    PROVE  /\ sockets' \in Seq(Sockets \cup {None}) /\ Len(sockets') = Len(sockets) + 1
           /\ Grown(Len(sockets) + 1, c)
<1>1. sockets \in Seq(Sockets \cup {None}) /\ Len(sockets) \in Nat
  BY LenProperties DEF TypeOK
<1>2. /\ sockets' \in Seq(Sockets \cup {None})
      /\ Len(sockets') = Len(sockets) + 1
      /\ \A j \in 1..Len(sockets) : sockets'[j] = sockets[j]
      /\ sockets'[Len(sockets) + 1] = c
  BY <1>1, AppendProperties
<1>3. Len(sockets) + 1 \notin Ids /\ Ids' = Ids \cup {Len(sockets) + 1}
  BY <1>1, <1>2 DEF Ids
<1> QED
  BY <1>2, <1>3 DEF Grown, Ids

-----------------------------------------------------------------------------
(* Reference counts: whoever holds a socket is counted.                    *)

LEMMA FiniteHolders ==
    ASSUME UdpAssumptions, TypeOK, NEW k
    PROVE  /\ IsFiniteSet(SlotsOf(k)) /\ Cardinality(SlotsOf(k)) \in Nat
           /\ IsFiniteSet(HandsOf(k)) /\ Cardinality(HandsOf(k)) \in Nat
<1>1. IsFiniteSet(Ids)
  BY FS_Interval, LenProperties DEF TypeOK, Ids
<1>2. SlotsOf(k) \in SUBSET Ids /\ HandsOf(k) \in SUBSET Strands
  BY DEF SlotsOf, HandsOf
<1>3. IsFiniteSet(SlotsOf(k)) /\ IsFiniteSet(HandsOf(k))
  BY <1>1, <1>2, FS_Subset DEF UdpAssumptions
<1> QED
  BY <1>3, FS_CardinalityType

LEMMA HandCounted ==
    ASSUME UdpAssumptions, TypeOK, CountsExact, NEW s \in Strands, hand[s] \in Sockets
    PROVE  arcs[hand[s]] >= 1 /\ Open(hand[s])
<1> DEFINE k == hand[s]
<1>1. s \in HandsOf(k)
  BY DEF HandsOf
<1>2. Cardinality(HandsOf(k)) # 0
  BY <1>1, FiniteHolders, FS_EmptySet
<1>3. arcs[k] = Cardinality(SlotsOf(k)) + Cardinality(HandsOf(k)) /\ (Open(k) <=> arcs[k] > 0)
  BY DEF CountsExact, SlotsOf, HandsOf
<1> HIDE DEF k
<1>4. Cardinality(SlotsOf(k)) \in Nat /\ Cardinality(HandsOf(k)) \in Nat
  BY FiniteHolders
<1> QED
  BY <1>2, <1>3, <1>4 DEF k

LEMMA SlotCounted ==
    ASSUME UdpAssumptions, TypeOK, CountsExact, NEW i \in Ids, sockets[i] \in Sockets
    PROVE  arcs[sockets[i]] >= 1
<1> DEFINE k == sockets[i]
<1>1. i \in SlotsOf(k)
  BY DEF SlotsOf
<1>2. Cardinality(SlotsOf(k)) # 0
  BY <1>1, FiniteHolders, FS_EmptySet
<1>3. arcs[k] = Cardinality(SlotsOf(k)) + Cardinality(HandsOf(k))
  BY DEF CountsExact, SlotsOf, HandsOf
<1> HIDE DEF k
<1>4. Cardinality(SlotsOf(k)) \in Nat /\ Cardinality(HandsOf(k)) \in Nat
  BY FiniteHolders
<1> QED
  BY <1>2, <1>3, <1>4 DEF k

(* An Arc of k is dropped.                                                 *)
LEMMA DropFacts ==
    ASSUME TypeOK, NEW k \in Sockets, arcs[k] >= 1, DropArc(k)
    PROVE  /\ arcs' \in [Sockets -> Nat]
           /\ port' \in [Sockets -> Ports \cup {None}]
           /\ queue' \in [Sockets -> Seq(Datagrams)]
           /\ sent' = sent
           /\ \A l \in Sockets \ {k} : /\ arcs'[l] = arcs[l] /\ port'[l] = port[l]
                                       /\ queue'[l] = queue[l]
           /\ arcs'[k] = arcs[k] - 1
           /\ port'[k] = IF arcs[k] = 1 THEN None ELSE port[k]
           /\ queue'[k] = queue[k] \/ queue'[k] = <<>>
<1>1. <<>> \in Seq(Datagrams)
  BY EmptySeq
<1>2. arcs[k] \in Nat /\ arcs[k] - 1 \in Nat
  BY DEF TypeOK
<1>3. /\ arcs' \in [Sockets -> Nat]
      /\ arcs'[k] = arcs[k] - 1 /\ \A l \in Sockets \ {k} : arcs'[l] = arcs[l]
  BY <1>2 DEF DropArc, TypeOK
<1>4. /\ port' \in [Sockets -> Ports \cup {None}]
      /\ port'[k] = (IF arcs[k] = 1 THEN None ELSE port[k])
      /\ \A l \in Sockets \ {k} : port'[l] = port[l]
  BY DEF DropArc, TypeOK
<1>5. /\ queue' \in [Sockets -> Seq(Datagrams)]
      /\ queue'[k] = queue[k] \/ queue'[k] = <<>>
      /\ \A l \in Sockets \ {k} : queue'[l] = queue[l]
  BY <1>1 DEF DropArc, TypeOK
<1> QED
  BY <1>3, <1>4, <1>5 DEF DropArc

-----------------------------------------------------------------------------
(* Types and hands.                                                        *)

StrandTypes ==
    /\ pc \in [Strands -> Labels]
    /\ hand \in [Strands -> Sockets \cup {None}]
    /\ job \in [Strands -> Jobs]
    /\ answer \in [Strands -> Answers]

HandFits(label, k, j) ==
    /\ k = None <=> label = "idle"
    /\ label \in {"idle", "allocate"} => j = NoJob
    /\ label \notin {"idle", "allocate"} => j.meant = k
    /\ label \in {"resolve", "send"} => j.to \in Ports

LEMMA Values ==
    /\ NoJob \in Jobs /\ Fail \in Answers /\ Ok \in Answers
    /\ Fail.n = 0 /\ Ok.n = 0
    /\ \A d \in Datagrams : Got(d) \in Answers /\ Got(d).n = d.n
    /\ \A c, m \in Sockets \cup {None} :
           LET a == [Ok EXCEPT !.closed = c, !.meant = m] IN a \in Answers /\ a.n = 0
  BY DEF NoJob, Jobs, Fail, Answers, Ok, Got, Datagrams

LEMMA Becomes ==
    ASSUME TypeOK, HandInv, NEW s \in Strands, NEW label \in Labels,
           NEW k \in Sockets \cup {None}, NEW j \in Jobs, NEW a \in Answers,
           HandFits(label, k, j),
           pc' = [pc EXCEPT ![s] = label], hand' = [hand EXCEPT ![s] = k],
           job' = [job EXCEPT ![s] = j],
           answer' = answer \/ answer' = [answer EXCEPT ![s] = a]
    PROVE  StrandTypes' /\ HandInv'
<1>1. StrandTypes'
  BY DEF TypeOK, StrandTypes
<1>2. /\ pc'[s] = label /\ hand'[s] = k /\ job'[s] = j
      /\ \A t \in Strands \ {s} : pc'[t] = pc[t] /\ hand'[t] = hand[t] /\ job'[t] = job[t]
  BY DEF TypeOK
<1> QED
  BY <1>1, <1>2 DEF HandInv, HandFits

LEMMA TypeStep ==
    ASSUME UdpAssumptions, TypeOK, HandInv, IdsAccounted, CountsExact,
           NEW s \in Strands, KindOf(s)
    PROVE  TypeOK' /\ HandInv'
<1>1. HandFits("idle", None, NoJob)
  BY DEF HandFits
<1>2. ASSUME NEW k \in Sockets, NEW p \in Ports, BindPort(s, k, p)
      PROVE  TypeOK' /\ HandInv'
  <2>1. HandFits("allocate", k, NoJob)
    BY DEF HandFits, UdpAssumptions
  <2>2. StrandTypes' /\ HandInv'
    BY <1>2, <2>1, Becomes, Values DEF BindPort, Become, Labels
  <2>3. arcs' \in [Sockets -> Nat] /\ port' \in [Sockets -> Ports \cup {None}]
    BY <1>2 DEF BindPort, TypeOK
  <2> QED
    BY <1>2, <2>2, <2>3 DEF BindPort, TypeOK, StrandTypes, registry
<1>3. ASSUME pc[s] = "allocate"
      PROVE  hand[s] \in Sockets
  BY <1>3 DEF HandInv, TypeOK
<1>4. ASSUME Return(s, Ok)
      PROVE  StrandTypes' /\ HandInv'
  BY <1>1, <1>4, Becomes, Values DEF Return, Become, Labels
<1>5. ASSUME NEW i \in Nat, NEW k \in Sockets, Given(i, k)
      PROVE  handles' \subseteq Handles
  BY <1>5 DEF Given, TypeOK, Handles
<1>6. ASSUME pc[s] = "allocate", Reuse(s)
      PROVE  TypeOK' /\ HandInv'
  <2>1. OnceEach(free_ids)
    BY DEF IdsAccounted, OnceEach
  <2>2. free_ids' \in Seq(Nat) /\ TopFree \in Range(free_ids)
    BY <1>6, <2>1, PopFacts DEF Reuse, TypeOK, TopFree
  <2>3. TopFree \in Ids /\ TopFree \in Nat
    BY <2>2, LenProperties DEF IdsAccounted, TypeOK, Ids
  <2>4. sockets' \in Seq(Sockets \cup {None}) /\ Len(sockets') = Len(sockets)
    BY <1>3, <1>6, <2>3, FillFacts DEF Reuse
  <2>5. handles' \subseteq Handles
    BY <1>3, <1>5, <1>6, <2>3 DEF Reuse
  <2> QED
    BY <1>4, <1>6, <2>2, <2>4, <2>5 DEF Reuse, TypeOK, StrandTypes, kernel
<1>7. ASSUME pc[s] = "allocate", Grow(s)
      PROVE  TypeOK' /\ HandInv'
  <2>1. Len(sockets) \in Nat
    BY LenProperties DEF TypeOK
  <2>2. sockets' \in Seq(Sockets \cup {None}) /\ Len(sockets') = Len(sockets) + 1
    BY <1>3, <1>7, GrowFacts DEF Grow
  <2>3. Len(sockets') <= MAX_SOCKETS
    BY <1>7, <2>1, <2>2 DEF Grow, UdpAssumptions
  <2>4. handles' \subseteq Handles
    <3>1. Len(sockets) + 1 \in Nat
      BY <2>1
    <3> QED
      BY <1>3, <1>5, <1>7, <3>1 DEF Grow
  <2> QED
    BY <1>4, <1>7, <2>2, <2>3, <2>4 DEF Grow, TypeOK, StrandTypes, kernel
<1>8. ASSUME LetGo(s)
      PROVE  TypeOK' /\ HandInv'
  <2>1. hand[s] \in Sockets
    BY <1>8 DEF LetGo, HandInv, TypeOK
  <2>2. /\ arcs' \in [Sockets -> Nat] /\ port' \in [Sockets -> Ports \cup {None}]
        /\ queue' \in [Sockets -> Seq(Datagrams)] /\ sent' = sent
    BY <1>8, <2>1, HandCounted, DropFacts DEF LetGo
  <2>3. StrandTypes' /\ HandInv'
    BY <1>1, <1>8, Becomes, Values DEF LetGo, Labels
  <2> QED
    BY <1>8, <2>2, <2>3 DEF LetGo, TypeOK, StrandTypes, registry
<1>9. ASSUME NEW i \in Ids, NEW next \in Labels, NEW to \in Ports \cup {None},
             CheckedOut(s, i, next, to)
      PROVE  TypeOK' /\ HandInv'
  <2>1. sockets[i] \in Sockets /\ i \in Nat
    BY <1>9, ElementOfSeq, LenProperties DEF CheckedOut, TypeOK, Ids
  <2> DEFINE j == [id |-> i, meant |-> sockets[i], to |-> to]
  <2>2. j \in Jobs /\ HandFits(next, sockets[i], j)
    BY <1>9, <2>1 DEF CheckedOut, Jobs, HandFits, UdpAssumptions
  <2>3. StrandTypes' /\ HandInv'
    BY <1>9, <2>1, <2>2, Becomes, Values DEF CheckedOut, Become
  <2>4. arcs' \in [Sockets -> Nat]
    BY <1>9, <2>1 DEF CheckedOut, Acquire, TypeOK
  <2> QED
    BY <1>9, <2>3, <2>4 DEF CheckedOut, TypeOK, StrandTypes, registry, kernel
<1>10. ASSUME Missed(s)
       PROVE  TypeOK' /\ HandInv'
  <2>1. StrandTypes' /\ HandInv'
    BY <1>1, <1>10, Becomes, Values DEF Missed, Return, Become, Labels
  <2> QED
    BY <1>10, <2>1 DEF Missed, TypeOK, StrandTypes, registry, kernel
<1>11. ASSUME NEW label \in {"send", "drop"}, NEW a \in Answers,
              pc[s] \in {"resolve", "send", "receive"},
              label = "send" => pc[s] = "resolve",
              pc' = [pc EXCEPT ![s] = label],
              answer' = answer \/ answer' = [answer EXCEPT ![s] = a],
              hand' = hand, job' = job
       PROVE  StrandTypes' /\ HandInv'
  <2>1. hand' = [hand EXCEPT ![s] = hand[s]] /\ job' = [job EXCEPT ![s] = job[s]]
    BY <1>11 DEF TypeOK
  <2>2. hand[s] \in Sockets \cup {None} /\ job[s] \in Jobs /\ label \in Labels
    BY DEF TypeOK, Labels
  <2>3. HandFits(label, hand[s], job[s])
    BY <1>11 DEF HandInv, HandFits
  <2> QED
    <3>1. pc' = [pc EXCEPT ![s] = label] /\ (answer' = answer \/ answer' = [answer EXCEPT ![s] = a])
      BY <1>11
    <3> QED
      BY <2>1, <2>2, <2>3, <3>1, Becomes
<1>12. ASSUME Passed(s)
       PROVE  TypeOK' /\ HandInv'
  <2>1. StrandTypes' /\ HandInv'
    BY <1>11, <1>12, Values DEF Passed
  <2> QED
    BY <1>12, <2>1 DEF Passed, TypeOK, StrandTypes, registry, kernel
<1>13. ASSUME Send(s)
       PROVE  TypeOK' /\ HandInv'
  <2>1. StrandTypes' /\ HandInv'
    BY <1>11, <1>13, Values DEF Send
  <2>2. sent' \in 0 .. MaxSent
    BY <1>13 DEF Send, TypeOK, UdpAssumptions
  <2>3. Datagram(s) \in Datagrams
    <3>1. job[s].to \in Ports /\ hand[s] \in Sockets
      BY <1>13 DEF Send, HandInv, TypeOK
    <3>2. port[hand[s]] \in Ports \cup {None} /\ sent + 1 \in Nat
      BY <3>1 DEF TypeOK
    <3> QED
      BY <3>1, <3>2 DEF Datagram, Datagrams
  <2>4. queue' \in [Sockets -> Seq(Datagrams)]
    <3>1. \A k \in Sockets : Append(queue[k], Datagram(s)) \in Seq(Datagrams)
      BY <2>3, AppendProperties DEF TypeOK
    <3> QED
      BY <1>13, <3>1 DEF Send, TypeOK
  <2> QED
    BY <1>13, <2>1, <2>2, <2>4 DEF Send, TypeOK, StrandTypes, registry
<1>14. ASSUME Receive(s)
       PROVE  TypeOK' /\ HandInv'
  <2>1. hand[s] \in Sockets
    BY <1>14 DEF Receive, HandInv, TypeOK
  <2>2. queue[hand[s]] \in Seq(Datagrams)
    BY <2>1 DEF TypeOK
  <2>3. Head(queue[hand[s]]) \in Datagrams /\ Tail(queue[hand[s]]) \in Seq(Datagrams)
    BY <1>14, <2>2, HeadTailProperties DEF Receive
  <2>4. StrandTypes' /\ HandInv'
    BY <1>11, <1>14, <2>3, Values DEF Receive
  <2>5. queue' \in [Sockets -> Seq(Datagrams)]
    BY <1>14, <2>3 DEF Receive, TypeOK
  <2> QED
    BY <1>14, <2>4, <2>5 DEF Receive, TypeOK, StrandTypes, registry
<1>15. ASSUME NEW h \in handles, Closed(s, h)
       PROVE  TypeOK' /\ HandInv'
  <2>1. sockets[h.id] \in Sockets /\ h.id \in Ids /\ h.id \in Nat /\ h.sock \in Sockets
    BY <1>15, ElementOfSeq, LenProperties DEF Closed, TypeOK, Ids, Handles
  <2>2. sockets' \in Seq(Sockets \cup {None}) /\ Len(sockets') = Len(sockets)
    BY <1>15, <2>1, FillFacts DEF Closed
  <2>3. free_ids' \in Seq(Nat)
    BY <1>15, <2>1, PushFacts DEF Closed, TypeOK
  <2>4. /\ arcs' \in [Sockets -> Nat] /\ port' \in [Sockets -> Ports \cup {None}]
        /\ queue' \in [Sockets -> Seq(Datagrams)] /\ sent' = sent
    BY <1>15, <2>1, SlotCounted, DropFacts DEF Closed
  <2>5. StrandTypes' /\ HandInv'
    BY <1>1, <1>15, <2>1, Becomes, Values DEF Closed, Closing, Return, Become, Labels
  <2> QED
    BY <1>15, <2>2, <2>3, <2>4, <2>5 DEF Closed, TypeOK, StrandTypes
<1> QED
  BY <1>2, <1>6, <1>7, <1>8, <1>9, <1>10, <1>12, <1>13, <1>14, <1>15 DEF KindOf

-----------------------------------------------------------------------------
(* The stack of free ids stays the set of empty slots.                     *)
LEMMA IdsStep ==
    ASSUME UdpAssumptions, TypeOK, HandInv, IdsAccounted, NEW s \in Strands, KindOf(s)
    PROVE  IdsAccounted'
<1>1. OnceEach(free_ids) /\ Range(free_ids) = {i \in Ids : sockets[i] = None}
  BY DEF IdsAccounted, OnceEach
<1>2. ASSUME UNCHANGED registry
      PROVE  IdsAccounted'
  BY <1>2 DEF registry, IdsAccounted, Ids
<1>3. ASSUME pc[s] = "allocate"
      PROVE  hand[s] \in Sockets /\ hand[s] # None
  BY <1>3 DEF HandInv, TypeOK
<1>4. ASSUME pc[s] = "allocate", Reuse(s)
      PROVE  IdsAccounted'
  <2>1. /\ TopFree \in Range(free_ids)
        /\ Range(free_ids') = Range(free_ids) \ {TopFree}
        /\ OnceEach(free_ids')
    BY <1>1, <1>4, PopFacts DEF Reuse, TypeOK, TopFree
  <2>2. Filled(TopFree, hand[s])
    BY <1>1, <1>3, <1>4, <2>1, FillFacts DEF Reuse
  <2>3. Range(free_ids') = {i \in Ids' : sockets'[i] = None}
    BY <1>1, <1>3, <1>4, <2>1, <2>2 DEF Filled
  <2> QED
    BY <2>1, <2>3 DEF IdsAccounted, OnceEach
<1>5. ASSUME pc[s] = "allocate", Grow(s)
      PROVE  IdsAccounted'
  <2>1. Grown(Len(sockets) + 1, hand[s]) /\ free_ids' = free_ids
    BY <1>3, <1>5, GrowFacts DEF Grow
  <2>2. Range(free_ids') = {i \in Ids' : sockets'[i] = None}
    BY <1>1, <1>3, <1>5, <2>1 DEF Grown
  <2> QED
    BY <1>1, <2>1, <2>2 DEF IdsAccounted, OnceEach
<1>6. ASSUME NEW h \in handles, Closed(s, h)
      PROVE  IdsAccounted'
  <2>1. h.id \in Ids /\ h.id \in Nat /\ h.id \notin Range(free_ids)
    BY <1>1, <1>6 DEF Closed, TypeOK, Handles
  <2>2. Range(free_ids') = Range(free_ids) \cup {h.id} /\ OnceEach(free_ids')
    BY <1>1, <1>6, <2>1, PushFacts DEF Closed, TypeOK
  <2>3. Filled(h.id, None)
    BY <1>6, <2>1, FillFacts DEF Closed
  <2>4. Range(free_ids') = {i \in Ids' : sockets'[i] = None}
    BY <1>1, <2>1, <2>2, <2>3 DEF Filled
  <2> QED
    BY <2>2, <2>4 DEF IdsAccounted, OnceEach
<1>7. CASE \E k \in Sockets, p \in Ports : BindPort(s, k, p)
  BY <1>2, <1>7 DEF BindPort
<1>8. CASE LetGo(s) \/ Missed(s) \/ Passed(s) \/ Send(s) \/ Receive(s)
  BY <1>2, <1>8 DEF LetGo, Missed, Passed, Send, Receive
<1>9. CASE \E i \in Ids, next \in Labels, to \in Ports \cup {None} : CheckedOut(s, i, next, to)
  BY <1>2, <1>9 DEF CheckedOut
<1> QED
  BY <1>4, <1>5, <1>6, <1>7, <1>8, <1>9 DEF KindOf

-----------------------------------------------------------------------------
(* A count is what the slots and the hands add up to.                      *)

SameSlots(k) == Cardinality(SlotsOf(k)') = Cardinality(SlotsOf(k))
SameHands(k) == Cardinality(HandsOf(k)') = Cardinality(HandsOf(k))

LEMMA SlotsKept ==
    ASSUME NEW k, sockets' = sockets
    PROVE  SameSlots(k)
  BY DEF SameSlots, SlotsOf, Ids

LEMMA HandsKept ==
    ASSUME NEW k, hand' = hand
    PROVE  SameHands(k)
  BY DEF SameHands, HandsOf

(* A slot that held none comes to hold c, or the one that held c is emptied. *)
LEMMA SlotFilled ==
    ASSUME UdpAssumptions, TypeOK, NEW i, NEW c \in Sockets,
           (sockets[i] = None /\ Filled(i, c)) \/ Grown(i, c)
    PROVE  /\ Cardinality(SlotsOf(c)') = Cardinality(SlotsOf(c)) + 1
           /\ \A k \in Sockets \ {c} : SameSlots(k)
<1>1. SlotsOf(c)' = SlotsOf(c) \cup {i} /\ i \notin SlotsOf(c)
  BY DEF SlotsOf, Filled, Grown, UdpAssumptions
<1>2. \A k \in Sockets \ {c} : SlotsOf(k)' = SlotsOf(k)
  BY DEF SlotsOf, Filled, Grown, UdpAssumptions
<1>3. Cardinality(SlotsOf(c) \cup {i}) = Cardinality(SlotsOf(c)) + 1
  BY <1>1, FiniteHolders, FS_AddElement
<1> QED
  BY <1>1, <1>2, <1>3 DEF SameSlots

LEMMA SlotEmptied ==
    ASSUME UdpAssumptions, TypeOK, NEW i, NEW c \in Sockets, sockets[i] = c, Filled(i, None)
    PROVE  /\ Cardinality(SlotsOf(c)') = Cardinality(SlotsOf(c)) - 1
           /\ \A k \in Sockets \ {c} : SameSlots(k)
<1>1. SlotsOf(c)' = SlotsOf(c) \ {i} /\ i \in SlotsOf(c)
  BY DEF SlotsOf, Filled, UdpAssumptions
<1>2. \A k \in Sockets \ {c} : SlotsOf(k)' = SlotsOf(k)
  BY DEF SlotsOf, Filled, UdpAssumptions
<1>3. Cardinality(SlotsOf(c) \ {i}) = Cardinality(SlotsOf(c)) - 1
  BY <1>1, FiniteHolders, FS_RemoveElement
<1> QED
  BY <1>1, <1>2, <1>3 DEF SameSlots

(* A strand takes c in its hand, or lets go of it.                         *)
LEMMA HandFilled ==
    ASSUME UdpAssumptions, TypeOK, NEW s \in Strands, NEW c \in Sockets,
           hand[s] = None, hand' = [hand EXCEPT ![s] = c]
    PROVE  /\ Cardinality(HandsOf(c)') = Cardinality(HandsOf(c)) + 1
           /\ \A k \in Sockets \ {c} : SameHands(k)
<1>1. HandsOf(c)' = HandsOf(c) \cup {s} /\ s \notin HandsOf(c)
  BY DEF HandsOf, TypeOK, UdpAssumptions
<1>2. \A k \in Sockets \ {c} : HandsOf(k)' = HandsOf(k)
  BY DEF HandsOf, TypeOK, UdpAssumptions
<1>3. Cardinality(HandsOf(c) \cup {s}) = Cardinality(HandsOf(c)) + 1
  BY <1>1, FiniteHolders, FS_AddElement
<1> QED
  BY <1>1, <1>2, <1>3 DEF SameHands

LEMMA HandEmptied ==
    ASSUME UdpAssumptions, TypeOK, NEW s \in Strands, NEW c \in Sockets,
           hand[s] = c, hand' = [hand EXCEPT ![s] = None]
    PROVE  /\ Cardinality(HandsOf(c)') = Cardinality(HandsOf(c)) - 1
           /\ \A k \in Sockets \ {c} : SameHands(k)
<1>1. HandsOf(c)' = HandsOf(c) \ {s} /\ s \in HandsOf(c)
  BY DEF HandsOf, TypeOK, UdpAssumptions
<1>2. \A k \in Sockets \ {c} : HandsOf(k)' = HandsOf(k)
  BY DEF HandsOf, TypeOK, UdpAssumptions
<1>3. Cardinality(HandsOf(c) \ {s}) = Cardinality(HandsOf(c)) - 1
  BY <1>1, FiniteHolders, FS_RemoveElement
<1> QED
  BY <1>1, <1>2, <1>3 DEF SameHands

Held(k) == Cardinality(SlotsOf(k)) + Cardinality(HandsOf(k))
Counted(k) == arcs[k] = Held(k) /\ (Open(k) <=> arcs[k] > 0)

LEMMA CountsMean == CountsExact <=> \A k \in Sockets : Counted(k)
  BY DEF CountsExact, Counted, Held, SlotsOf, HandsOf

LEMMA CountedKept ==
    ASSUME NEW k \in Sockets, Counted(k), SameSlots(k), SameHands(k),
           arcs'[k] = arcs[k], port'[k] = port[k]
    PROVE  Counted(k)'
  BY DEF Counted, Held, SameSlots, SameHands, Open

LEMMA CountsStep ==
    ASSUME UdpAssumptions, TypeOK, HandInv, IdsAccounted, CountsExact,
           NEW s \in Strands, KindOf(s)
    PROVE  CountsExact'
<1>1. \A k \in Sockets : /\ Counted(k) /\ arcs[k] \in Nat
                        /\ Cardinality(SlotsOf(k)) \in Nat /\ Cardinality(HandsOf(k)) \in Nat
  BY CountsMean, FiniteHolders DEF TypeOK
<1>2. SUFFICES ASSUME NEW k \in Sockets PROVE Counted(k)'
  <2>1. CountsExact' <=> \A k \in Sockets : Counted(k)'
    BY DEF CountsExact, Counted, Held, SlotsOf, HandsOf
  <2> QED
    BY <2>1
<1>3. pc[s] = "idle" <=> hand[s] = None
  BY DEF HandInv
<1>4. ASSUME pc[s] # "idle" PROVE hand[s] \in Sockets
  BY <1>3, <1>4 DEF TypeOK
<1>5. CASE \E c \in Sockets, p \in Ports : BindPort(s, c, p)
  <2>1. PICK c \in Sockets, p \in Ports : BindPort(s, c, p)
    BY <1>5
  <2>2. /\ hand' = [hand EXCEPT ![s] = c] /\ hand[s] = None /\ sockets' = sockets
        /\ arcs' = [arcs EXCEPT ![c] = 1] /\ port' = [port EXCEPT ![c] = p] /\ arcs[c] = 0
    BY <1>3, <2>1 DEF BindPort, Become, Idle, registry
  <2>3. CASE k = c
    <3>1. arcs'[k] = 1 /\ port'[k] = p /\ p # None
      BY <2>2, <2>3 DEF TypeOK, UdpAssumptions
    <3>2. Cardinality(HandsOf(k)') = Cardinality(HandsOf(k)) + 1 /\ SameSlots(k)
      BY <2>2, <2>3, HandFilled, SlotsKept
    <3> QED
      BY <1>1, <2>2, <2>3, <3>1, <3>2 DEF Counted, Held, Open, SameSlots
  <2>4. CASE k # c
    <3>1. SameHands(k) /\ SameSlots(k)
      BY <2>2, <2>4, HandFilled, SlotsKept
    <3>2. arcs'[k] = arcs[k] /\ port'[k] = port[k]
      BY <2>2, <2>4 DEF TypeOK
    <3> QED
      BY <1>1, <3>1, <3>2, CountedKept
  <2> QED
    BY <2>3, <2>4
<1>6. ASSUME NEW i, pc[s] = "allocate",
             (sockets[i] = None /\ Filled(i, hand[s])) \/ Grown(i, hand[s]),
             hand' = [hand EXCEPT ![s] = None], arcs' = arcs, port' = port
      PROVE  Counted(k)'
  <2>1. CASE k = hand[s]
    <3>1. /\ Cardinality(SlotsOf(k)') = Cardinality(SlotsOf(k)) + 1
          /\ Cardinality(HandsOf(k)') = Cardinality(HandsOf(k)) - 1
      BY <1>6, <2>1, SlotFilled, HandEmptied
    <3> QED
      BY <1>1, <1>6, <3>1 DEF Counted, Held, Open
  <2>2. CASE k # hand[s]
    <3>1. SameSlots(k) /\ SameHands(k)
      BY <1>4, <1>6, <2>2, SlotFilled, HandEmptied
    <3> QED
      BY <1>1, <1>6, <3>1, CountedKept
  <2> QED
    BY <2>1, <2>2
<1>7. CASE pc[s] = "allocate" /\ Reuse(s)
  <2>1. TopFree \in Range(free_ids)
    BY <1>7, PopFacts DEF Reuse, TypeOK, TopFree, IdsAccounted, OnceEach
  <2>2. TopFree \in Ids /\ sockets[TopFree] = None
    BY <2>1 DEF IdsAccounted
  <2>3. Filled(TopFree, hand[s])
    BY <1>4, <1>7, <2>2, FillFacts DEF Reuse
  <2> QED
    BY <1>6, <1>7, <2>2, <2>3 DEF Reuse, Return, Become, kernel
<1>8. CASE pc[s] = "allocate" /\ Grow(s)
  <2>1. Grown(Len(sockets) + 1, hand[s])
    BY <1>4, <1>8, GrowFacts DEF Grow
  <2> QED
    BY <1>6, <1>8, <2>1 DEF Grow, Return, Become, kernel
<1>9. ASSUME NEW c \in Sockets, arcs[c] >= 1, DropArc(c), k # c, SameSlots(k), SameHands(k)
      PROVE  Counted(k)'
  BY <1>1, <1>9, DropFacts, CountedKept
<1>10. ASSUME arcs[k] >= 1, DropArc(k), Held(k)' = Held(k) - 1
       PROVE  Counted(k)'
  <2>1. arcs'[k] = arcs[k] - 1 /\ port'[k] = IF arcs[k] = 1 THEN None ELSE port[k]
    BY <1>10, DropFacts
  <2> QED
    BY <1>1, <1>10, <2>1 DEF Counted, Open
<1>11. CASE LetGo(s)
  <2>1. hand[s] \in Sockets /\ arcs[hand[s]] >= 1
    BY <1>4, <1>11, HandCounted DEF LetGo
  <2>2. SameSlots(k)
    BY <1>11, SlotsKept DEF LetGo, registry
  <2>3. CASE k = hand[s]
    <3>1. Cardinality(HandsOf(k)') = Cardinality(HandsOf(k)) - 1
      BY <1>11, <2>3, HandEmptied DEF LetGo
    <3>2. Held(k)' = Held(k) - 1
      BY <1>1, <2>2, <3>1 DEF Held, SameSlots
    <3> QED
      BY <1>10, <1>11, <2>1, <2>3, <3>2 DEF LetGo
  <2>4. CASE k # hand[s]
    <3>1. SameHands(k)
      BY <1>11, <2>1, <2>4, HandEmptied DEF LetGo
    <3> QED
      BY <1>9, <1>11, <2>1, <2>2, <2>4, <3>1 DEF LetGo
  <2> QED
    BY <2>3, <2>4
<1>12. CASE \E i \in Ids, next \in Labels, to \in Ports \cup {None} : CheckedOut(s, i, next, to)
  <2>1. PICK i \in Ids, next \in Labels, to \in Ports \cup {None} : CheckedOut(s, i, next, to)
    BY <1>12
  <2> DEFINE c == sockets[i]
  <2>2. c \in Sockets
    BY <2>1, ElementOfSeq DEF CheckedOut, TypeOK, Ids
  <2>3. /\ hand' = [hand EXCEPT ![s] = c] /\ hand[s] = None /\ sockets' = sockets
        /\ arcs' = [arcs EXCEPT ![c] = @ + 1] /\ port' = port
    BY <1>3, <2>1 DEF CheckedOut, Become, Acquire, Idle, registry, kernel
  <2>4. arcs[c] >= 1
    BY <2>2, SlotCounted
  <2> HIDE DEF c
  <2>5. SameSlots(k)
    BY <2>3, SlotsKept
  <2>6. CASE k = c
    <3>1. arcs'[k] = arcs[k] + 1 /\ port'[k] = port[k]
      BY <2>3, <2>6 DEF TypeOK
    <3>2. Cardinality(HandsOf(k)') = Cardinality(HandsOf(k)) + 1
      BY <2>3, <2>6, HandFilled
    <3> QED
      BY <1>1, <2>4, <2>5, <2>6, <3>1, <3>2 DEF Counted, Held, Open, SameSlots
  <2>7. CASE k # c
    <3>1. SameHands(k)
      BY <2>2, <2>3, <2>7, HandFilled
    <3>2. arcs'[k] = arcs[k] /\ port'[k] = port[k]
      BY <2>3, <2>7 DEF TypeOK
    <3> QED
      BY <1>1, <2>5, <3>1, <3>2, CountedKept
  <2> QED
    BY <2>6, <2>7
<1>13. CASE Missed(s) \/ Passed(s) \/ Send(s) \/ Receive(s)
  <2>1. sockets' = sockets /\ arcs' = arcs /\ port' = port
    BY <1>13 DEF Missed, Passed, Send, Receive, registry, kernel
  <2>2. hand' = hand
    <3>1. CASE Missed(s)
      BY <1>3, <3>1 DEF Missed, Return, Become, Idle, TypeOK
    <3> QED
      BY <1>13, <3>1 DEF Passed, Send, Receive
  <2> QED
    BY <1>1, <2>1, <2>2, SlotsKept, HandsKept, CountedKept
<1>14. CASE \E h \in handles : Closed(s, h)
  <2>1. PICK h \in handles : Closed(s, h)
    BY <1>14
  <2> DEFINE c == sockets[h.id]
  <2>2. c \in Sockets /\ h.id \in Ids
    BY <2>1, ElementOfSeq DEF Closed, TypeOK, Ids
  <2>3. arcs[c] >= 1
    BY <2>2, SlotCounted
  <2>4. Filled(h.id, None)
    BY <2>1, <2>2, FillFacts DEF Closed
  <2>5. hand' = hand
    BY <1>3, <2>1 DEF Closed, Closing, Return, Become, Idle, TypeOK
  <2>6. DropArc(c)
    BY <2>1 DEF Closed
  <2>7. SameHands(k)
    BY <2>5, HandsKept
  <2>8. CASE k = c
    <3>1. Cardinality(SlotsOf(k)') = Cardinality(SlotsOf(k)) - 1
      BY <2>4, <2>8, SlotEmptied
    <3>2. Held(k)' = Held(k) - 1
      BY <1>1, <2>7, <3>1 DEF Held, SameHands
    <3> QED
      BY <1>10, <2>3, <2>6, <2>8, <3>2
  <2>9. CASE k # c
    <3>1. PICK l \in Sockets : l = c
      BY <2>2
    <3>2. sockets[h.id] = l /\ k \in Sockets \ {l}
      BY <2>9, <3>1
    <3>3. SameSlots(k)
      BY <2>4, <3>2, SlotEmptied
    <3> HIDE DEF c
    <3> QED
      BY <1>9, <2>2, <2>3, <2>6, <2>7, <2>9, <3>1, <3>3
  <2> QED
    BY <2>8, <2>9
<1> QED
  BY <1>5, <1>7, <1>8, <1>11, <1>12, <1>13, <1>14 DEF KindOf

-----------------------------------------------------------------------------
(* A port is bound once, and a datagram is in one place.                   *)
LEMMA PortStep ==
    ASSUME UdpAssumptions, TypeOK, HandInv, CountsExact, PortInv,
           NEW s \in Strands, KindOf(s)
    PROVE  PortInv'
<1>1. ASSUME UNCHANGED port
      PROVE  PortInv'
  BY <1>1 DEF PortInv
<1>2. ASSUME NEW k \in Sockets, arcs[k] >= 1, DropArc(k)
      PROVE  PortInv'
  <2>1. \A l \in Sockets : port'[l] = port[l] \/ port'[l] = None
    BY <1>2, DropFacts
  <2> QED
    BY <2>1 DEF PortInv
<1>3. ASSUME NEW k \in Sockets, NEW p \in Ports, BindPort(s, k, p)
      PROVE  PortInv'
  <2>1. port'[k] = p /\ \A l \in Sockets \ {k} : port'[l] = port[l] /\ port[l] # p
    BY <1>3 DEF BindPort, TypeOK
  <2> QED
    BY <2>1 DEF PortInv
<1>4. CASE LetGo(s)
  <2>1. hand[s] \in Sockets
    BY <1>4 DEF LetGo, HandInv, TypeOK
  <2> QED
    BY <1>2, <1>4, <2>1, HandCounted DEF LetGo
<1>5. ASSUME NEW h \in handles, Closed(s, h)
      PROVE  PortInv'
  <2>1. sockets[h.id] \in Sockets /\ h.id \in Ids
    BY <1>5, ElementOfSeq DEF Closed, TypeOK, Ids
  <2> QED
    BY <1>2, <1>5, <2>1, SlotCounted DEF Closed
<1>6. CASE Reuse(s) \/ Grow(s) \/ Missed(s) \/ Passed(s) \/ Send(s) \/ Receive(s)
  BY <1>1, <1>6 DEF Reuse, Grow, Missed, Passed, Send, Receive, kernel
<1>7. ASSUME NEW i \in Ids, NEW next \in Labels, NEW to \in Ports \cup {None},
             CheckedOut(s, i, next, to)
      PROVE  PortInv'
  BY <1>1, <1>7 DEF CheckedOut, kernel
<1> QED
  BY <1>3, <1>4, <1>5, <1>6, <1>7 DEF KindOf

(* Nothing is sent or received: a queue or an answer is kept or emptied.   *)
LEMMA NumbersKept ==
    ASSUME TypeOK, NumbersInv, ReceivedOnce, sent' = sent,
           \A k \in Sockets : queue'[k] = queue[k] \/ queue'[k] = <<>>,
           \A t \in Strands : answer'[t].n = answer[t].n \/ answer'[t].n = 0
    PROVE  NumbersInv' /\ ReceivedOnce'
<1>1. \A k \in Sockets : queue'[k] = queue[k] \/ 1..Len(queue'[k]) = {}
  <2>1. Len(<<>>) = 0 /\ 1..0 = {}
    BY EmptySeq
  <2> QED
    BY <2>1
<1>2. sent \in Nat /\ \A t \in Strands : answer[t].n \in Nat
  BY DEF TypeOK, Answers
<1>3. NumbersInv'
  <2>1. \A k \in Sockets : \A i \in 1..Len(queue'[k]) : queue'[k][i].n \in 1..sent'
    BY <1>1 DEF NumbersInv
  <2>2. \A k, l \in Sockets : \A i \in 1..Len(queue'[k]), j \in 1..Len(queue'[l]) :
            queue'[k][i].n = queue'[l][j].n => k = l /\ i = j
    BY <1>1 DEF NumbersInv
  <2>3. ASSUME NEW t \in Strands, NEW k \in Sockets, NEW i \in 1..Len(queue'[k])
        PROVE  queue'[k][i].n # answer'[t].n
    <3>1. queue'[k] = queue[k]
      BY <1>1, <2>3
    <3>2. queue[k][i].n # answer[t].n /\ queue[k][i].n \in 1..sent
      BY <3>1 DEF NumbersInv
    <3>3. 0 \notin 1..sent
      BY <1>2
    <3> QED
      BY <3>1, <3>2, <3>3
  <2> QED
    BY <2>1, <2>2, <2>3 DEF NumbersInv
<1>4. ReceivedOnce'
  <2>1. \A t \in Strands : answer'[t].n <= sent'
    BY <1>2 DEF ReceivedOnce
  <2>2. \A t, r \in Strands : t # r /\ answer'[t].n = answer'[r].n => answer'[t].n = 0
    BY DEF ReceivedOnce
  <2> QED
    BY <2>1, <2>2 DEF ReceivedOnce
<1> QED
  BY <1>3, <1>4

LEMMA SendNumbers ==
    ASSUME UdpAssumptions, TypeOK, HandInv, PortInv, NumbersInv, ReceivedOnce,
           NEW s \in Strands, Send(s)
    PROVE  NumbersInv' /\ ReceivedOnce'
<1> DEFINE d == Datagram(s)
<1>1. sent \in Nat /\ sent' = sent + 1 /\ \A t \in Strands : answer[t].n \in Nat
  BY DEF Send, TypeOK, Answers
<1>2. \A t \in Strands : answer'[t].n = answer[t].n \/ answer'[t].n = 0
  BY Values DEF Send, TypeOK
<1>3. d \in Datagrams /\ d.n = sent + 1
  <2>1. job[s].to \in Ports /\ hand[s] \in Sockets
    BY DEF Send, HandInv, TypeOK
  <2>2. port[hand[s]] \in Ports \cup {None} /\ sent + 1 \in Nat
    BY <2>1 DEF TypeOK
  <2> QED
    BY <2>1, <2>2 DEF Datagram, Datagrams
<1>4. job[s].to # None
  BY DEF Send, HandInv, UdpAssumptions
<1> HIDE DEF d
<1>5. ASSUME NEW k \in Sockets, NEW i \in 1..Len(queue'[k])
      PROVE  \/ i \in 1..Len(queue[k]) /\ queue'[k][i] = queue[k][i]
             \/ i = Len(queue[k]) + 1 /\ queue'[k][i] = d /\ port[k] = job[s].to
  <2>1. queue[k] \in Seq(Datagrams) /\ Len(queue[k]) \in Nat
    BY LenProperties DEF TypeOK
  <2>2. CASE queue'[k] = queue[k]
    BY <2>2
  <2>3. CASE port[k] = job[s].to /\ queue'[k] = Append(queue[k], d)
    <3>1. /\ Len(queue'[k]) = Len(queue[k]) + 1
          /\ \A j \in 1..Len(queue[k]) : queue'[k][j] = queue[k][j]
          /\ queue'[k][Len(queue[k]) + 1] = d
      BY <1>3, <2>1, <2>3, AppendProperties
    <3> QED
      BY <2>1, <2>3, <3>1
  <2> QED
    BY <2>2, <2>3 DEF Send, d
<1>6. \A k \in Sockets : \A i \in 1..Len(queue[k]) : queue[k][i].n \in 1..sent
  BY DEF NumbersInv
<1>7. sent + 1 \notin 1..sent /\ 0 \notin 1..(sent + 1) /\ \A n \in 1..sent : n \in 1..(sent + 1)
  BY <1>1
<1>8. \A k \in Sockets : \A i \in 1..Len(queue'[k]) : queue'[k][i].n \in 1..sent'
  <2>1. sent + 1 \in 1..(sent + 1)
    BY <1>1
  <2> QED
    BY <1>1, <1>3, <1>5, <1>6, <1>7, <2>1
<1>9. ASSUME NEW k \in Sockets, NEW l \in Sockets,
             NEW i \in 1..Len(queue'[k]), NEW j \in 1..Len(queue'[l]),
             queue'[k][i].n = queue'[l][j].n
      PROVE  k = l /\ i = j
  <2>1. CASE queue'[k][i] = d /\ port[k] = job[s].to /\ i = Len(queue[k]) + 1
    <3>1. queue'[l][j] = d /\ port[l] = job[s].to /\ j = Len(queue[l]) + 1
      BY <1>3, <1>5, <1>6, <1>7, <1>9, <2>1
    <3> QED
      BY <1>4, <2>1, <3>1 DEF PortInv
  <2>2. CASE i \in 1..Len(queue[k]) /\ queue'[k][i] = queue[k][i]
    <3>1. j \in 1..Len(queue[l]) /\ queue'[l][j] = queue[l][j]
      BY <1>3, <1>5, <1>6, <1>7, <1>9, <2>2
    <3> QED
      BY <1>9, <2>2, <3>1 DEF NumbersInv
  <2> QED
    BY <1>5, <2>1, <2>2
<1>10. ASSUME NEW t \in Strands, NEW k \in Sockets, NEW i \in 1..Len(queue'[k])
       PROVE  queue'[k][i].n # answer'[t].n
  <2>1. CASE answer'[t].n = 0
    BY <1>1, <1>7, <1>8, <2>1
  <2>2. CASE answer'[t].n = answer[t].n
    <3>1. answer[t].n <= sent /\ answer[t].n # sent + 1
      BY <1>1 DEF ReceivedOnce
    <3> QED
      BY <1>3, <1>5, <2>2, <3>1 DEF NumbersInv
  <2> QED
    BY <1>2, <2>1, <2>2
<1>11. ReceivedOnce'
  <2>1. \A t \in Strands : answer'[t].n <= sent'
    BY <1>1, <1>2 DEF ReceivedOnce
  <2>2. \A t, r \in Strands : t # r /\ answer'[t].n = answer'[r].n => answer'[t].n = 0
    BY <1>2 DEF ReceivedOnce
  <2> QED
    BY <2>1, <2>2 DEF ReceivedOnce
<1> QED
  BY <1>8, <1>9, <1>10, <1>11 DEF NumbersInv

LEMMA ReceiveNumbers ==
    ASSUME TypeOK, HandInv, NumbersInv, ReceivedOnce, NEW s \in Strands, Receive(s)
    PROVE  NumbersInv' /\ ReceivedOnce'
<1>1. PICK c \in Sockets : c = hand[s]
  BY DEF Receive, HandInv, TypeOK
<1>2. PICK n : n = Head(queue[c]).n
  OBVIOUS
<1>3. queue[c] \in Seq(Datagrams) /\ queue[c] # <<>> /\ Len(queue[c]) \in Nat
  BY <1>1, LenProperties DEF TypeOK, Receive
<1>4. /\ Head(queue[c]) \in Datagrams /\ Head(queue[c]) = queue[c][1]
      /\ Len(Tail(queue[c])) = Len(queue[c]) - 1
      /\ \A i \in 1..Len(Tail(queue[c])) : Tail(queue[c])[i] = queue[c][i + 1]
  BY <1>3, HeadTailProperties
<1>5. sent' = sent /\ sent \in Nat
  BY DEF Receive, TypeOK
<1>6. queue'[c] = Tail(queue[c]) /\ \A k \in Sockets \ {c} : queue'[k] = queue[k]
  BY <1>1 DEF Receive, TypeOK
<1>7. answer'[s].n = n /\ \A t \in Strands \ {s} : answer'[t] = answer[t]
  BY <1>1, <1>2, <1>4, Values DEF Receive, TypeOK
<1>8. 1 \in 1..Len(queue[c])
  BY <1>3, EmptySeq
<1>9. n = queue[c][1].n
  BY <1>2, <1>4
<1> DEFINE From(k, i) == IF k = c THEN i + 1 ELSE i
<1>10. ASSUME NEW k \in Sockets, NEW i \in 1..Len(queue'[k])
       PROVE  /\ From(k, i) \in 1..Len(queue[k]) /\ queue'[k][i] = queue[k][From(k, i)]
              /\ i \in Nat /\ i >= 1
  <2>1. CASE k = c
    <3>1. Len(queue'[k]) = Len(queue[c]) - 1
      BY <1>4, <1>6, <2>1
    <3>2. i \in 1..(Len(queue[c]) - 1)
      BY <3>1
    <3>3. i + 1 \in 1..Len(queue[c]) /\ i \in Nat /\ i >= 1
      BY <1>3, <3>2
    <3>4. queue'[k][i] = queue[c][i + 1]
      BY <1>4, <1>6, <2>1, <3>2
    <3> QED
      BY <2>1, <3>3, <3>4
  <2>2. CASE k # c
    <3>1. queue'[k] = queue[k]
      BY <1>6, <2>2
    <3>2. i \in 1..Len(queue[k]) /\ Len(queue[k]) \in Nat
      BY <3>1, LenProperties DEF TypeOK
    <3> QED
      BY <2>2, <3>1, <3>2
  <2> QED
    BY <2>1, <2>2
<1>11. ASSUME NEW k \in Sockets, NEW i \in 1..Len(queue'[k])
       PROVE  queue'[k][i].n \in 1..sent'
  <2>1. From(k, i) \in 1..Len(queue[k]) /\ queue'[k][i] = queue[k][From(k, i)]
    BY <1>10
  <2> HIDE DEF From
  <2> QED
    BY <1>5, <2>1 DEF NumbersInv
<1>12. ASSUME NEW k \in Sockets, NEW l \in Sockets,
              NEW i \in 1..Len(queue'[k]), NEW j \in 1..Len(queue'[l]),
              queue'[k][i].n = queue'[l][j].n
       PROVE  k = l /\ i = j
  <2>1. /\ From(k, i) \in 1..Len(queue[k]) /\ queue'[k][i] = queue[k][From(k, i)]
        /\ i \in Nat
    BY <1>10
  <2>2. /\ From(l, j) \in 1..Len(queue[l]) /\ queue'[l][j] = queue[l][From(l, j)]
        /\ j \in Nat
    BY <1>10
  <2> HIDE DEF From
  <2>3. k = l /\ From(k, i) = From(l, j)
    BY <1>12, <2>1, <2>2 DEF NumbersInv
  <2> QED
    BY <2>1, <2>2, <2>3 DEF From
<1>13. ASSUME NEW t \in Strands, NEW k \in Sockets, NEW i \in 1..Len(queue'[k])
       PROVE  queue'[k][i].n # answer'[t].n
  <2>1. /\ From(k, i) \in 1..Len(queue[k]) /\ queue'[k][i] = queue[k][From(k, i)]
        /\ i \in Nat /\ i >= 1
    BY <1>10
  <2>2. k = c => From(k, i) # 1
    BY <2>1
  <2> HIDE DEF From
  <2>3. CASE t = s
    <3>1. queue[k][From(k, i)].n # queue[c][1].n
      BY <1>1, <1>8, <2>1, <2>2 DEF NumbersInv
    <3> QED
      BY <1>7, <1>9, <2>1, <2>3, <3>1
  <2>4. CASE t # s
    BY <1>7, <2>1, <2>4 DEF NumbersInv
  <2> QED
    BY <2>3, <2>4
<1> HIDE DEF From
<1>14. n \in 1..sent /\ \A t \in Strands : answer[t].n # n
  BY <1>1, <1>8, <1>9 DEF NumbersInv
<1>15. ReceivedOnce'
  <2>1. \A t \in Strands : answer'[t].n <= sent'
    BY <1>5, <1>7, <1>14 DEF ReceivedOnce
  <2>2. \A t, r \in Strands : t # r /\ answer'[t].n = answer'[r].n => answer'[t].n = 0
    BY <1>7, <1>14 DEF ReceivedOnce
  <2> QED
    BY <2>1, <2>2 DEF ReceivedOnce
<1> QED
  BY <1>11, <1>12, <1>13, <1>15 DEF NumbersInv

LEMMA NumbersStep ==
    ASSUME UdpAssumptions, IInv, NEW s \in Strands, KindOf(s)
    PROVE  NumbersInv' /\ ReceivedOnce'
<1> USE DEF IInv
<1>1. ASSUME NEW a \in Answers, a.n = 0, answer' = answer \/ answer' = [answer EXCEPT ![s] = a]
      PROVE  \A t \in Strands : answer'[t].n = answer[t].n \/ answer'[t].n = 0
  BY <1>1 DEF TypeOK
<1>2. ASSUME UNCHANGED <<queue, sent>>, NEW a \in Answers, a.n = 0,
             answer' = answer \/ answer' = [answer EXCEPT ![s] = a]
      PROVE  NumbersInv' /\ ReceivedOnce'
  BY <1>1, <1>2, NumbersKept
<1>3. ASSUME NEW k \in Sockets, arcs[k] >= 1, DropArc(k), NEW a \in Answers, a.n = 0,
             answer' = answer \/ answer' = [answer EXCEPT ![s] = a]
      PROVE  NumbersInv' /\ ReceivedOnce'
  <2>1. sent' = sent /\ \A l \in Sockets : queue'[l] = queue[l] \/ queue'[l] = <<>>
    BY <1>3, DropFacts
  <2>2. \A t \in Strands : answer'[t].n = answer[t].n \/ answer'[t].n = 0
    BY <1>1, <1>3
  <2> QED
    BY <2>1, <2>2, NumbersKept
<1>4. ASSUME NEW k \in Sockets, NEW p \in Ports, BindPort(s, k, p)
      PROVE  NumbersInv' /\ ReceivedOnce'
  BY <1>2, <1>4, Values DEF BindPort, Become
<1>5. CASE Reuse(s) \/ Grow(s) \/ Missed(s) \/ Passed(s)
  BY <1>2, <1>5, Values DEF Reuse, Grow, Missed, Passed, Return, Become, kernel
<1>6. CASE LetGo(s)
  <2>1. hand[s] \in Sockets
    BY <1>6 DEF LetGo, HandInv, TypeOK
  <2> QED
    BY <1>3, <1>6, <2>1, HandCounted, Values DEF LetGo
<1>7. ASSUME NEW i \in Ids, NEW next \in Labels, NEW to \in Ports \cup {None},
             CheckedOut(s, i, next, to)
      PROVE  NumbersInv' /\ ReceivedOnce'
  BY <1>2, <1>7, Values DEF CheckedOut, Become, kernel
<1>8. ASSUME NEW h \in handles, Closed(s, h)
      PROVE  NumbersInv' /\ ReceivedOnce'
  <2>1. sockets[h.id] \in Sockets /\ h.id \in Ids /\ h.sock \in Sockets
    BY <1>8, ElementOfSeq DEF Closed, TypeOK, Ids, Handles
  <2> DEFINE a == [Ok EXCEPT !.closed = sockets[h.id], !.meant = h.sock]
  <2>2. a \in Answers /\ a.n = 0
    BY <2>1, Values
  <2>3. answer' = [answer EXCEPT ![s] = a] /\ DropArc(sockets[h.id])
    BY <1>8 DEF Closed, Closing, Return, Become
  <2> HIDE DEF a
  <2> QED
    BY <1>3, <2>1, <2>2, <2>3, SlotCounted
<1> QED
  BY <1>4, <1>5, <1>6, <1>7, <1>8, SendNumbers, ReceiveNumbers DEF KindOf

-----------------------------------------------------------------------------
LEMMA InitHolds ==
    ASSUME UdpAssumptions
    PROVE  Init => IInv
<1> SUFFICES ASSUME Init PROVE IInv
  OBVIOUS
<1>1. /\ \A S : <<>> \in Seq(S)
      /\ Len(<<>>) = 0 /\ 1..0 = {}
  BY EmptySeq
<1>2. TypeOK
  <2>1. /\ sockets \in Seq(Sockets \cup {None}) /\ Len(sockets) <= MAX_SOCKETS
        /\ free_ids \in Seq(Nat)
    BY <1>1 DEF Init, UdpAssumptions
  <2>2. arcs \in [Sockets -> Nat] /\ port \in [Sockets -> Ports \cup {None}] /\ sent \in 0..MaxSent
    BY DEF Init, UdpAssumptions
  <2>3. queue \in [Sockets -> Seq(Datagrams)]
    BY <1>1 DEF Init
  <2>4. StrandTypes /\ handles \subseteq Handles
    BY Values DEF Init, StrandTypes, Labels
  <2> QED
    BY <2>1, <2>2, <2>3, <2>4 DEF TypeOK, StrandTypes
<1>3. HandInv
  BY DEF Init, HandInv
<1>4. Ids = {} /\ Range(free_ids) = {}
  <2>1. DOMAIN free_ids = {}
    BY <1>1, LenProperties DEF Init
  <2> QED
    BY <1>1, <2>1 DEF Init, Ids, Range
<1>5. IdsAccounted
  BY <1>1, <1>4 DEF IdsAccounted, Init
<1>6. CountsExact
  <2> SUFFICES ASSUME NEW k \in Sockets
               PROVE  Counted(k)
    BY CountsMean
  <2>1. SlotsOf(k) = {} /\ HandsOf(k) = {}
    BY <1>4 DEF SlotsOf, HandsOf, Init, UdpAssumptions
  <2>2. arcs[k] = 0 /\ ~Open(k)
    BY DEF Init, Open
  <2> QED
    BY <2>1, <2>2, FS_EmptySet DEF Counted, Held
<1>7. PortInv
  BY DEF Init, PortInv
<1>8. NumbersInv /\ ReceivedOnce
  <2>1. \A k \in Sockets : 1..Len(queue[k]) = {}
    BY <1>1 DEF Init
  <2>2. \A s \in Strands : answer[s].n = 0
    BY Values DEF Init
  <2>3. sent = 0
    BY DEF Init
  <2> QED
    BY <2>1, <2>2, <2>3 DEF NumbersInv, ReceivedOnce
<1> QED
  BY <1>2, <1>3, <1>5, <1>6, <1>7, <1>8 DEF IInv

LEMMA StepHolds ==
    ASSUME UdpAssumptions
    PROVE  IInv /\ [Next]_vars => IInv'
<1> SUFFICES ASSUME IInv, [Next]_vars PROVE IInv'
  OBVIOUS
<1>1. CASE UNCHANGED vars
  <2> USE <1>1 DEF vars, registry, kernel, strand
  <2>1. TypeOK' /\ HandInv'
    BY DEF IInv, TypeOK, HandInv
  <2>2. IdsAccounted' /\ CountsExact'
    BY DEF IInv, IdsAccounted, Ids, CountsExact, Open
  <2>3. PortInv' /\ NumbersInv' /\ ReceivedOnce'
    BY DEF IInv, PortInv, NumbersInv, ReceivedOnce
  <2> QED
    BY <2>1, <2>2, <2>3 DEF IInv
<1>2. ASSUME NEW s \in Strands, KindOf(s)
      PROVE  IInv'
  <2>1. TypeOK' /\ HandInv'
    BY <1>2, TypeStep DEF IInv
  <2>2. IdsAccounted'
    BY <1>2, IdsStep DEF IInv
  <2>3. CountsExact'
    BY <1>2, CountsStep DEF IInv
  <2>4. PortInv'
    BY <1>2, PortStep DEF IInv
  <2>5. NumbersInv' /\ ReceivedOnce'
    BY <1>2, NumbersStep
  <2> QED
    BY <2>1, <2>2, <2>3, <2>4, <2>5 DEF IInv
<1> QED
  BY <1>1, <1>2, StepKinds

LEMMA InvariantIsSound ==
    ASSUME UdpAssumptions
    PROVE  IInv => DatagramsSound
<1> SUFFICES ASSUME IInv PROVE DatagramsSound
  OBVIOUS
<1>1. InFlightKept
  <2> SUFFICES ASSUME NEW s \in Strands, hand[s] # None
               PROVE  Open(hand[s]) /\ (job[s].meant # None => hand[s] = job[s].meant)
    BY DEF InFlightKept
  <2>1. hand[s] \in Sockets
    BY DEF IInv, TypeOK
  <2>2. Open(hand[s])
    BY <2>1, HandCounted DEF IInv
  <2>3. job[s].meant # None => hand[s] = job[s].meant
    <3>1. NoJob.meant = None
      BY DEF NoJob
    <3> QED
      BY <3>1 DEF IInv, HandInv
  <2> QED
    BY <2>2, <2>3
<1> QED
  BY <1>1 DEF IInv, DatagramsSound

(***************************************************************************)
(* The registry and the sockets in use agree, whoever closes what          *)
(* meanwhile: the free ids are the empty slots, a socket is open exactly   *)
(* while a slot or a strand holds it, an operation in flight works on the  *)
(* socket its id stood for, and no datagram is received twice.             *)
(***************************************************************************)
THEOREM UdpSound ==
    ASSUME UdpAssumptions
    PROVE  Spec => []DatagramsSound
BY InitHolds, StepHolds, InvariantIsSound, PTL DEF Spec
=============================================================================
