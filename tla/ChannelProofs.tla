----------------------------- MODULE ChannelProofs -----------------------------
(***************************************************************************)
(* Proofs about Channel, for any number of strands, values and operations. *)
(*                                                                         *)
(* DrainBeforeEnd is not inductive: it speaks of the moment the sentinel   *)
(* is taken.  DrainInv adds where the sentinel is (behind every value that *)
(* was queued when the channel was closed) and that a sender still on its  *)
(* way to the queue holds none of those values, which in turn needs        *)
(* ExactlyOnce; that the sentinel is unique needs OneSentinel.             *)
(***************************************************************************)
EXTENDS Channel, SequenceTheorems, FiniteSetTheorems, TLAPS

(* Which labels go with a value in hand, and where values come from.       *)
HandInv ==
    /\ \A s \in Strands : hand[s] \in Values <=> pc[s] \in {"s_enqueue", "r_count"}
    /\ \A s \in Strands : hand[s] # None => hand[s] \in offered
    /\ \A i \in 1..Len(queue) : queue[i] # Closed => queue[i] \in offered
    /\ \A i \in 1..Len(taken) : taken[i] \in offered

(* ExactlyOnce, by position.                                               *)
OnceInv ==
    /\ \A i, j \in 1..Len(queue) : queue[i] = queue[j] /\ queue[i] # Closed => i = j
    /\ \A i, j \in 1..Len(taken) : taken[i] = taken[j] => i = j
    /\ \A i \in 1..Len(queue), j \in 1..Len(taken) : queue[i] # taken[j]
    /\ \A s \in Strands : pc[s] = "s_enqueue" =>
           /\ \A i \in 1..Len(queue) : queue[i] # hand[s]
           /\ \A j \in 1..Len(taken) : taken[j] # hand[s]
           /\ \A r \in Strands : hand[r] = hand[s] => r = s
    /\ \A s \in Strands : pc[s] = "r_count" =>
           \E j \in 1..Len(taken) : taken[j] = hand[s]

(* Where the sentinel is, in terms of what it must not overtake.           *)
DrainInv ==
    /\ \A i, j \in 1..Len(queue) : queue[i] = Closed /\ queue[j] \in due => j < i
    /\ ~closed => due = {} /\ ~ended
    /\ \A s \in Strands : pc[s] = "s_enqueue" => hand[s] \notin due
    /\ ended => \A i \in 1..Len(queue) : queue[i] \notin due
    /\ \A s \in Strands : pc[s] = "r_rebroadcast" =>
           \A i \in 1..Len(queue) : queue[i] \notin due

IInv == TypeOK /\ HandInv /\ OneSentinel /\ OnceInv /\ DrainInv

(* The messages of a sequence, by position.                                *)
LEMMA MessagesOf ==
    ASSUME NEW S, NEW q \in Seq(S), NEW m
    PROVE  m \in Range(q) <=> \E i \in 1..Len(q) : q[i] = m
<1>1. DOMAIN q = 1..Len(q)
  BY LenProperties
<1>2. Range(q) = {q[i] : i \in 1..Len(q)}
  BY <1>1 DEF Range
<1> QED
  BY <1>2, Zenon

(* What the queue looks like after a send and after a recv.                *)
Enqueued(m) ==
    /\ Len(queue') = Len(queue) + 1
    /\ \A i \in 1..Len(queue) : queue'[i] = queue[i]
    /\ queue'[Len(queue) + 1] = m

Dequeued ==
    /\ Len(queue) >= 1
    /\ Len(queue') = Len(queue) - 1
    /\ \A i \in 1..Len(queue') : queue'[i] = queue[i + 1]
    /\ Head(queue) = queue[1]

Taken(m) ==
    /\ Len(taken') = Len(taken) + 1
    /\ \A i \in 1..Len(taken) : taken'[i] = taken[i]
    /\ taken'[Len(taken) + 1] = m

LEMMA EnqueueFacts ==
    ASSUME TypeOK, NEW m \in Values \cup {Closed}, queue' = Append(queue, m)
    PROVE  /\ queue' \in Seq(Values \cup {Closed})
           /\ Len(queue) \in Nat
           /\ Enqueued(m)
  BY AppendProperties, LenProperties DEF TypeOK, Enqueued

LEMMA DequeueFacts ==
    ASSUME TypeOK, queue # <<>>, queue' = Tail(queue)
    PROVE  /\ queue' \in Seq(Values \cup {Closed})
           /\ Head(queue) \in Values \cup {Closed}
           /\ Len(queue) \in Nat
           /\ Dequeued
<1>1. queue \in Seq(Values \cup {Closed})
  BY DEF TypeOK
<1>2. Len(queue) \in Nat /\ Len(queue) >= 1 /\ Head(queue) = queue[1]
  BY <1>1, EmptySeq
<1> QED
  BY <1>1, <1>2, HeadTailProperties DEF Dequeued

LEMMA TakenFacts ==
    ASSUME TypeOK, NEW m \in Values, taken' = Append(taken, m)
    PROVE  /\ taken' \in Seq(Values)
           /\ Len(taken) \in Nat
           /\ Taken(m)
  BY AppendProperties, LenProperties DEF TypeOK, Taken

-----------------------------------------------------------------------------
LEMMA InitInv == Init => IInv
<1> SUFFICES ASSUME Init PROVE IInv
  OBVIOUS
<1> USE ChannelConstants DEF Init
<1>1. TypeOK
  <2>1. queue \in Seq(Values \cup {Closed}) /\ taken \in Seq(Values)
    BY EmptySeq
  <2>2. closed \in BOOLEAN /\ ended \in BOOLEAN
    BY Zenon
  <2>3. pc \in [Strands -> Labels] /\ hand \in [Strands -> Values \cup {None}]
    BY DEF Labels
  <2>4. ops \in [Strands -> 0..MaxOps]
    BY SMT
  <2> QED
    BY <2>1, <2>2, <2>3, <2>4 DEF TypeOK
<1>2. HandInv
  BY DEF HandInv
<1>3. OneSentinel
  BY DEF OneSentinel, Holders
<1>4. OnceInv
  BY DEF OnceInv
<1>5. DrainInv
  BY DEF DrainInv
<1> QED
  BY <1>1, <1>2, <1>3, <1>4, <1>5 DEF IInv

(* The preservation of each part, one action at a time.                    *)
LEMMA TypeStep ==
    ASSUME IInv, [Next]_vars
    PROVE  TypeOK'
<1> USE ChannelConstants DEF IInv, TypeOK, Labels, totals, history, Begin
<1>1. ASSUME NEW s \in Strands, NEW v \in Values, SendCheck(s, v)
      PROVE  TypeOK'
  <2>1. CASE closed
    BY <1>1, <2>1 DEF SendCheck
  <2>2. CASE ~closed
    <3>1. pc' = [pc EXCEPT ![s] = "s_enqueue"] /\ hand' = [hand EXCEPT ![s] = v]
      BY <1>1, <2>2, Zenon DEF SendCheck
    <3> QED
      BY <1>1, <3>1 DEF SendCheck
  <2> QED
    BY <2>1, <2>2
<1>2. ASSUME NEW s \in Strands, SendEnqueue(s)
      PROVE  TypeOK'
  <2>1. hand[s] \in Values
    BY <1>2 DEF SendEnqueue, HandInv
  <2> QED
    BY <1>2, <2>1, EnqueueFacts DEF SendEnqueue
<1>3. ASSUME NEW s \in Strands, SendCount(s)
      PROVE  TypeOK'
  BY <1>3 DEF SendCount
<1>4. ASSUME NEW s \in Strands, ReceiveCount(s)
      PROVE  TypeOK'
  BY <1>4 DEF ReceiveCount
<1>5. ASSUME NEW s \in Strands, ReceiveCall(s)
      PROVE  TypeOK'
  BY <1>5 DEF ReceiveCall
<1>6. ASSUME NEW s \in Strands, ReceiveTake(s)
      PROVE  TypeOK'
  <2>1. /\ queue' \in Seq(Values \cup {Closed})
        /\ Head(queue) \in Values \cup {Closed}
    BY <1>6, DequeueFacts DEF ReceiveTake
  <2>2. CASE Head(queue) = Closed
    BY <1>6, <2>1, <2>2 DEF ReceiveTake
  <2>3. CASE Head(queue) # Closed
    <3>1. taken' \in Seq(Values)
      BY <1>6, <2>1, <2>3, TakenFacts DEF ReceiveTake
    <3> QED
      BY <1>6, <2>1, <2>3, <3>1 DEF ReceiveTake
  <2> QED
    BY <2>2, <2>3
<1>7. ASSUME NEW s \in Strands, ReceiveRebroadcast(s)
      PROVE  TypeOK'
  BY <1>7, EnqueueFacts DEF ReceiveRebroadcast
<1>8. ASSUME NEW s \in Strands, CloseCas(s)
      PROVE  TypeOK'
  <2>1. ValuesIn(queue) \in SUBSET Values
    BY MessagesOf, ElementOfSeq DEF ValuesIn
  <2>2. CASE closed
    BY <1>8, <2>2 DEF CloseCas
  <2>3. CASE ~closed
    BY <1>8, <2>1, <2>3 DEF CloseCas
  <2> QED
    BY <2>2, <2>3
<1>9. ASSUME NEW s \in Strands, CloseSentinel(s)
      PROVE  TypeOK'
  BY <1>9, EnqueueFacts DEF CloseSentinel
<1>10. ASSUME UNCHANGED vars
      PROVE  TypeOK'
  BY <1>10 DEF vars
<1> QED
  BY <1>1, <1>2, <1>3, <1>4, <1>5, <1>6, <1>7, <1>8, <1>9, <1>10 DEF Next, Step

-----------------------------------------------------------------------------
(* The facts about types that the position arguments need.                 *)
LEMMA Shapes ==
    ASSUME IInv
    PROVE  /\ pc \in [Strands -> Labels]
           /\ hand \in [Strands -> Values \cup {None}]
           /\ Len(queue) \in Nat /\ Len(taken) \in Nat
           /\ due \subseteq Values /\ offered \subseteq Values
           /\ \A i \in 1..Len(queue) : queue[i] \in Values \cup {Closed}
           /\ \A i \in 1..Len(taken) : taken[i] \in Values
  BY LenProperties, ElementOfSeq DEF IInv, TypeOK

(* What each action does to the variables of the invariant, by position.   *)
SameQueues == queue' = queue /\ taken' = taken
SameEnd    == closed' = closed /\ due' = due /\ ended' = ended
Moves(s, l) == pc' = [pc EXCEPT ![s] = l]
Holds(s, m) == hand' = [hand EXCEPT ![s] = m]

LEMMA SendCheckEffect ==
    ASSUME IInv, NEW s \in Strands, NEW v \in Values, SendCheck(s, v)
    PROVE  /\ SameQueues /\ SameEnd
           /\ pc[s] = "idle" /\ v \notin offered
           /\ offered' = offered \cup {v}
           /\ \/ pc' = pc /\ hand' = hand
              \/ ~closed /\ Moves(s, "s_enqueue") /\ Holds(s, v)
<1>1. \/ pc' = pc /\ hand' = hand
      \/ ~closed /\ Moves(s, "s_enqueue") /\ Holds(s, v)
  BY Zenon DEF SendCheck, Moves, Holds
<1> QED
  BY <1>1, Zenon DEF SendCheck, SameQueues, SameEnd, Begin

LEMMA SendEnqueueEffect ==
    ASSUME IInv, NEW s \in Strands, SendEnqueue(s)
    PROVE  /\ Enqueued(hand[s]) /\ taken' = taken /\ SameEnd
           /\ offered' = offered /\ pc[s] = "s_enqueue"
           /\ Moves(s, "s_count") /\ Holds(s, None)
           /\ hand[s] \in Values /\ hand[s] \in offered
<1>1. hand[s] \in Values /\ hand[s] \in offered
  BY ChannelConstants DEF IInv, HandInv, SendEnqueue
<1>2. Enqueued(hand[s])
  BY <1>1, EnqueueFacts DEF IInv, SendEnqueue
<1> QED
  BY <1>1, <1>2, Zenon DEF SendEnqueue, history, SameEnd, Moves, Holds

LEMMA SendCountEffect ==
    ASSUME IInv, NEW s \in Strands, SendCount(s)
    PROVE  /\ SameQueues /\ SameEnd /\ offered' = offered
           /\ pc[s] = "s_count" /\ Moves(s, "idle") /\ hand' = hand
  BY Zenon DEF SendCount, history, SameQueues, SameEnd, Moves

LEMMA ReceiveCountEffect ==
    ASSUME IInv, NEW s \in Strands, ReceiveCount(s)
    PROVE  /\ SameQueues /\ SameEnd /\ offered' = offered
           /\ pc[s] = "r_count" /\ Moves(s, "idle") /\ Holds(s, None)
  BY Zenon DEF ReceiveCount, history, SameQueues, SameEnd, Moves, Holds

LEMMA ReceiveCallEffect ==
    ASSUME IInv, NEW s \in Strands, ReceiveCall(s)
    PROVE  /\ SameQueues /\ SameEnd /\ offered' = offered
           /\ pc[s] = "idle" /\ Moves(s, "r_take") /\ hand' = hand
  BY Zenon DEF ReceiveCall, Begin, SameQueues, SameEnd, Moves

LEMMA ReceiveTakeEffect ==
    ASSUME IInv, NEW s \in Strands, ReceiveTake(s)
    PROVE  /\ Dequeued /\ SameEnd /\ offered' = offered /\ pc[s] = "r_take"
           /\ \/ /\ queue[1] = Closed /\ Moves(s, "r_rebroadcast")
                 /\ hand' = hand /\ taken' = taken
              \/ /\ queue[1] \in Values /\ queue[1] \in offered
                 /\ Moves(s, "r_count") /\ Holds(s, queue[1]) /\ Taken(queue[1])
<1>1. /\ Dequeued /\ Head(queue) = queue[1]
      /\ Head(queue) \in Values \cup {Closed}
  BY DequeueFacts DEF IInv, ReceiveTake, Dequeued
<1>2. CASE Head(queue) = Closed
  BY <1>1, <1>2, Zenon DEF ReceiveTake, SameEnd, Moves
<1>3. CASE Head(queue) # Closed
  <2>1. Head(queue) \in Values /\ queue[1] \in offered
    BY <1>1, <1>3, Shapes DEF Dequeued, IInv, HandInv
  <2>2. /\ Moves(s, "r_count") /\ Holds(s, Head(queue))
        /\ taken' = Append(taken, Head(queue))
    BY <1>3, Zenon DEF ReceiveTake, Moves, Holds
  <2>3. Taken(Head(queue))
    BY <2>1, <2>2, TakenFacts DEF IInv
  <2> QED
    BY <1>1, <2>1, <2>2, <2>3, Zenon DEF ReceiveTake, SameEnd
<1> QED
  BY <1>2, <1>3

LEMMA ReceiveRebroadcastEffect ==
    ASSUME IInv, NEW s \in Strands, ReceiveRebroadcast(s)
    PROVE  /\ Enqueued(Closed) /\ taken' = taken /\ offered' = offered
           /\ closed' = closed /\ due' = due /\ ended'
           /\ pc[s] = "r_rebroadcast" /\ Moves(s, "idle") /\ hand' = hand
<1>1. Enqueued(Closed)
  BY EnqueueFacts DEF IInv, ReceiveRebroadcast
<1> QED
  BY <1>1, Zenon DEF ReceiveRebroadcast, Moves

LEMMA CloseCasEffect ==
    ASSUME IInv, NEW s \in Strands, CloseCas(s)
    PROVE  /\ SameQueues /\ hand' = hand /\ offered' = offered
           /\ ended' = ended /\ pc[s] = "idle"
           /\ \/ closed' = closed /\ due' = due /\ pc' = pc
              \/ /\ ~closed /\ closed' /\ Moves(s, "c_sentinel")
                 /\ due' = ValuesIn(queue)
<1>1. CASE closed
  BY <1>1, Zenon DEF CloseCas, Begin, SameQueues
<1>2. CASE ~closed
  BY <1>2, Zenon DEF CloseCas, Begin, SameQueues, Moves
<1> QED
  BY <1>1, <1>2

LEMMA CloseSentinelEffect ==
    ASSUME IInv, NEW s \in Strands, CloseSentinel(s)
    PROVE  /\ Enqueued(Closed) /\ taken' = taken /\ offered' = offered /\ SameEnd
           /\ pc[s] = "c_sentinel" /\ Moves(s, "idle") /\ hand' = hand
<1>1. Enqueued(Closed)
  BY EnqueueFacts DEF IInv, CloseSentinel
<1> QED
  BY <1>1, Zenon DEF CloseSentinel, history, SameEnd, Moves

-----------------------------------------------------------------------------
LEMMA HandStep ==
    ASSUME IInv, [Next]_vars
    PROVE  HandInv'
<1> USE ChannelConstants, Shapes
<1>0. HandInv
  BY DEF IInv
<1>1. ASSUME NEW s \in Strands, NEW v \in Values, SendCheck(s, v)
      PROVE  HandInv'
  BY <1>0, <1>1, SendCheckEffect DEF HandInv, SameQueues, SameEnd, Moves, Holds
<1>2. ASSUME NEW s \in Strands, SendEnqueue(s)
      PROVE  HandInv'
  BY <1>0, <1>2, SendEnqueueEffect DEF HandInv, Enqueued, SameEnd, Moves, Holds
<1>3. ASSUME NEW s \in Strands, SendCount(s)
      PROVE  HandInv'
  BY <1>0, <1>3, SendCountEffect DEF HandInv, SameQueues, SameEnd, Moves
<1>4. ASSUME NEW s \in Strands, ReceiveCount(s)
      PROVE  HandInv'
  BY <1>0, <1>4, ReceiveCountEffect DEF HandInv, SameQueues, SameEnd, Moves, Holds
<1>5. ASSUME NEW s \in Strands, ReceiveCall(s)
      PROVE  HandInv'
  BY <1>0, <1>5, ReceiveCallEffect DEF HandInv, SameQueues, SameEnd, Moves
<1>6. ASSUME NEW s \in Strands, ReceiveTake(s)
      PROVE  HandInv'
  <2>1. /\ offered' = offered /\ pc[s] = "r_take"
        /\ Dequeued
    BY <1>6, ReceiveTakeEffect
  <2>2. \A i \in 1..Len(queue') : queue'[i] # Closed => queue'[i] \in offered'
    BY <1>0, <2>1 DEF HandInv, Dequeued
  <2>3. CASE queue[1] = Closed
    <3>1. Moves(s, "r_rebroadcast") /\ hand' = hand /\ taken' = taken
      BY <1>6, <2>3, ReceiveTakeEffect
    <3> QED
      BY <1>0, <2>1, <2>2, <3>1 DEF HandInv, Moves
  <2>4. CASE queue[1] # Closed
    <3>1. /\ Moves(s, "r_count") /\ Holds(s, queue[1]) /\ Taken(queue[1])
          /\ queue[1] \in Values /\ queue[1] \in offered
      BY <1>6, <2>4, ReceiveTakeEffect
    <3>2. \A i \in 1..Len(taken') : taken'[i] \in offered'
      BY <1>0, <2>1, <3>1 DEF HandInv, Taken
    <3>3. \A r \in Strands : hand'[r] \in Values <=> pc'[r] \in {"s_enqueue", "r_count"}
      BY <1>0, <2>1, <3>1 DEF HandInv, Moves, Holds
    <3>4. \A r \in Strands : hand'[r] # None => hand'[r] \in offered'
      BY <1>0, <2>1, <3>1 DEF HandInv, Holds
    <3> QED
      BY <2>2, <3>2, <3>3, <3>4 DEF HandInv
  <2> QED
    BY <2>3, <2>4
<1>7. ASSUME NEW s \in Strands, ReceiveRebroadcast(s)
      PROVE  HandInv'
  BY <1>0, <1>7, ReceiveRebroadcastEffect, SMTT(60) DEF HandInv, Enqueued, Moves
<1>8. ASSUME NEW s \in Strands, CloseCas(s)
      PROVE  HandInv'
  BY <1>0, <1>8, CloseCasEffect DEF HandInv, SameQueues, Moves
<1>9. ASSUME NEW s \in Strands, CloseSentinel(s)
      PROVE  HandInv'
  BY <1>0, <1>9, CloseSentinelEffect DEF HandInv, Enqueued, SameEnd, Moves
<1>10. ASSUME UNCHANGED vars
      PROVE  HandInv'
  BY <1>0, <1>10 DEF vars, history, HandInv
<1> QED
  BY <1>1, <1>2, <1>3, <1>4, <1>5, <1>6, <1>7, <1>8, <1>9, <1>10 DEF Next, Step

LEMMA SentinelStep ==
    ASSUME IInv, [Next]_vars
    PROVE  OneSentinel'
<1> USE ChannelConstants, Shapes
<1>0. OneSentinel
  BY DEF IInv
<1>1. ASSUME NEW s \in Strands, NEW v \in Values, SendCheck(s, v)
      PROVE  OneSentinel'
  BY <1>0, <1>1, SendCheckEffect DEF OneSentinel, Holders, SameQueues, SameEnd, Moves, Holds
<1>2. ASSUME NEW s \in Strands, SendEnqueue(s)
      PROVE  OneSentinel'
  BY <1>0, <1>2, SendEnqueueEffect, SMTT(60) DEF OneSentinel, Holders, Enqueued, SameEnd, Moves, Holds
<1>3. ASSUME NEW s \in Strands, SendCount(s)
      PROVE  OneSentinel'
  BY <1>0, <1>3, SendCountEffect DEF OneSentinel, Holders, SameQueues, SameEnd, Moves
<1>4. ASSUME NEW s \in Strands, ReceiveCount(s)
      PROVE  OneSentinel'
  BY <1>0, <1>4, ReceiveCountEffect DEF OneSentinel, Holders, SameQueues, SameEnd, Moves, Holds
<1>5. ASSUME NEW s \in Strands, ReceiveCall(s)
      PROVE  OneSentinel'
  BY <1>0, <1>5, ReceiveCallEffect DEF OneSentinel, Holders, SameQueues, SameEnd, Moves
<1>6. ASSUME NEW s \in Strands, ReceiveTake(s)
      PROVE  OneSentinel'
  <2>1. Dequeued /\ SameEnd /\ pc[s] = "r_take"
    BY <1>6, ReceiveTakeEffect
  <2>2. CASE queue[1] = Closed
    <3>1. Moves(s, "r_rebroadcast")
      BY <1>6, <2>2, ReceiveTakeEffect
    <3>2. \A i \in 1..Len(queue') : queue'[i] # Closed
      BY <1>0, <2>1, <2>2 DEF OneSentinel, Dequeued
    <3>3. closed /\ Holders = {}
      BY <1>0, <2>1, <2>2, SMTT(60) DEF OneSentinel, Dequeued
    <3>4. Holders' = {s}
      BY <3>1, <3>3 DEF Holders, Moves
    <3> QED
      BY <2>1, <3>2, <3>3, <3>4 DEF OneSentinel, SameEnd
  <2>3. CASE queue[1] # Closed
    <3>1. Holders' = Holders
      BY <1>6, <2>1, <2>3, ReceiveTakeEffect DEF Holders, Moves
    <3>2. \A i \in 1..Len(queue') : queue'[i] = queue[i + 1]
      BY <2>1 DEF Dequeued
    <3>3. \A i \in 1..Len(queue) : queue[i] = Closed =>
             i - 1 \in 1..Len(queue') /\ queue'[i - 1] = Closed
      BY <2>1, <2>3 DEF Dequeued
    <3>4. closed' = closed
      BY <2>1 DEF SameEnd
    <3>5. \A i, j \in 1..Len(queue') : queue'[i] = Closed /\ queue'[j] = Closed => i = j
      BY <1>0, <2>1 DEF OneSentinel, Dequeued
    <3>6. \/ \A i \in 1..Len(queue) : queue[i] # Closed
          \/ Holders = {}
      BY <1>0, Zenon DEF OneSentinel
    <3>7. \A i \in 1..Len(queue') : queue'[i] = Closed =>
             i + 1 \in 1..Len(queue) /\ queue[i + 1] = Closed
      BY <2>1, <3>2 DEF Dequeued
    <3>8. (\A i \in 1..Len(queue') : queue'[i] # Closed) \/ Holders' = {}
      BY <3>1, <3>6, <3>7
    <3>9. ~closed => (\A i \in 1..Len(queue') : queue'[i] # Closed) /\ Holders' = {}
      BY <1>0, <3>1, <3>7 DEF OneSentinel
    <3>10. closed => (\E i \in 1..Len(queue') : queue'[i] = Closed) \/ Holders' # {}
      BY <1>0, <3>1, <3>3 DEF OneSentinel
    <3>11. \A q, r \in Holders' : q = r
      BY <1>0, <3>1 DEF OneSentinel
    <3> QED
      BY <3>4, <3>5, <3>8, <3>9, <3>10, <3>11, Zenon DEF OneSentinel
  <2> QED
    BY <2>2, <2>3
<1>7. ASSUME NEW s \in Strands, ReceiveRebroadcast(s)
      PROVE  OneSentinel'
  BY <1>0, <1>7, ReceiveRebroadcastEffect DEF OneSentinel, Holders, Enqueued, Moves
<1>8. ASSUME NEW s \in Strands, CloseCas(s)
      PROVE  OneSentinel'
  BY <1>0, <1>8, CloseCasEffect DEF OneSentinel, Holders, SameQueues, Moves
<1>9. ASSUME NEW s \in Strands, CloseSentinel(s)
      PROVE  OneSentinel'
  BY <1>0, <1>9, CloseSentinelEffect DEF OneSentinel, Holders, Enqueued, SameEnd, Moves
<1>10. ASSUME UNCHANGED vars
      PROVE  OneSentinel'
  BY <1>0, <1>10 DEF vars, history, OneSentinel, Holders
<1> QED
  BY <1>1, <1>2, <1>3, <1>4, <1>5, <1>6, <1>7, <1>8, <1>9, <1>10 DEF Next, Step

LEMMA OnceStep ==
    ASSUME IInv, [Next]_vars
    PROVE  OnceInv'
<1> USE ChannelConstants, Shapes
<1>0. HandInv /\ OnceInv
  BY DEF IInv
<1>1. ASSUME NEW s \in Strands, NEW v \in Values, SendCheck(s, v)
      PROVE  OnceInv'
  BY <1>0, <1>1, SendCheckEffect, SMTT(60) DEF HandInv, OnceInv, SameQueues, Moves, Holds
<1>2. ASSUME NEW s \in Strands, SendEnqueue(s)
      PROVE  OnceInv'
  BY <1>0, <1>2, SendEnqueueEffect, SMTT(60) DEF HandInv, OnceInv, Enqueued, Moves, Holds
<1>3. ASSUME NEW s \in Strands, SendCount(s)
      PROVE  OnceInv'
  BY <1>0, <1>3, SendCountEffect DEF OnceInv, SameQueues, SameEnd, Moves
<1>4. ASSUME NEW s \in Strands, ReceiveCount(s)
      PROVE  OnceInv'
  BY <1>0, <1>4, ReceiveCountEffect, SMTT(60) DEF HandInv, OnceInv, SameQueues, Moves, Holds
<1>5. ASSUME NEW s \in Strands, ReceiveCall(s)
      PROVE  OnceInv'
  BY <1>0, <1>5, ReceiveCallEffect DEF OnceInv, SameQueues, SameEnd, Moves
<1>6. ASSUME NEW s \in Strands, ReceiveTake(s)
      PROVE  OnceInv'
  <2>1. Dequeued /\ pc[s] = "r_take"
    BY <1>6, ReceiveTakeEffect
  <2>2. \A i, j \in 1..Len(queue') : queue'[i] = queue'[j] /\ queue'[i] # Closed => i = j
    BY <1>0, <2>1 DEF OnceInv, Dequeued
  <2>3. CASE queue[1] = Closed
    <3>1. Moves(s, "r_rebroadcast") /\ hand' = hand /\ taken' = taken
      BY <1>6, <2>3, ReceiveTakeEffect
    <3> QED
      BY <1>0, <2>1, <2>2, <3>1 DEF OnceInv, Moves, Dequeued
  <2>4. CASE queue[1] # Closed
    <3>1. Moves(s, "r_count") /\ Holds(s, queue[1]) /\ Taken(queue[1])
      BY <1>6, <2>4, ReceiveTakeEffect
    <3>2. \A i, j \in 1..Len(taken') : taken'[i] = taken'[j] => i = j
      BY <1>0, <2>1, <3>1 DEF OnceInv, Taken, Dequeued
    <3>3. \A i \in 1..Len(queue'), j \in 1..Len(taken') : queue'[i] # taken'[j]
      BY <1>0, <2>1, <2>4, <3>1, SMTT(60) DEF OnceInv, Taken, Dequeued
    <3>4. \A r \in Strands : pc'[r] = "s_enqueue" =>
             pc[r] = "s_enqueue" /\ r # s /\ hand'[r] = hand[r] /\ hand[r] # queue[1]
      BY <1>0, <2>1, <3>1 DEF OnceInv, Moves, Holds, Dequeued
    <3>5. \A r \in Strands : pc'[r] = "s_enqueue" =>
             /\ \A i \in 1..Len(queue') : queue'[i] # hand'[r]
             /\ \A j \in 1..Len(taken') : taken'[j] # hand'[r]
      BY <1>0, <2>1, <3>1, <3>4 DEF OnceInv, Taken, Dequeued
    <3>6. \A r \in Strands : pc'[r] = "s_enqueue" =>
             \A q \in Strands : hand'[q] = hand'[r] => q = r
      BY <1>0, <3>1, <3>4 DEF OnceInv, Holds
    <3>7. \A r \in Strands : pc'[r] = "r_count" =>
             \E j \in 1..Len(taken') : taken'[j] = hand'[r]
      BY <1>0, <3>1 DEF OnceInv, Taken, Moves, Holds
    <3> QED
      BY <2>2, <3>2, <3>3, <3>5, <3>6, <3>7 DEF OnceInv
  <2> QED
    BY <2>3, <2>4
<1>7. ASSUME NEW s \in Strands, ReceiveRebroadcast(s)
      PROVE  OnceInv'
  BY <1>0, <1>7, ReceiveRebroadcastEffect, SMTT(60) DEF OnceInv, Enqueued, Moves
<1>8. ASSUME NEW s \in Strands, CloseCas(s)
      PROVE  OnceInv'
  BY <1>0, <1>8, CloseCasEffect, SMTT(60) DEF OnceInv, SameQueues, Moves
<1>9. ASSUME NEW s \in Strands, CloseSentinel(s)
      PROVE  OnceInv'
  BY <1>0, <1>9, CloseSentinelEffect, SMTT(60) DEF OnceInv, Enqueued, SameEnd, Moves
<1>10. ASSUME UNCHANGED vars
      PROVE  OnceInv'
  BY <1>0, <1>10 DEF vars, history, OnceInv
<1> QED
  BY <1>1, <1>2, <1>3, <1>4, <1>5, <1>6, <1>7, <1>8, <1>9, <1>10 DEF Next, Step

LEMMA DrainStep ==
    ASSUME IInv, [Next]_vars
    PROVE  DrainInv'
<1> USE ChannelConstants, Shapes
<1>0. HandInv /\ OneSentinel /\ OnceInv /\ DrainInv
  BY DEF IInv
<1>1. ASSUME NEW s \in Strands, NEW v \in Values, SendCheck(s, v)
      PROVE  DrainInv'
  BY <1>0, <1>1, SendCheckEffect DEF DrainInv, SameQueues, SameEnd, Moves, Holds
<1>2. ASSUME NEW s \in Strands, SendEnqueue(s)
      PROVE  DrainInv'
  BY <1>0, <1>2, SendEnqueueEffect DEF DrainInv, Enqueued, SameEnd, Moves, Holds
<1>3. ASSUME NEW s \in Strands, SendCount(s)
      PROVE  DrainInv'
  BY <1>0, <1>3, SendCountEffect DEF DrainInv, SameQueues, SameEnd, Moves
<1>4. ASSUME NEW s \in Strands, ReceiveCount(s)
      PROVE  DrainInv'
  BY <1>0, <1>4, ReceiveCountEffect DEF DrainInv, SameQueues, SameEnd, Moves, Holds
<1>5. ASSUME NEW s \in Strands, ReceiveCall(s)
      PROVE  DrainInv'
  BY <1>0, <1>5, ReceiveCallEffect DEF DrainInv, SameQueues, SameEnd, Moves
<1>6. ASSUME NEW s \in Strands, ReceiveTake(s)
      PROVE  DrainInv'
  <2>1. Dequeued /\ SameEnd /\ pc[s] = "r_take"
    BY <1>6, ReceiveTakeEffect
  <2>2. \A i, j \in 1..Len(queue') : queue'[i] = Closed /\ queue'[j] \in due => j < i
    BY <1>0, <2>1, SMTT(60) DEF DrainInv, Dequeued
  <2>3. CASE queue[1] = Closed
    <3>1. Moves(s, "r_rebroadcast") /\ hand' = hand
      BY <1>6, <2>3, ReceiveTakeEffect
    <3>2. \A i \in 1..Len(queue') : queue'[i] \notin due
      BY <1>0, <2>1, <2>3 DEF DrainInv, Dequeued
    <3> QED
      BY <1>0, <2>1, <2>2, <3>1, <3>2 DEF DrainInv, Moves, SameEnd
  <2>4. CASE queue[1] # Closed
    <3>1. Moves(s, "r_count") /\ Holds(s, queue[1])
      BY <1>6, <2>4, ReceiveTakeEffect
    <3> QED
      BY <1>0, <2>1, <2>2, <3>1 DEF DrainInv, Moves, Holds, SameEnd, Dequeued
  <2> QED
    BY <2>3, <2>4
<1>7. ASSUME NEW s \in Strands, ReceiveRebroadcast(s)
      PROVE  DrainInv'
  <2>1. /\ Enqueued(Closed) /\ closed' = closed /\ due' = due /\ hand' = hand
        /\ pc[s] = "r_rebroadcast" /\ Moves(s, "idle")
    BY <1>7, ReceiveRebroadcastEffect
  <2>2. \A i \in 1..Len(queue') : queue'[i] \notin due'
    BY <1>0, <2>1 DEF DrainInv, Enqueued
  <2>3. closed
    BY <1>0, <2>1 DEF OneSentinel, Holders
  <2> QED
    BY <1>0, <2>1, <2>2, <2>3 DEF DrainInv, Moves
<1>8. ASSUME NEW s \in Strands, CloseCas(s)
      PROVE  DrainInv'
  <2>1. SameQueues /\ hand' = hand /\ ended' = ended /\ pc[s] = "idle"
    BY <1>8, CloseCasEffect
  <2>2. CASE closed' = closed /\ due' = due /\ pc' = pc
    BY <1>0, <2>1, <2>2 DEF DrainInv, SameQueues
  <2>3. CASE ~closed /\ closed' /\ Moves(s, "c_sentinel") /\ due' = ValuesIn(queue)
    <3>1. /\ \A i \in 1..Len(queue) : queue[i] # Closed
          /\ \A r \in Strands : pc[r] # "r_rebroadcast"
      BY <1>0, <2>3 DEF OneSentinel, Holders
    <3>2. ~ended
      BY <1>0, <2>3 DEF DrainInv
    <3>3. \A m \in due' : \E i \in 1..Len(queue) : queue[i] = m
      <4>1. queue \in Seq(Values \cup {Closed})
        BY DEF IInv, TypeOK
      <4> QED
        BY <2>3, <4>1, MessagesOf DEF ValuesIn
    <3>4. \A r \in Strands : pc[r] = "s_enqueue" => hand[r] \notin due'
      BY <1>0, <3>3 DEF OnceInv
    <3> QED
      BY <2>1, <2>3, <3>1, <3>2, <3>4 DEF DrainInv, SameQueues, Moves
  <2> QED
    BY <1>8, <2>2, <2>3, CloseCasEffect
<1>9. ASSUME NEW s \in Strands, CloseSentinel(s)
      PROVE  DrainInv'
  BY <1>0, <1>9, CloseSentinelEffect DEF DrainInv, Enqueued, SameEnd, Moves
<1>10. ASSUME UNCHANGED vars
      PROVE  DrainInv'
  BY <1>0, <1>10 DEF vars, history, DrainInv
<1> QED
  BY <1>1, <1>2, <1>3, <1>4, <1>5, <1>6, <1>7, <1>8, <1>9, <1>10 DEF Next, Step

-----------------------------------------------------------------------------
LEMMA InvariantStep == IInv /\ [Next]_vars => IInv'
  BY TypeStep, HandStep, SentinelStep, OnceStep, DrainStep DEF IInv

(* Every reachable state of a channel satisfies the inductive invariant.   *)
THEOREM Invariance == Spec => []IInv
  BY InitInv, InvariantStep, PTL DEF Spec

(* The variables of channel.rs keep their types, in particular both        *)
(* message counters stay natural numbers.                                  *)
THEOREM TypeCorrect == Spec => []TypeOK
<1>1. IInv => TypeOK
  BY DEF IInv
<1> QED
  BY <1>1, Invariance, PTL

(* However closes and receives interleave, a closed channel has exactly    *)
(* one sentinel, and an open one none.                                     *)
THEOREM SentinelUnique == Spec => []OneSentinel
<1>1. IInv => OneSentinel
  BY DEF IInv
<1> QED
  BY <1>1, Invariance, PTL

(* No receive answers ( default false ) before every value that was        *)
(* buffered at the close has been taken.                                   *)
THEOREM DrainsBeforeEnd == Spec => []DrainBeforeEnd
<1>1. ASSUME IInv PROVE DrainBeforeEnd
  <2>1. ASSUME ended \/ \E s \in Strands : pc[s] = "r_rebroadcast",
               NEW m \in Range(queue)
        PROVE  m \notin due
    <3>1. queue \in Seq(Values \cup {Closed})
      BY <1>1 DEF IInv, TypeOK
    <3>2. PICK i \in 1..Len(queue) : queue[i] = m
      BY <3>1, MessagesOf
    <3>3. queue[i] \notin due
      BY <1>1, <2>1, <3>2, Zenon DEF IInv, DrainInv
    <3> QED
      BY <3>2, <3>3
  <2> QED
    BY <2>1, Zenon DEF DrainBeforeEnd
<1>2. IInv => DrainBeforeEnd
  BY <1>1
<1> QED
  BY <1>2, Invariance, PTL

(* A value that send accepted is in exactly one place: the sender's hand,  *)
(* one position of the queue, or one receive.                              *)
THEOREM DeliveredOnce == Spec => []ExactlyOnce
<1>1. ASSUME IInv PROVE ExactlyOnce
  <2>1. /\ \A m : m \in Range(queue) <=> \E i \in 1..Len(queue) : queue[i] = m
        /\ \A m : m \in Range(taken) <=> \E i \in 1..Len(taken) : taken[i] = m
    <3>1. queue \in Seq(Values \cup {Closed}) /\ taken \in Seq(Values)
      BY <1>1 DEF IInv, TypeOK
    <3> QED
      BY <3>1, MessagesOf
  <2>2. OnceInv
    BY <1>1 DEF IInv
  <2>3. Range(queue) \cap Range(taken) = {}
    BY <2>1, <2>2 DEF OnceInv
  <2>4. \A s \in Strands : pc[s] = "s_enqueue" =>
           /\ hand[s] \notin Range(queue) \cup Range(taken)
           /\ \A r \in Strands : hand[r] = hand[s] => r = s
    BY <2>1, <2>2, ZenonT(60) DEF OnceInv
  <2>5. \A s \in Strands : pc[s] = "r_count" => hand[s] \in Range(taken)
    BY <2>1, <2>2, Zenon DEF OnceInv
  <2> QED
    BY <2>2, <2>3, <2>4, <2>5 DEF OnceInv, ExactlyOnce
<1>2. IInv => ExactlyOnce
  BY <1>1
<1> QED
  BY <1>2, Invariance, PTL
-----------------------------------------------------------------------------
(* What taking the sentinel out of a queue returns, and what a send and a  *)
(* recv do to it.                                                          *)
Single(q) == \A i, j \in 1..Len(q) : q[i] = Closed /\ q[j] = Closed => i = j

LEMMA BufferOpen ==
    ASSUME NEW q \in Seq(Values \cup {Closed}), \A i \in 1..Len(q) : q[i] # Closed
    PROVE  WithoutSentinel(q) = q /\ q \in Seq(Values)
<1>1. Closed \notin Range(q)
  BY MessagesOf
<1>2. q \in [1..Len(q) -> Values] /\ Len(q) \in Nat
  BY LenProperties
<1>3. q \in Seq(Values)
  BY <1>2, SeqDef
<1> QED
  BY <1>1, <1>3 DEF WithoutSentinel

LEMMA BufferClosed ==
    ASSUME NEW q \in Seq(Values \cup {Closed}), Single(q),
           NEW k \in 1..Len(q), q[k] = Closed
    PROVE  /\ WithoutSentinel(q) \in Seq(Values)
           /\ Len(WithoutSentinel(q)) = Len(q) - 1
           /\ \A i \in 1..(Len(q) - 1) :
                 WithoutSentinel(q)[i] = IF i < k THEN q[i] ELSE q[i + 1]
<1> DEFINE w == [i \in 1..(Len(q) - 1) |-> IF i < k THEN q[i] ELSE q[i + 1]]
<1>1. Closed \in Range(q)
  BY MessagesOf
<1>2. Len(q) \in Nat /\ q \in [1..Len(q) -> Values \cup {Closed}]
  BY LenProperties
<1>3. SentinelAt(q) = k
  <2>1. \A i \in 1..Len(q) : q[i] = Closed <=> i = k
    BY DEF Single
  <2> QED
    BY <2>1 DEF SentinelAt
<1>4. WithoutSentinel(q) = w
  BY <1>1, <1>3 DEF WithoutSentinel
<1>5. \A i \in 1..(Len(q) - 1) : w[i] \in Values
  BY <1>2 DEF Single
<1>6. Len(q) - 1 \in Nat /\ w \in [1..(Len(q) - 1) -> Values]
  BY <1>2, <1>5
<1> HIDE DEF w
<1>7. w \in Seq(Values)
  BY <1>6, SeqDef
<1>8. Len(w) = Len(q) - 1
  BY <1>6, <1>7, LenProperties
<1>9. \A i \in 1..(Len(q) - 1) : w[i] = IF i < k THEN q[i] ELSE q[i + 1]
  BY DEF w
<1> QED
  BY <1>4, <1>7, <1>8, <1>9

LEMMA BufferType ==
    ASSUME NEW q \in Seq(Values \cup {Closed}), Single(q)
    PROVE  WithoutSentinel(q) \in Seq(Values)
  BY BufferOpen, BufferClosed

LEMMA BufferAppendValue ==
    ASSUME NEW q \in Seq(Values \cup {Closed}), Single(q), NEW v \in Values
    PROVE  WithoutSentinel(Append(q, v)) = Append(WithoutSentinel(q), v)
<1> DEFINE a == Append(q, v)
<1> USE ChannelConstants
<1>1. /\ a \in Seq(Values \cup {Closed}) /\ Len(a) = Len(q) + 1
      /\ \A i \in 1..Len(q) : a[i] = q[i]
      /\ a[Len(q) + 1] = v
      /\ Len(q) \in Nat
  BY AppendProperties, LenProperties
<1>2. Single(a)
  BY <1>1 DEF Single
<1>3. CASE \A i \in 1..Len(q) : q[i] # Closed
  <2>1. \A i \in 1..Len(a) : a[i] # Closed
    BY <1>1, <1>3
  <2> QED
    BY <1>1, <1>3, <2>1, BufferOpen
<1>4. CASE \E k \in 1..Len(q) : q[k] = Closed
  <2>1. PICK k \in 1..Len(q) : q[k] = Closed
    BY <1>4
  <2>2. k \in 1..Len(a) /\ a[k] = Closed
    BY <1>1, <2>1
  <2> DEFINE w == WithoutSentinel(q)
             x == WithoutSentinel(a)
  <2>3. /\ w \in Seq(Values) /\ Len(w) = Len(q) - 1
        /\ \A i \in 1..(Len(q) - 1) : w[i] = IF i < k THEN q[i] ELSE q[i + 1]
    BY <2>1, BufferClosed
  <2>4. /\ x \in Seq(Values) /\ Len(x) = Len(a) - 1
        /\ \A i \in 1..(Len(a) - 1) : x[i] = IF i < k THEN a[i] ELSE a[i + 1]
    BY <1>1, <1>2, <2>2, BufferClosed
  <2> HIDE DEF a, w, x
  <2>5. /\ Append(w, v) \in Seq(Values) /\ Len(Append(w, v)) = Len(q)
        /\ \A i \in 1..(Len(q) - 1) : Append(w, v)[i] = w[i]
        /\ Append(w, v)[Len(q)] = v
    BY <1>1, <2>3, AppendProperties
  <2>6. Len(x) = Len(Append(w, v)) /\ Len(x) = Len(q)
    BY <1>1, <2>4, <2>5
  <2>7. ASSUME NEW i \in 1..Len(x) PROVE x[i] = Append(w, v)[i]
    <3>1. i \in 1..(Len(a) - 1) /\ (i \in 1..(Len(q) - 1) \/ i = Len(q))
      BY <1>1, <2>6
    <3>2. x[i] = IF i < k THEN a[i] ELSE a[i + 1]
      BY <2>4, <3>1
    <3>3. CASE i \in 1..(Len(q) - 1)
      <4>1. Append(w, v)[i] = IF i < k THEN q[i] ELSE q[i + 1]
        BY <2>3, <2>5, <3>3
      <4>2. a[i] = q[i] /\ a[i + 1] = q[i + 1]
        BY <1>1, <3>3
      <4> QED
        BY <3>2, <4>1, <4>2
    <3>4. CASE i = Len(q)
      BY <1>1, <2>5, <3>2, <3>4
    <3> QED
      BY <3>1, <3>3, <3>4
  <2>8. x = Append(w, v)
    BY <2>4, <2>5, <2>6, <2>7, SeqEqual, Zenon
  <2> QED
    BY <2>8 DEF a, w, x
<1> QED
  BY <1>3, <1>4

LEMMA BufferAppendSentinel ==
    ASSUME NEW q \in Seq(Values \cup {Closed}), \A i \in 1..Len(q) : q[i] # Closed
    PROVE  WithoutSentinel(Append(q, Closed)) = WithoutSentinel(q)
<1> DEFINE a == Append(q, Closed)
           x == WithoutSentinel(a)
<1>1. /\ a \in Seq(Values \cup {Closed}) /\ Len(a) = Len(q) + 1
      /\ \A i \in 1..Len(q) : a[i] = q[i]
      /\ a[Len(q) + 1] = Closed
      /\ Len(q) \in Nat
  BY AppendProperties, LenProperties
<1>2. Single(a) /\ Len(q) + 1 \in 1..Len(a)
  BY <1>1 DEF Single
<1>3. q \in Seq(Values) /\ WithoutSentinel(q) = q
  BY BufferOpen
<1>4. /\ x \in Seq(Values) /\ Len(x) = Len(a) - 1
      /\ \A i \in 1..(Len(a) - 1) : x[i] = IF i < Len(q) + 1 THEN a[i] ELSE a[i + 1]
  BY <1>1, <1>2, BufferClosed
<1> HIDE DEF a, x
<1>5. \A i \in 1..Len(x) : x[i] = q[i]
  BY <1>1, <1>4
<1>6. x = q
  BY <1>1, <1>3, <1>4, <1>5, SeqEqual
<1> QED
  BY <1>3, <1>6 DEF x, a

LEMMA TailFacts ==
    ASSUME NEW q \in Seq(Values \cup {Closed}), q # <<>>
    PROVE  /\ Tail(q) \in Seq(Values \cup {Closed})
           /\ Len(q) \in Nat /\ Len(q) >= 1 /\ Len(Tail(q)) = Len(q) - 1
           /\ \A i \in 1..(Len(q) - 1) : Tail(q)[i] = q[i + 1]
<1>1. Len(q) \in Nat /\ Len(q) >= 1
  BY EmptySeq
<1> QED
  BY <1>1, HeadTailProperties

LEMMA BufferTakeSentinel ==
    ASSUME NEW q \in Seq(Values \cup {Closed}), Single(q), q # <<>>, q[1] = Closed
    PROVE  WithoutSentinel(Tail(q)) = WithoutSentinel(q)
<1> DEFINE t == Tail(q)
           w == WithoutSentinel(q)
<1>1. /\ t \in Seq(Values \cup {Closed}) /\ Len(q) \in Nat /\ Len(q) >= 1
      /\ Len(t) = Len(q) - 1 /\ \A i \in 1..(Len(q) - 1) : t[i] = q[i + 1]
  BY TailFacts
<1>2. /\ w \in Seq(Values) /\ Len(w) = Len(q) - 1
      /\ \A i \in 1..(Len(q) - 1) : w[i] = IF i < 1 THEN q[i] ELSE q[i + 1]
  <2>1. 1 \in 1..Len(q)
    BY <1>1
  <2> QED
    BY <2>1, BufferClosed, Zenon
<1> HIDE DEF t, w
<1>3. \A i \in 1..Len(t) : t[i] # Closed
  BY <1>1 DEF Single
<1>4. WithoutSentinel(t) = t /\ t \in Seq(Values)
  BY <1>1, <1>3, BufferOpen
<1>5. \A i \in 1..Len(t) : t[i] = w[i]
  BY <1>1, <1>2
<1>6. t = w
  BY <1>1, <1>2, <1>4, <1>5, SeqEqual
<1> QED
  BY <1>4, <1>6 DEF t, w

LEMMA BufferTakeValue ==
    ASSUME NEW q \in Seq(Values \cup {Closed}), Single(q), q # <<>>, q[1] # Closed
    PROVE  /\ WithoutSentinel(q) # <<>>
           /\ WithoutSentinel(Tail(q)) = Tail(WithoutSentinel(q))
<1> DEFINE t == Tail(q)
           w == WithoutSentinel(q)
           x == WithoutSentinel(t)
<1>1. /\ t \in Seq(Values \cup {Closed}) /\ Len(q) \in Nat /\ Len(q) >= 1
      /\ Len(t) = Len(q) - 1 /\ \A i \in 1..(Len(q) - 1) : t[i] = q[i + 1]
  BY TailFacts
<1>2. CASE \A i \in 1..Len(q) : q[i] # Closed
  <2>1. \A i \in 1..Len(t) : t[i] # Closed
    BY <1>1, <1>2
  <2>2. w = q /\ x = t
    BY <1>1, <1>2, <2>1, BufferOpen
  <2> QED
    BY <2>2
<1>3. CASE \E k \in 1..Len(q) : q[k] = Closed
  <2>1. PICK k \in 1..Len(q) : q[k] = Closed
    BY <1>3
  <2>2. /\ w \in Seq(Values) /\ Len(w) = Len(q) - 1
        /\ \A i \in 1..(Len(q) - 1) : w[i] = IF i < k THEN q[i] ELSE q[i + 1]
    BY <2>1, BufferClosed
  <2>3. k > 1 /\ k - 1 \in 1..Len(t) /\ t[k - 1] = Closed
    BY <1>1, <2>1
  <2>4. Single(t)
    BY <1>1 DEF Single
  <2>5. /\ x \in Seq(Values) /\ Len(x) = Len(t) - 1
        /\ \A i \in 1..(Len(t) - 1) : x[i] = IF i < k - 1 THEN t[i] ELSE t[i + 1]
    BY <1>1, <2>3, <2>4, BufferClosed
  <2> HIDE DEF t, w, x
  <2>6. w # <<>>
    BY <1>1, <2>1, <2>2, <2>3, EmptySeq
  <2>7. /\ Tail(w) \in Seq(Values) /\ Len(Tail(w)) = Len(w) - 1
        /\ \A i \in 1..(Len(w) - 1) : Tail(w)[i] = w[i + 1]
    BY <2>2, <2>6, HeadTailProperties
  <2>8. Len(x) = Len(Tail(w)) /\ Len(x) = Len(q) - 2
    BY <1>1, <2>2, <2>5, <2>7
  <2>9. ASSUME NEW i \in 1..Len(x) PROVE x[i] = Tail(w)[i]
    <3>1. /\ i \in 1..(Len(t) - 1) /\ i \in 1..(Len(w) - 1)
          /\ i \in 1..(Len(q) - 1) /\ i + 1 \in 1..(Len(q) - 1)
      BY <1>1, <2>2, <2>8
    <3>2. x[i] = IF i < k - 1 THEN t[i] ELSE t[i + 1]
      BY <2>5, <3>1
    <3>3. t[i] = q[i + 1] /\ t[i + 1] = q[i + 2]
      BY <1>1, <3>1
    <3>4. Tail(w)[i] = IF i + 1 < k THEN q[i + 1] ELSE q[i + 2]
      <4>1. Tail(w)[i] = w[i + 1]
        BY <2>7, <3>1
      <4>2. w[i + 1] = IF i + 1 < k THEN q[i + 1] ELSE q[(i + 1) + 1]
        BY <2>2, <3>1
      <4>3. (i + 1) + 1 = i + 2
        BY <3>1
      <4> QED
        BY <4>1, <4>2, <4>3
    <3>5. i < k - 1 <=> i + 1 < k
      BY <1>1, <3>1
    <3> QED
      BY <3>2, <3>3, <3>4, <3>5
  <2>10. x = Tail(w)
    BY <2>5, <2>7, <2>8, <2>9, SeqEqual, Zenon
  <2> QED
    BY <2>6, <2>10 DEF t, w, x
<1> QED
  BY <1>2, <1>3

-----------------------------------------------------------------------------
(* The values that are due are the front of the queue: close takes all of  *)
(* it, later sends go behind it, and receives shorten it.                  *)
FrontIs(q, d, n) == \A i \in 1..Len(q) : q[i] \in d <=> i <= n
DuePrefix == \E n \in 0..Len(queue) : FrontIs(queue, due, n)

LEMMA DueInIs ==
    ASSUME NEW q, NEW d, Len(q) \in Nat, NEW n \in 0..Len(q), FrontIs(q, d, n)
    PROVE  DueIn(q, d) = n
<1>1. ASSUME NEW m \in 0..Len(q), FrontIs(q, d, m)
      PROVE  m = n
  <2>1. ~(m < n)
    BY <1>1 DEF FrontIs
  <2>2. ~(n < m)
    BY <1>1 DEF FrontIs
  <2> QED
    BY <2>1, <2>2
<1> DEFINE Fits(m) == \A i \in 1..Len(q) : q[i] \in d <=> i <= m
<1>2. \A m \in 0..Len(q) : Fits(m) <=> m = n
  BY <1>1 DEF FrontIs
<1> HIDE DEF Fits
<1>3. (CHOOSE m \in 0..Len(q) : Fits(m)) = n
  BY <1>2
<1> QED
  BY <1>3 DEF Fits, DueIn

LEMMA OneInQueue ==
    ASSUME IInv
    PROVE  queue \in Seq(Values \cup {Closed}) /\ Single(queue)
  BY DEF IInv, TypeOK, OneSentinel, Single

(* What each step does to the abstract state.                              *)
SameBuffer == WithoutSentinel(queue') = WithoutSentinel(queue)
SameOwed   == DueIn(queue', due') = DueIn(queue, due)

LEMMA PrefixStep ==
    ASSUME IInv, DuePrefix, [Next]_vars
    PROVE  DuePrefix'
<1> USE ChannelConstants, Shapes DEF FrontIs
<1>0. PICK n \in 0..Len(queue) : FrontIs(queue, due, n)
  BY DEF DuePrefix
<1>1. ASSUME SameQueues, due' = due
      PROVE  DuePrefix'
  BY <1>1 DEF DuePrefix, SameQueues
<1>2. ASSUME NEW s \in Strands, SendEnqueue(s)
      PROVE  DuePrefix'
  <2>1. Enqueued(hand[s]) /\ due' = due /\ hand[s] \notin due
    BY <1>2, SendEnqueueEffect DEF IInv, DrainInv, SameEnd
  <2>2. n \in 0..Len(queue') /\ FrontIs(queue', due', n)
    BY <1>0, <2>1 DEF Enqueued
  <2> QED
    BY <2>2 DEF DuePrefix
<1>3. ASSUME NEW s \in Strands, ReceiveTake(s)
      PROVE  DuePrefix'
  <2>1. Dequeued /\ due' = due
    BY <1>3, ReceiveTakeEffect DEF SameEnd
  <2>2. CASE n = 0
    <3>1. 0 \in 0..Len(queue') /\ FrontIs(queue', due', 0)
      BY <1>0, <2>1, <2>2 DEF Dequeued
    <3> QED
      BY <3>1 DEF DuePrefix
  <2>3. CASE n > 0
    <3>1. n - 1 \in 0..Len(queue') /\ FrontIs(queue', due', n - 1)
      BY <1>0, <2>1, <2>3 DEF Dequeued
    <3> QED
      BY <3>1 DEF DuePrefix
  <2> QED
    BY <2>2, <2>3
<1>4. ASSUME NEW s \in Strands, ReceiveRebroadcast(s) \/ CloseSentinel(s)
      PROVE  DuePrefix'
  <2>1. Enqueued(Closed) /\ due' = due
    BY <1>4, ReceiveRebroadcastEffect, CloseSentinelEffect DEF SameEnd
  <2>2. n \in 0..Len(queue') /\ FrontIs(queue', due', n)
    BY <1>0, <2>1 DEF Enqueued
  <2> QED
    BY <2>2 DEF DuePrefix
<1>5. ASSUME NEW s \in Strands, CloseCas(s)
      PROVE  DuePrefix'
  <2>1. SameQueues
    BY <1>5, CloseCasEffect
  <2>2. CASE due' = due
    BY <1>1, <2>1, <2>2
  <2>3. CASE ~closed /\ due' = ValuesIn(queue)
    <3>1. \A i \in 1..Len(queue) : queue[i] # Closed
      BY <2>3 DEF IInv, OneSentinel
    <3>2. \A i \in 1..Len(queue) : queue[i] \in ValuesIn(queue)
      BY <3>1, OneInQueue, MessagesOf DEF ValuesIn
    <3>3. Len(queue) \in 0..Len(queue') /\ FrontIs(queue', due', Len(queue))
      BY <2>1, <2>3, <3>2 DEF SameQueues
    <3> QED
      BY <3>3 DEF DuePrefix
  <2> QED
    BY <1>5, <2>2, <2>3, CloseCasEffect
<1>6. ASSUME NEW s \in Strands,
             \/ \E v \in Values : SendCheck(s, v)
             \/ SendCount(s) \/ ReceiveCall(s) \/ ReceiveCount(s)
      PROVE  DuePrefix'
  <2>1. SameQueues /\ due' = due
    BY <1>6, SendCheckEffect, SendCountEffect, ReceiveCallEffect, ReceiveCountEffect
    DEF SameEnd
  <2> QED
    BY <1>1, <2>1
<1>7. ASSUME UNCHANGED vars
      PROVE  DuePrefix'
  BY <1>1, <1>7 DEF vars, history, SameQueues
<1> QED
  BY <1>2, <1>3, <1>4, <1>5, <1>6, <1>7 DEF Next, Step

LEMMA Prefixes == Spec => []DuePrefix
<1>1. Init => DuePrefix
  <2> SUFFICES ASSUME Init PROVE DuePrefix
    OBVIOUS
  <2>1. Len(queue) = 0
    BY EmptySeq DEF Init
  <2>2. 0 \in 0..Len(queue) /\ FrontIs(queue, due, 0)
    BY <2>1 DEF FrontIs
  <2> QED
    BY <2>2 DEF DuePrefix
<1>2. IInv /\ DuePrefix /\ [Next]_vars => DuePrefix'
  BY PrefixStep
<1> QED
  BY <1>1, <1>2, Invariance, PTL DEF Spec

(* Each step of channel.rs is a step of the promise or leaves its state    *)
(* alone.                                                                  *)
LEMMA PromiseStep ==
    ASSUME IInv, DuePrefix, [Next]_vars
    PROVE  [P!PromiseNext]_(P!promiseVars)
<1> USE ChannelConstants, Shapes
<1>0. PICK n \in 0..Len(queue) : FrontIs(queue, due, n)
  BY DEF DuePrefix
<1>1. /\ queue \in Seq(Values \cup {Closed}) /\ Single(queue)
      /\ Len(queue) \in Nat /\ DueIn(queue, due) = n
  BY <1>0, OneInQueue, DueInIs
<1>2. ASSUME SameBuffer, SameOwed, closed' = closed, ended' = ended
      PROVE  [P!PromiseNext]_(P!promiseVars)
  BY <1>2 DEF SameBuffer, SameOwed, P!promiseVars
<1>3. ASSUME NEW s \in Strands, SendEnqueue(s)
      PROVE  [P!PromiseNext]_(P!promiseVars)
  <2>1. /\ Enqueued(hand[s]) /\ due' = due /\ closed' = closed /\ ended' = ended
        /\ hand[s] \notin due /\ hand[s] \in Values
    BY <1>3, SendEnqueueEffect DEF IInv, DrainInv, SameEnd
  <2>2. WithoutSentinel(queue') = Append(WithoutSentinel(queue), hand[s])
    BY <1>1, <1>3, <2>1, BufferAppendValue DEF SendEnqueue
  <2>3. n \in 0..Len(queue') /\ FrontIs(queue', due', n) /\ Len(queue') \in Nat
    BY <1>0, <2>1 DEF Enqueued, FrontIs
  <2>4. DueIn(queue', due') = n
    BY <2>3, DueInIs
  <2>5. P!Accept(hand[s])
    BY <1>1, <2>1, <2>2, <2>4 DEF P!Accept
  <2> QED
    BY <2>1, <2>5 DEF P!PromiseNext
<1>4. ASSUME NEW s \in Strands, ReceiveTake(s)
      PROVE  [P!PromiseNext]_(P!promiseVars)
  <2>1. /\ Dequeued /\ due' = due /\ closed' = closed /\ ended' = ended
        /\ queue' = Tail(queue) /\ queue # <<>>
    BY <1>4, ReceiveTakeEffect DEF SameEnd, ReceiveTake
  <2>2. DueIn(queue', due') = IF n > 0 THEN n - 1 ELSE 0
    <3>1. CASE n = 0
      <4>1. 0 \in 0..Len(queue') /\ FrontIs(queue', due', 0) /\ Len(queue') \in Nat
        BY <1>0, <2>1, <3>1 DEF Dequeued, FrontIs
      <4> QED
        BY <3>1, <4>1, DueInIs
    <3>2. CASE n > 0
      <4>1. /\ n - 1 \in 0..Len(queue') /\ FrontIs(queue', due', n - 1)
            /\ Len(queue') \in Nat
        BY <1>0, <2>1, <3>2 DEF Dequeued, FrontIs
      <4> QED
        BY <3>2, <4>1, DueInIs
    <3> QED
      BY <3>1, <3>2
  <2>3. CASE queue[1] = Closed
    <3>1. SameBuffer
      BY <1>1, <2>1, <2>3, BufferTakeSentinel DEF SameBuffer
    <3>2. ~(1 <= n)
      BY <1>0, <2>1, <2>3 DEF FrontIs, Dequeued
    <3>3. SameOwed
      BY <1>1, <2>2, <3>2 DEF SameOwed
    <3> QED
      BY <1>2, <2>1, <3>1, <3>3
  <2>4. CASE queue[1] # Closed
    <3>1. /\ WithoutSentinel(queue) # <<>>
          /\ WithoutSentinel(queue') = Tail(WithoutSentinel(queue))
      BY <1>1, <2>1, <2>4, BufferTakeValue
    <3>2. P!HandOut
      BY <1>1, <2>1, <2>2, <3>1 DEF P!HandOut
    <3> QED
      BY <3>2 DEF P!PromiseNext
  <2> QED
    BY <2>3, <2>4
<1>5. ASSUME NEW s \in Strands, ReceiveRebroadcast(s) \/ CloseSentinel(s)
      PROVE  SameBuffer /\ SameOwed
  <2>1. /\ Enqueued(Closed) /\ due' = due /\ queue' = Append(queue, Closed)
        /\ pc[s] \in {"r_rebroadcast", "c_sentinel"}
    BY <1>5, ReceiveRebroadcastEffect, CloseSentinelEffect
    DEF SameEnd, ReceiveRebroadcast, CloseSentinel
  <2>2. \A i \in 1..Len(queue) : queue[i] # Closed
    BY <2>1 DEF IInv, OneSentinel, Holders
  <2>3. WithoutSentinel(queue') = WithoutSentinel(queue)
    BY <1>1, <2>1, <2>2, BufferAppendSentinel
  <2>4. n \in 0..Len(queue') /\ FrontIs(queue', due', n) /\ Len(queue') \in Nat
    BY <1>0, <2>1 DEF Enqueued, FrontIs
  <2>5. DueIn(queue', due') = n
    BY <2>4, DueInIs
  <2> QED
    BY <1>1, <2>3, <2>5 DEF SameBuffer, SameOwed
<1>6. ASSUME NEW s \in Strands, ReceiveRebroadcast(s)
      PROVE  [P!PromiseNext]_(P!promiseVars)
  <2>1. closed' = closed /\ ended' = TRUE /\ pc[s] = "r_rebroadcast"
    BY <1>6 DEF ReceiveRebroadcast
  <2>2. closed
    BY <2>1 DEF IInv, OneSentinel, Holders
  <2>3. \A i \in 1..Len(queue) : queue[i] \notin due
    BY <2>1 DEF IInv, DrainInv
  <2>4. n = 0
    BY <1>0, <2>3 DEF FrontIs
  <2>5. P!EndOfStream
    BY <1>1, <1>5, <1>6, <2>1, <2>2, <2>4 DEF P!EndOfStream, SameBuffer, SameOwed
  <2> QED
    BY <2>5 DEF P!PromiseNext
<1>7. ASSUME NEW s \in Strands, CloseSentinel(s)
      PROVE  [P!PromiseNext]_(P!promiseVars)
  BY <1>2, <1>5, <1>7, CloseSentinelEffect DEF SameEnd
<1>8. ASSUME NEW s \in Strands, CloseCas(s)
      PROVE  [P!PromiseNext]_(P!promiseVars)
  <2>1. queue' = queue /\ ended' = ended
    BY <1>8, CloseCasEffect DEF SameQueues
  <2>2. CASE closed' = closed /\ due' = due
    BY <1>2, <2>1, <2>2 DEF SameBuffer, SameOwed
  <2>3. CASE ~closed
    <3>1. closed' = TRUE /\ due' = ValuesIn(queue)
      BY <1>8, <2>3, Zenon DEF CloseCas
    <3>2. \A i \in 1..Len(queue) : queue[i] # Closed
      BY <2>3 DEF IInv, OneSentinel
    <3>3. WithoutSentinel(queue) = queue
      BY <1>1, <3>2, BufferOpen
    <3>4. \A i \in 1..Len(queue) : queue[i] \in ValuesIn(queue)
      BY <3>2, OneInQueue, MessagesOf DEF ValuesIn
    <3>5. Len(queue) \in 0..Len(queue') /\ FrontIs(queue', due', Len(queue'))
      BY <2>1, <3>1, <3>4 DEF FrontIs
    <3>6. DueIn(queue', due') = Len(queue)
      BY <2>1, <3>5, DueInIs
    <3>7. P!Close
      BY <2>1, <2>3, <3>1, <3>3, <3>6 DEF P!Close
    <3> QED
      BY <3>7 DEF P!PromiseNext
  <2> QED
    BY <1>8, <2>2, <2>3, CloseCasEffect
<1>9. ASSUME NEW s \in Strands,
             \/ \E v \in Values : SendCheck(s, v)
             \/ SendCount(s) \/ ReceiveCall(s) \/ ReceiveCount(s)
      PROVE  [P!PromiseNext]_(P!promiseVars)
  <2>1. SameQueues /\ SameEnd
    BY <1>9, SendCheckEffect, SendCountEffect, ReceiveCallEffect, ReceiveCountEffect
  <2> QED
    BY <1>2, <2>1 DEF SameBuffer, SameOwed, SameQueues, SameEnd
<1>10. ASSUME UNCHANGED vars
      PROVE  [P!PromiseNext]_(P!promiseVars)
  BY <1>2, <1>10 DEF vars, history, SameBuffer, SameOwed
<1> QED
  BY <1>3, <1>4, <1>6, <1>7, <1>8, <1>9, <1>10 DEF Next, Step

(* channel.rs, with its gate, its counters and its circulating sentinel,   *)
(* implements the abstract channel: a FIFO whose end-of-stream answer      *)
(* waits for everything that was buffered at the close.                    *)
THEOREM ImplementsPromise == Spec => KeepsPromise
<1>1. Init => P!PromiseInit
  <2> SUFFICES ASSUME Init PROVE P!PromiseInit
    OBVIOUS
  <2>1. queue = <<>> /\ Len(queue) = 0 /\ queue \in Seq(Values \cup {Closed})
    BY EmptySeq DEF Init
  <2>2. WithoutSentinel(queue) = queue
    <3>1. \A i \in 1..Len(queue) : queue[i] # Closed
      BY <2>1
    <3> QED
      BY <2>1, <3>1, BufferOpen, Zenon
  <2>3. FrontIs(queue, due, 0)
    BY <2>1 DEF FrontIs
  <2>4. DueIn(queue, due) = 0
    BY <2>1, <2>3, DueInIs
  <2> QED
    BY <2>1, <2>2, <2>4 DEF Init, P!PromiseInit
<1>2. IInv /\ DuePrefix /\ [Next]_vars => [P!PromiseNext]_(P!promiseVars)
  BY PromiseStep
<1> QED
  BY <1>1, <1>2, Invariance, Prefixes, PTL DEF Spec, KeepsPromise, P!Promise

-----------------------------------------------------------------------------
(* CountersBalance speaks of the moments when nobody is between the queue  *)
(* and a counter.  Inductively, the senders and receivers in between are   *)
(* counted too.                                                            *)
SendGap == {s \in Strands : pc[s] = "s_count"}
TakeGap == {s \in Strands : pc[s] = "r_count"}
Balance == TOTAL_MESSAGES_SENT + Cardinality(SendGap)
               = TOTAL_MESSAGES_RECEIVED + Cardinality(TakeGap)
                 + Len(WithoutSentinel(queue))

LEMMA GapsFinite ==
    /\ IsFiniteSet(SendGap) /\ Cardinality(SendGap) \in Nat
    /\ IsFiniteSet(TakeGap) /\ Cardinality(TakeGap) \in Nat
<1>1. SendGap \in SUBSET Strands /\ TakeGap \in SUBSET Strands
  BY DEF SendGap, TakeGap
<1> QED
  BY <1>1, FiniteStrands, FS_Subset, FS_CardinalityType

SameGaps   == SendGap' = SendGap /\ TakeGap' = TakeGap
SameTotals == /\ TOTAL_MESSAGES_SENT' = TOTAL_MESSAGES_SENT
              /\ TOTAL_MESSAGES_RECEIVED' = TOTAL_MESSAGES_RECEIVED

LEMMA BalanceStep ==
    ASSUME IInv, Balance, [Next]_vars
    PROVE  Balance'
<1> USE ChannelConstants, Shapes
<1> DEFINE w == WithoutSentinel(queue)
<1>0. /\ queue \in Seq(Values \cup {Closed}) /\ Single(queue)
      /\ w \in Seq(Values) /\ Len(w) \in Nat
  BY OneInQueue, BufferType, LenProperties
<1>1. /\ TOTAL_MESSAGES_SENT \in Nat /\ TOTAL_MESSAGES_RECEIVED \in Nat
      /\ Cardinality(SendGap) \in Nat /\ Cardinality(TakeGap) \in Nat
      /\ TOTAL_MESSAGES_SENT + Cardinality(SendGap)
             = TOTAL_MESSAGES_RECEIVED + Cardinality(TakeGap) + Len(w)
  BY GapsFinite DEF IInv, TypeOK, Balance
<1>2. Balance' <=> TOTAL_MESSAGES_SENT' + Cardinality(SendGap')
             = TOTAL_MESSAGES_RECEIVED' + Cardinality(TakeGap')
               + Len(WithoutSentinel(queue'))
  BY DEF Balance
<1> HIDE DEF w
<1>3. ASSUME SameGaps, SameTotals, SameBuffer
      PROVE  Balance'
  BY <1>1, <1>2, <1>3 DEF SameGaps, SameTotals, SameBuffer, w
<1>4. ASSUME NEW s \in Strands, SendEnqueue(s)
      PROVE  Balance'
  <2>1. /\ pc[s] = "s_enqueue" /\ Moves(s, "s_count") /\ hand[s] \in Values
        /\ queue' = Append(queue, hand[s]) /\ SameTotals
    BY <1>4, SendEnqueueEffect DEF SendEnqueue, totals, SameTotals
  <2>2. SendGap' = SendGap \cup {s} /\ s \notin SendGap /\ TakeGap' = TakeGap
    BY <2>1 DEF Moves, SendGap, TakeGap
  <2>3. /\ Cardinality(SendGap') = Cardinality(SendGap) + 1
        /\ Cardinality(TakeGap') = Cardinality(TakeGap)
    BY <2>2, GapsFinite, FS_AddElement
  <2>4. WithoutSentinel(queue') = Append(w, hand[s])
    BY <1>0, <2>1, BufferAppendValue DEF w
  <2>5. Len(WithoutSentinel(queue')) = Len(w) + 1
    BY <1>0, <2>1, <2>4, AppendProperties
  <2>6. /\ TOTAL_MESSAGES_SENT' = TOTAL_MESSAGES_SENT
        /\ TOTAL_MESSAGES_RECEIVED' = TOTAL_MESSAGES_RECEIVED
    BY <2>1 DEF SameTotals
  <2>7. TOTAL_MESSAGES_SENT' + Cardinality(SendGap')
             = TOTAL_MESSAGES_RECEIVED' + Cardinality(TakeGap')
               + Len(WithoutSentinel(queue'))
    <3> HIDE ChannelConstants, Shapes
    <3>1. Len(w) \in Nat
      BY <1>0
    <3> QED
      BY <1>1, <2>3, <2>5, <2>6, <3>1, SMTT(60)
  <2> QED
    BY <1>2, <2>7
<1>5. ASSUME NEW s \in Strands, SendCount(s)
      PROVE  Balance'
  <2>1. SendGap' = SendGap \ {s} /\ s \in SendGap /\ TakeGap' = TakeGap
    BY <1>5, SendCountEffect DEF Moves, SendGap, TakeGap
  <2>2. Cardinality(SendGap') = Cardinality(SendGap) - 1
    BY <2>1, GapsFinite, FS_RemoveElement
  <2>3. /\ TOTAL_MESSAGES_SENT' = TOTAL_MESSAGES_SENT + 1 /\ queue' = queue
        /\ TOTAL_MESSAGES_RECEIVED' = TOTAL_MESSAGES_RECEIVED
    BY <1>5 DEF SendCount
  <2> QED
    BY <1>1, <1>2, <2>1, <2>2, <2>3 DEF w
<1>6. ASSUME NEW s \in Strands, ReceiveTake(s)
      PROVE  Balance'
  <2>1. queue' = Tail(queue) /\ queue # <<>> /\ SameTotals /\ pc[s] = "r_take"
    BY <1>6 DEF ReceiveTake, totals, SameTotals
  <2>2. CASE queue[1] = Closed
    <3>1. SameBuffer
      BY <1>0, <2>1, <2>2, BufferTakeSentinel DEF SameBuffer
    <3>2. SameGaps
      BY <1>6, <2>1, <2>2, ReceiveTakeEffect DEF Moves, SameGaps, SendGap, TakeGap
    <3> QED
      BY <1>3, <2>1, <3>1, <3>2
  <2>3. CASE queue[1] # Closed
    <3>1. w # <<>> /\ WithoutSentinel(queue') = Tail(w)
      BY <1>0, <2>1, <2>3, BufferTakeValue DEF w
    <3>2. Len(WithoutSentinel(queue')) = Len(w) - 1
      BY <1>0, <3>1, HeadTailProperties
    <3>3. TakeGap' = TakeGap \cup {s} /\ s \notin TakeGap /\ SendGap' = SendGap
      BY <1>6, <2>1, <2>3, ReceiveTakeEffect DEF Moves, SendGap, TakeGap
    <3>4. Cardinality(TakeGap') = Cardinality(TakeGap) + 1
      BY <3>3, GapsFinite, FS_AddElement
    <3>5. /\ TOTAL_MESSAGES_SENT' = TOTAL_MESSAGES_SENT
          /\ TOTAL_MESSAGES_RECEIVED' = TOTAL_MESSAGES_RECEIVED
      BY <2>1 DEF SameTotals
    <3> QED
      BY <1>0, <1>1, <1>2, <3>2, <3>3, <3>4, <3>5
  <2> QED
    BY <2>2, <2>3
<1>7. ASSUME NEW s \in Strands, ReceiveCount(s)
      PROVE  Balance'
  <2>1. TakeGap' = TakeGap \ {s} /\ s \in TakeGap /\ SendGap' = SendGap
    BY <1>7, ReceiveCountEffect DEF Moves, SendGap, TakeGap
  <2>2. Cardinality(TakeGap') = Cardinality(TakeGap) - 1
    BY <2>1, GapsFinite, FS_RemoveElement
  <2>3. /\ TOTAL_MESSAGES_RECEIVED' = TOTAL_MESSAGES_RECEIVED + 1 /\ queue' = queue
        /\ TOTAL_MESSAGES_SENT' = TOTAL_MESSAGES_SENT
    BY <1>7 DEF ReceiveCount
  <2> QED
    BY <1>1, <1>2, <2>1, <2>2, <2>3 DEF w
<1>8. ASSUME NEW s \in Strands, ReceiveRebroadcast(s) \/ CloseSentinel(s)
      PROVE  Balance'
  <2>1. /\ queue' = Append(queue, Closed) /\ SameTotals /\ Moves(s, "idle")
        /\ pc[s] \in {"r_rebroadcast", "c_sentinel"}
    BY <1>8 DEF ReceiveRebroadcast, CloseSentinel, totals, SameTotals, Moves
  <2>2. \A i \in 1..Len(queue) : queue[i] # Closed
    BY <2>1 DEF IInv, OneSentinel, Holders
  <2>3. SameBuffer
    BY <1>0, <2>1, <2>2, BufferAppendSentinel DEF SameBuffer
  <2>4. SameGaps
    BY <2>1 DEF Moves, SameGaps, SendGap, TakeGap
  <2> QED
    BY <1>3, <2>1, <2>3, <2>4
<1>9. ASSUME NEW s \in Strands,
             (\E v \in Values : SendCheck(s, v)) \/ ReceiveCall(s) \/ CloseCas(s)
      PROVE  Balance'
  <2>1. SameTotals /\ SameBuffer
    BY <1>9 DEF SendCheck, ReceiveCall, CloseCas, totals, SameTotals, SameBuffer
  <2>2. /\ pc[s] = "idle"
        /\ \/ pc' = pc
           \/ \E l \in {"s_enqueue", "r_take", "c_sentinel"} : Moves(s, l)
    BY <1>9, SendCheckEffect, ReceiveCallEffect, CloseCasEffect
  <2>3. SameGaps
    BY <2>2 DEF Moves, SameGaps, SendGap, TakeGap
  <2> QED
    BY <1>3, <2>1, <2>3
<1>10. ASSUME UNCHANGED vars
      PROVE  Balance'
  BY <1>3, <1>10 DEF vars, totals, SameGaps, SameTotals, SameBuffer, SendGap, TakeGap
<1> QED
  BY <1>4, <1>5, <1>6, <1>7, <1>8, <1>9, <1>10 DEF Next, Step

(* Whoever is interrupted between the queue and a counter, the counters    *)
(* agree with the queue again as soon as nobody is.                        *)
THEOREM CountersAgree == Spec => []CountersBalance
<1>1. Init => Balance
  <2> SUFFICES ASSUME Init PROVE Balance
    OBVIOUS
  <2>1. queue = <<>> /\ Len(queue) = 0 /\ queue \in Seq(Values \cup {Closed})
    BY EmptySeq DEF Init
  <2>2. \A i \in 1..Len(queue) : queue[i] # Closed
    BY <2>1
  <2>3. WithoutSentinel(queue) = queue
    BY <2>1, <2>2, BufferOpen, Zenon
  <2>4. SendGap = {} /\ TakeGap = {}
    BY DEF Init, SendGap, TakeGap
  <2> QED
    BY <2>1, <2>3, <2>4, FS_EmptySet DEF Init, Balance
<1>2. IInv /\ Balance /\ [Next]_vars => Balance'
  BY BalanceStep
<1>3. ASSUME IInv, Balance PROVE CountersBalance
  <2> SUFFICES ASSUME \A s \in Strands : pc[s] \notin {"s_count", "r_count"}
               PROVE  TOTAL_MESSAGES_SENT = TOTAL_MESSAGES_RECEIVED
                                            + Len(WithoutSentinel(queue))
    BY Zenon DEF CountersBalance
  <2>1. SendGap = {} /\ TakeGap = {}
    BY DEF SendGap, TakeGap
  <2>2. Len(WithoutSentinel(queue)) \in Nat
    BY <1>3, OneInQueue, BufferType, LenProperties
  <2> QED
    BY <1>3, <2>1, <2>2, FS_EmptySet DEF Balance, IInv, TypeOK
<1>4. IInv /\ Balance => CountersBalance
  BY <1>3
<1> QED
  BY <1>1, <1>2, <1>4, Invariance, PTL DEF Spec

=============================================================================
