-------------------------------- MODULE Channel --------------------------------
(***************************************************************************)
(* One Seq channel (crates/runtime/src/channel.rs): an MPMC queue of May   *)
(* shared through an Arc, a closed flag, and a Closed sentinel that        *)
(* travels through the queue.  send reads the flag and then enqueues;      *)
(* close sets the flag with a compare-and-swap and then enqueues the       *)
(* sentinel; a receiver that takes the sentinel puts it back before it     *)
(* answers false.  Each of these is a step of its own, because the strand  *)
(* may be descheduled in between.                                          *)
(*                                                                         *)
(* The queue itself is external: May's mpmc channel, taken to be an        *)
(* unbounded FIFO whose send and recv are atomic.  Every holder of the Arc *)
(* holds both ends, so send and recv do not fail.                          *)
(***************************************************************************)
EXTENDS Naturals, Sequences, FiniteSets, Functions

CONSTANTS Strands,
          Values,  \* what is sent; each element is sent at most once
          Closed,  \* ChannelMsg::Closed
          None,
          MaxOps   \* bound: channel operations of one strand in a behaviour

ASSUME ChannelConstants ==
    /\ Closed \notin Values
    /\ None \notin Values \cup {Closed}
    /\ MaxOps \in Nat

ASSUME FiniteStrands == IsFiniteSet(Strands)

VARIABLES
    queue,      \* the mpmc channel
    closed,     \* ChannelData.closed
    pc,
    hand,       \* the value a strand is sending or has just received
    TOTAL_MESSAGES_SENT,
    TOTAL_MESSAGES_RECEIVED,
    ops,        \* how many operations a strand has begun, for the bound
    offered,    \* history: the values that have been passed to send
    due,        \* history: the values in the queue when closed was set
    taken,      \* history: the values taken out of the queue, in order
    ended       \* history: some receive has answered ( default false )

totals  == <<TOTAL_MESSAGES_SENT, TOTAL_MESSAGES_RECEIVED>>
history == <<ops, offered, due, taken, ended>>
vars    == <<queue, closed, pc, hand, totals, history>>

Labels == {"idle", "s_enqueue", "s_count", "r_take", "r_count", "r_rebroadcast",
           "c_sentinel"}

Init ==
    /\ queue = <<>>
    /\ closed = FALSE
    /\ pc = [s \in Strands |-> "idle"]
    /\ hand = [s \in Strands |-> None]
    /\ TOTAL_MESSAGES_SENT = 0
    /\ TOTAL_MESSAGES_RECEIVED = 0
    /\ ops = [s \in Strands |-> 0]
    /\ offered = {}
    /\ due = {}
    /\ taken = <<>>
    /\ ended = FALSE

Begin(s) ==
    /\ pc[s] = "idle"
    /\ ops[s] < MaxOps
    /\ ops' = [ops EXCEPT ![s] = @ + 1]

-----------------------------------------------------------------------------
(* patch_seq_chan_send.                                                    *)

(* Faulty variant: a refused send is counted as sent.                      *)
SendCheckCounts(s, v) ==
    /\ Begin(s)
    /\ v \notin offered
    /\ offered' = offered \cup {v}
    /\ IF closed
       THEN TOTAL_MESSAGES_SENT' = TOTAL_MESSAGES_SENT + 1 /\ UNCHANGED <<pc, hand>>
       ELSE /\ pc' = [pc EXCEPT ![s] = "s_enqueue"]
            /\ hand' = [hand EXCEPT ![s] = v]
            /\ UNCHANGED TOTAL_MESSAGES_SENT
    /\ UNCHANGED <<queue, closed, TOTAL_MESSAGES_RECEIVED, due, taken, ended>>

(* The closed gate: false at once, or go on to the queue.                  *)
SendCheck(s, v) ==
    /\ Begin(s)
    /\ v \notin offered
    /\ offered' = offered \cup {v}
    /\ IF closed THEN UNCHANGED <<pc, hand>>
       ELSE /\ pc' = [pc EXCEPT ![s] = "s_enqueue"]
            /\ hand' = [hand EXCEPT ![s] = v]
    /\ UNCHANGED <<queue, closed, totals, due, taken, ended>>

SendEnqueue(s) ==
    /\ pc[s] = "s_enqueue"
    /\ queue' = Append(queue, hand[s])
    /\ hand' = [hand EXCEPT ![s] = None]
    /\ pc' = [pc EXCEPT ![s] = "s_count"]
    /\ UNCHANGED <<closed, totals, history>>

SendCount(s) ==
    /\ pc[s] = "s_count"
    /\ TOTAL_MESSAGES_SENT' = TOTAL_MESSAGES_SENT + 1
    /\ pc' = [pc EXCEPT ![s] = "idle"]
    /\ UNCHANGED <<queue, closed, hand, TOTAL_MESSAGES_RECEIVED, history>>

-----------------------------------------------------------------------------
(* patch_seq_chan_receive.                                                 *)

(* Faulty variant: a closed channel is reported as ended at once.          *)
ReceiveCallIfOpen(s) ==
    /\ Begin(s)
    /\ pc' = [pc EXCEPT ![s] = IF closed THEN "r_rebroadcast" ELSE "r_take"]
    /\ UNCHANGED <<queue, closed, hand, totals, offered, due, taken, ended>>

ReceiveCall(s) ==
    /\ Begin(s)
    /\ pc' = [pc EXCEPT ![s] = "r_take"]
    /\ UNCHANGED <<queue, closed, hand, totals, offered, due, taken, ended>>

(* Faulty variant: the message stays in the queue.                         *)
ReceivePeek(s) ==
    /\ pc[s] = "r_take"
    /\ queue # <<>>
    /\ Head(queue) # Closed
    /\ pc' = [pc EXCEPT ![s] = "r_count"]
    /\ hand' = [hand EXCEPT ![s] = Head(queue)]
    /\ taken' = Append(taken, Head(queue))
    /\ UNCHANGED <<queue, closed, totals, ops, offered, due, ended>>

(* recv blocks until there is a message.                                   *)
ReceiveTake(s) ==
    /\ pc[s] = "r_take"
    /\ queue # <<>>
    /\ queue' = Tail(queue)
    /\ IF Head(queue) = Closed
       THEN /\ pc' = [pc EXCEPT ![s] = "r_rebroadcast"]
            /\ UNCHANGED <<hand, taken>>
       ELSE /\ pc' = [pc EXCEPT ![s] = "r_count"]
            /\ hand' = [hand EXCEPT ![s] = Head(queue)]
            /\ taken' = Append(taken, Head(queue))
    /\ UNCHANGED <<closed, totals, ops, offered, due, ended>>

(* Count, and answer ( value true ).                                       *)
ReceiveCount(s) ==
    /\ pc[s] = "r_count"
    /\ TOTAL_MESSAGES_RECEIVED' = TOTAL_MESSAGES_RECEIVED + 1
    /\ hand' = [hand EXCEPT ![s] = None]
    /\ pc' = [pc EXCEPT ![s] = "idle"]
    /\ UNCHANGED <<queue, closed, TOTAL_MESSAGES_SENT, history>>

(* Faulty variant: the sentinel is swallowed.                              *)
ReceiveSwallows(s) ==
    /\ pc[s] = "r_rebroadcast"
    /\ ended' = TRUE
    /\ pc' = [pc EXCEPT ![s] = "idle"]
    /\ UNCHANGED <<queue, closed, hand, totals, ops, offered, due, taken>>

(* Put the sentinel back for the next receiver, and answer                 *)
(* ( default false ).                                                      *)
ReceiveRebroadcast(s) ==
    /\ pc[s] = "r_rebroadcast"
    /\ queue' = Append(queue, Closed)
    /\ ended' = TRUE
    /\ pc' = [pc EXCEPT ![s] = "idle"]
    /\ UNCHANGED <<closed, hand, totals, ops, offered, due, taken>>

-----------------------------------------------------------------------------
(* patch_seq_close_channel.                                                *)

ValuesIn(q) == {m \in Range(q) : m # Closed}

(* The compare-and-swap; the closer that loses it is done.                 *)
CloseCas(s) ==
    /\ Begin(s)
    /\ IF closed THEN UNCHANGED <<closed, pc, due>>
       ELSE /\ closed' = TRUE
            /\ due' = ValuesIn(queue)
            /\ pc' = [pc EXCEPT ![s] = "c_sentinel"]
    /\ UNCHANGED <<queue, hand, totals, offered, taken, ended>>

CloseSentinel(s) ==
    /\ pc[s] = "c_sentinel"
    /\ queue' = Append(queue, Closed)
    /\ pc' = [pc EXCEPT ![s] = "idle"]
    /\ UNCHANGED <<closed, hand, totals, history>>

-----------------------------------------------------------------------------
(* A strand inside an operation goes on; whether it begins one is up to    *)
(* the program.                                                            *)
Step(s) ==
    \/ SendEnqueue(s) \/ SendCount(s)
    \/ ReceiveTake(s) \/ ReceiveCount(s) \/ ReceiveRebroadcast(s)
    \/ CloseSentinel(s)

Next ==
    \E s \in Strands :
        \/ \E v \in Values : SendCheck(s, v)
        \/ ReceiveCall(s)
        \/ CloseCas(s)
        \/ Step(s)

Spec == Init /\ [][Next]_vars
FairSpec == Spec /\ \A s \in Strands : WF_vars(Step(s))

-----------------------------------------------------------------------------
(* The queue carries values and sentinels, and what reaches a program      *)
(* through send and receive is always a value.                             *)
TypeOK ==
    /\ queue \in Seq(Values \cup {Closed})
    /\ closed \in BOOLEAN
    /\ pc \in [Strands -> Labels]
    /\ hand \in [Strands -> Values \cup {None}]
    /\ TOTAL_MESSAGES_SENT \in Nat /\ TOTAL_MESSAGES_RECEIVED \in Nat
    /\ ops \in [Strands -> 0..MaxOps]
    /\ offered \in SUBSET Values
    /\ due \in SUBSET Values
    /\ taken \in Seq(Values)
    /\ ended \in BOOLEAN

(* A strand that holds the sentinel: the first closer before it enqueues   *)
(* it, or a receiver before it puts it back.                               *)
Holders == {s \in Strands : pc[s] \in {"c_sentinel", "r_rebroadcast"}}

(* "The first close enqueues a single Closed sentinel" and every receiver  *)
(* that takes it puts it back: however closes and receives race, an open   *)
(* channel has no sentinel and a closed one has exactly one, in the queue  *)
(* or in one strand's hands.                                               *)
OneSentinel ==
    LET places == {i \in 1..Len(queue) : queue[i] = Closed}
    IN  /\ ~closed => places = {} /\ Holders = {}
        /\ closed => places # {} \/ Holders # {}
        /\ \A i, j \in places : i = j
        /\ \A s, r \in Holders : s = r
        /\ places = {} \/ Holders = {}

(* "Buffered values still drain after close": as soon as a receiver has    *)
(* taken the sentinel or answered ( default false ), no value that was in  *)
(* the queue when the channel was closed is left in it.                    *)
DrainBeforeEnd ==
    ended \/ (\E s \in Strands : pc[s] = "r_rebroadcast")
        => Range(queue) \cap due = {}

(* "Each message is delivered to exactly one receiver": a value is in at   *)
(* most one place (a sender's hand, one position of the queue, or one      *)
(* receive), and none that passed the closed gate disappears.              *)
ExactlyOnce ==
    /\ \A i, j \in 1..Len(queue) : queue[i] = queue[j] /\ queue[i] # Closed => i = j
    /\ \A i, j \in 1..Len(taken) : taken[i] = taken[j] => i = j
    /\ Range(queue) \cap Range(taken) = {}
    /\ \A s \in Strands : pc[s] = "s_enqueue" =>
           /\ hand[s] \notin Range(queue) \cup Range(taken)
           /\ \A r \in Strands : hand[r] = hand[s] => r = s
    /\ \A s \in Strands : pc[s] = "r_count" => hand[s] \in Range(taken)

(* The values of a queue, in order: it holds at most one sentinel.         *)
SentinelAt(q) == CHOOSE i \in 1..Len(q) : q[i] = Closed
WithoutSentinel(q) ==
    IF Closed \in Range(q)
    THEN [i \in 1..(Len(q) - 1) |-> IF i < SentinelAt(q) THEN q[i] ELSE q[i + 1]]
    ELSE q

(* With the diagnostics counters at rest, sent - received is the number of *)
(* values still buffered.                                                  *)
CountersBalance ==
    (\A s \in Strands : pc[s] \notin {"s_count", "r_count"}) =>
        TOTAL_MESSAGES_SENT = TOTAL_MESSAGES_RECEIVED + Len(WithoutSentinel(queue))

(* close "wakes all blocked receivers": one sentinel is enough for any     *)
(* number of them.                                                         *)
CloseWakesReceivers ==
    \A s \in Strands : closed /\ pc[s] = "r_take" ~> pc[s] # "r_take"

(* The refinement mapping to ChannelPromise: its buffer is the queue       *)
(* without the sentinel, and what it still owes are the values of due,     *)
(* which are the front of the queue.                                       *)
DueIn(q, d) == CHOOSE n \in 0..Len(q) : \A i \in 1..Len(q) : q[i] \in d <=> i <= n

P == INSTANCE ChannelPromise
         WITH buffer <- WithoutSentinel(queue), owed <- DueIn(queue, due)

(* channel.rs keeps the promise of ChannelPromise: FIFO, at most one close *)
(* taking effect, and no end-of-stream while a value of before is owed.    *)
KeepsPromise == P!Promise

(* The stdlib reference says that receive "Returns (default false) once    *)
(* closed and drained": after it has, no value comes out any more.         *)
EndIsFinal == [][ended => taken' = taken]_vars
=============================================================================
