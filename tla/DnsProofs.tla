------------------------------- MODULE DnsProofs -------------------------------
(***************************************************************************)
(* Proofs about Dns, for any number of strands, workers, hosts and calls.  *)
(*                                                                         *)
(* What LookupsSound says with cardinalities is proved from an invariant   *)
(* without them: RoleInv says who is responsible for an in-flight entry,   *)
(* ServedInv where each strand's reply will come from, and GenuineInv      *)
(* where the addresses that are on their way come from.                    *)
(***************************************************************************)
EXTENDS Dns, SequenceTheorems, FiniteSetTheorems, TLAPS

Leads(s, h) == pc[s] \in {"enqueue", "drain"} /\ host[s] = h
Works(w, h) == wpc[w] \in {"lookup", "put", "remove"} /\ job[w] = h
Queued(h)   == \E i \in 1..Len(queue) : queue[i] = h

(* An in-flight entry has one leader, job or worker responsible for it,    *)
(* and nobody is responsible for an entry that does not exist.             *)
RoleInv ==
    /\ \A s \in Strands : pc[s] # "idle" => host[s] \in Hosts
    /\ \A w \in Workers : wpc[w] # "recv" => job[w] \in Hosts
    /\ \A s \in Strands, h \in Hosts : Leads(s, h) =>
           /\ s \in in_flight[h] /\ ~Queued(h)
           /\ \A t \in Strands : Leads(t, h) => t = s
           /\ \A w \in Workers : ~Works(w, h)
    /\ \A w \in Workers, h \in Hosts : Works(w, h) =>
           /\ in_flight[h] # {} /\ ~Queued(h)
           /\ \A u \in Workers : Works(u, h) => u = w
    /\ \A i \in 1..Len(queue) : in_flight[queue[i]] # {}
    /\ \A i, j \in 1..Len(queue) : queue[i] = queue[j] => i = j
    /\ \A h \in Hosts : in_flight[h] # {} =>
           \/ Queued(h)
           \/ \E s \in Strands : Leads(s, h)
           \/ \E w \in Workers : Works(w, h)

(* A strand that will get a reply is in one place, and one that will not   *)
(* is in none.                                                             *)
ServedInv ==
    /\ \A h \in Hosts : \A s \in in_flight[h] :
           host[s] = h /\ pc[s] \in {"enqueue", "drain", "wait"} /\ reply[s] = None
    /\ \A w \in Workers : \A s \in senders[w] :
           /\ wpc[w] = "fanout" /\ pc[s] = "wait" /\ host[s] = job[w]
           /\ reply[s] = None /\ s \notin in_flight[host[s]]
           /\ \A u \in Workers : s \in senders[u] => u = w
           /\ \A l \in Strands : s \notin toFail[l]
    /\ \A l \in Strands : \A s \in toFail[l] :
           /\ pc[l] = "fail" /\ reply[s] = None
           /\ s = l \/ (pc[s] = "wait" /\ s \notin in_flight[host[s]])
           /\ \A k \in Strands : s \in toFail[k] => k = l
    /\ \A s \in Strands : reply[s] # None => pc[s] = "wait"
    /\ \A s \in Strands : pc[s] = "wait" =>
           \/ reply[s] # None \/ s \in in_flight[host[s]]
           \/ \E w \in Workers : s \in senders[w]
           \/ \E l \in Strands : s \in toFail[l]

(* Whatever is cached or about to be sent is a result for its host.        *)
Genuine(a, h) == a \in results[h] \/ (~poolUp /\ a = Empty)

GenuineInv ==
    /\ \A h \in Hosts : entries[h] # None => entries[h] \in results[h]
    /\ \A w \in Workers : wpc[w] = "put" => addrs[w] # Empty
    /\ \A w \in Workers : wpc[w] \in {"put", "remove", "fanout"} =>
           addrs[w] # None /\ addrs[w] \in results[job[w]]
    /\ \A s \in Strands : pc[s] \in {"drain", "fail"} => ~poolUp
    /\ \A s \in Strands : reply[s] # None => Genuine(reply[s], host[s])
    /\ \A s \in Strands : answer[s] # None =>
           host[s] \in Hosts /\ Genuine(answer[s], host[s])

CacheBound == IsFiniteSet(Cached) /\ Cardinality(Cached) <= CACHE_MAX

IInv == Types /\ CacheBound /\ RoleInv /\ ServedInv /\ GenuineInv

-----------------------------------------------------------------------------

LEMMA TypeStep ==
    ASSUME IInv, [Next]_vars
    PROVE  Types'
<1> USE DnsConstants DEF IInv, Types, Cached, cache, strand, worker
<1>1. ASSUME NEW h \in Hosts, Expire(h)
      PROVE  Types'
  BY <1>1 DEF Expire
<1>2. ASSUME NEW s \in Strands, NEW h \in Hosts, CacheGet(s, h)
      PROVE  Types'
  <2>1. CASE Fresh(h)
    BY <1>2, <2>1, SMTT(60) DEF CacheGet, Fresh
  <2>2. CASE ~Fresh(h)
    BY <1>2, <2>2, SMTT(60) DEF CacheGet
  <2> QED
    BY <2>1, <2>2
<1>3. ASSUME NEW s \in Strands, Attach(s)
      PROVE  Types'
  BY <1>3, ZenonT(60) DEF Attach
<1>4. ASSUME NEW s \in Strands, Enqueue(s)
      PROVE  Types'
  <2>1. host[s] \in Hosts
    BY <1>4 DEF Enqueue, RoleInv
  <2>2. Append(queue, host[s]) \in Seq(Hosts)
    BY <2>1, AppendProperties
  <2>3. CASE poolUp
    BY <1>4, <2>2, <2>3 DEF Enqueue
  <2>4. CASE ~poolUp
    BY <1>4, <2>4 DEF Enqueue
  <2> QED
    BY <2>3, <2>4
<1>5. ASSUME NEW s \in Strands, Drain(s)
      PROVE  Types'
  <2>1. host[s] \in Hosts
    BY <1>5 DEF Drain, RoleInv
  <2> QED
    BY <1>5, <2>1 DEF Drain
<1>6. ASSUME NEW s \in Strands, Fail(s)
      PROVE  Types'
  <2>1. ASSUME NEW f \in toFail[s],
               reply' = [reply EXCEPT ![f] = IF f = s THEN @ ELSE Empty],
               toFail' = [toFail EXCEPT ![s] = @ \ {f}], UNCHANGED <<pc, answer>>
        PROVE  Types'
    BY <1>6, <2>1 DEF Fail
  <2>2. CASE /\ answer' = [answer EXCEPT ![s] = Empty]
             /\ pc' = [pc EXCEPT ![s] = "idle"] /\ UNCHANGED <<reply, toFail>>
    BY <1>6, <2>2 DEF Fail
  <2> QED
    BY <1>6, <2>1, <2>2 DEF Fail
<1>7. ASSUME NEW s \in Strands, Receive(s)
      PROVE  Types'
  BY <1>7 DEF Receive
<1>8. ASSUME NEW w \in Workers, WorkerReceive(w)
      PROVE  Types'
  BY <1>8 DEF WorkerReceive
<1>9. ASSUME NEW w \in Workers, Lookup(w)
      PROVE  Types'
  <2>1. job[w] \in Hosts
    BY <1>9 DEF Lookup, RoleInv
  <2>2. Addrs[job[w]] \subseteq AllAddrs
    BY <2>1 DEF AllAddrs
  <2>3. PICK a \in Addrs[job[w]] \cup {Empty} :
           /\ addrs' = [addrs EXCEPT ![w] = a]
           /\ results' = [results EXCEPT ![job[w]] = @ \cup {a}]
           /\ wpc' = [wpc EXCEPT ![w] = IF a = Empty THEN "remove" ELSE "put"]
    BY <1>9 DEF Lookup
  <2> QED
    BY <1>9, <2>1, <2>2, <2>3 DEF Lookup
<1>10. ASSUME NEW w \in Workers, CachePut(w)
      PROVE  Types'
  <2>1. job[w] \in Hosts /\ addrs[w] \in AllAddrs
    BY <1>10 DEF CachePut, RoleInv, GenuineInv
  <2>2. PICK k \in Hosts \cup {None} : PutEvicting(w, job[w], k)
    BY <1>10 DEF CachePut
  <2>3. entries' \in [Hosts -> AllAddrs \cup {None}] /\ stale' \subseteq Cached'
    BY <2>1, <2>2 DEF PutEvicting
  <2> QED
    BY <1>10, <2>3 DEF CachePut
<1>11. ASSUME NEW w \in Workers, RemoveEntry(w)
      PROVE  Types'
  <2>1. job[w] \in Hosts
    BY <1>11 DEF RemoveEntry, RoleInv
  <2> QED
    BY <1>11, <2>1 DEF RemoveEntry
<1>12. ASSUME NEW w \in Workers, FanOut(w)
      PROVE  Types'
  <2>1. ASSUME NEW s \in senders[w], reply' = [reply EXCEPT ![s] = addrs[w]],
               senders' = [senders EXCEPT ![w] = @ \ {s}], UNCHANGED <<wpc, job, addrs>>
        PROVE  Types'
    BY <1>12, <2>1 DEF FanOut
  <2>2. CASE /\ wpc' = [wpc EXCEPT ![w] = "recv"] /\ job' = [job EXCEPT ![w] = None]
             /\ addrs' = [addrs EXCEPT ![w] = None] /\ UNCHANGED <<reply, senders>>
    BY <1>12, <2>2 DEF FanOut
  <2> QED
    BY <1>12, <2>1, <2>2 DEF FanOut
<1>13. ASSUME UNCHANGED vars
      PROVE  Types'
  BY <1>13 DEF vars
<1> QED
  BY <1>1, <1>2, <1>3, <1>4, <1>5, <1>6, <1>7, <1>8, <1>9, <1>10, <1>11, <1>12, <1>13
     DEF Next, StrandSteps, WorkerSteps

-----------------------------------------------------------------------------
(* The facts about types that the other parts need.                        *)
LEMMA Shapes ==
    ASSUME IInv
    PROVE  /\ in_flight \in [Hosts -> SUBSET Strands]
           /\ pc \in [Strands -> {"idle", "attach", "enqueue", "drain", "fail", "wait"}]
           /\ host \in [Strands -> Hosts \cup {None}]
           /\ reply \in [Strands -> AllAddrs \cup {Empty, None}]
           /\ toFail \in [Strands -> SUBSET Strands]
           /\ wpc \in [Workers -> {"recv", "lookup", "put", "remove", "fanout"}]
           /\ job \in [Workers -> Hosts \cup {None}]
           /\ addrs \in [Workers -> AllAddrs \cup {Empty, None}]
           /\ senders \in [Workers -> SUBSET Strands]
           /\ Len(queue) \in Nat
           /\ \A i \in 1..Len(queue) : queue[i] \in Hosts
           /\ None \notin Hosts /\ None \notin AllAddrs
           /\ Empty \notin AllAddrs /\ Empty # None
  BY DnsConstants, LenProperties, ElementOfSeq DEF IInv, Types

LEMMA RoleStep ==
    ASSUME IInv, [Next]_vars
    PROVE  RoleInv'
<1> USE Shapes DEF Leads, Works, Queued, RoleInv, cache, strand, worker
<1>0. RoleInv
  BY DEF IInv
<1>1. ASSUME NEW h \in Hosts, Expire(h)
      PROVE  RoleInv'
  BY <1>0, <1>1 DEF Expire
<1>2. ASSUME NEW s \in Strands, NEW h \in Hosts, CacheGet(s, h)
      PROVE  RoleInv'
  BY <1>0, <1>2, SMTT(60) DEF CacheGet
<1>3. ASSUME NEW s \in Strands, Attach(s)
      PROVE  RoleInv'
  BY <1>0, <1>3 DEF Attach
<1>4. ASSUME NEW s \in Strands, Enqueue(s)
      PROVE  RoleInv'
  <2>1. host[s] \in Hosts /\ Leads(s, host[s])
    BY <1>0, <1>4 DEF Enqueue
  <2>2. CASE ~poolUp
    BY <1>0, <1>4, <2>2 DEF Enqueue
  <2>3. CASE poolUp
    <3>1. queue' = Append(queue, host[s]) /\ pc' = [pc EXCEPT ![s] = "wait"]
      BY <1>4, <2>3 DEF Enqueue
    <3>2. /\ Len(queue') = Len(queue) + 1 /\ queue'[Len(queue) + 1] = host[s]
          /\ \A i \in 1..Len(queue) : queue'[i] = queue[i]
      BY <2>1, <3>1, AppendProperties DEF IInv, Types
    <3>3. UNCHANGED <<in_flight, host, wpc, job>>
      BY <1>4 DEF Enqueue
    <3>4. \A g \in Hosts : Queued(g)' <=> Queued(g) \/ g = host[s]
      <4>1. ASSUME NEW g \in Hosts, NEW i \in 1..Len(queue'), queue'[i] = g
            PROVE  Queued(g) \/ g = host[s]
        BY <3>2, <4>1
      <4>2. ASSUME NEW g \in Hosts, NEW i \in 1..Len(queue), queue[i] = g
            PROVE  Queued(g)'
        BY <3>2, <4>2
      <4>3. ASSUME NEW g \in Hosts, g = host[s]
            PROVE  Queued(g)'
        BY <3>2, <4>3
      <4> QED
        BY <4>1, <4>2, <4>3, Zenon
    <3> HIDE DEF Queued
    <3>5. \A t \in Strands, g \in Hosts : Leads(t, g)' <=> Leads(t, g) /\ t # s
      BY <3>1, <3>3
    <3>6. \A u \in Workers, g \in Hosts : Works(u, g)' <=> Works(u, g)
      BY <3>3
    <3>7. \A i \in 1..Len(queue') : in_flight'[queue'[i]] # {}
      BY <1>0, <2>1, <3>2, <3>3
    <3>8. \A i, j \in 1..Len(queue') : queue'[i] = queue'[j] => i = j
      <4>1. \A i \in 1..Len(queue) : queue[i] # host[s]
        BY <1>0, <2>1 DEF Queued
      <4> QED
        BY <1>0, <3>2, <4>1
    <3>9. /\ \A t \in Strands : pc'[t] # "idle" => host'[t] \in Hosts
          /\ \A u \in Workers : wpc'[u] # "recv" => job'[u] \in Hosts
      BY <1>0, <2>1, <3>1, <3>3
    <3> HIDE DEF Leads, Works
    <3>10. /\ \A t \in Strands, g \in Hosts : Leads(t, g)' =>
                  /\ t \in in_flight'[g] /\ ~Queued(g)'
                  /\ \A r \in Strands : Leads(r, g)' => r = t
                  /\ \A u \in Workers : ~Works(u, g)'
           /\ \A u \in Workers, g \in Hosts : Works(u, g)' =>
                  /\ in_flight'[g] # {} /\ ~Queued(g)'
                  /\ \A v \in Workers : Works(v, g)' => v = u
      BY <1>0, <2>1, <3>3, <3>4, <3>5, <3>6
    <3>11. \A g \in Hosts : in_flight'[g] # {} =>
               \/ Queued(g)'
               \/ \E t \in Strands : Leads(t, g)'
               \/ \E u \in Workers : Works(u, g)'
      <4> SUFFICES ASSUME NEW g \in Hosts, in_flight[g] # {}, g # host[s]
                   PROVE  \/ Queued(g)'
                          \/ \E t \in Strands : Leads(t, g)'
                          \/ \E u \in Workers : Works(u, g)'
        BY <2>1, <3>3, <3>4
      <4>1. CASE Queued(g)
        BY <3>4, <4>1
      <4>2. ASSUME NEW t \in Strands, Leads(t, g) PROVE Leads(t, g)'
        BY <3>5, <4>2 DEF Leads
      <4>3. ASSUME NEW u \in Workers, Works(u, g) PROVE Works(u, g)'
        BY <3>6, <4>3
      <4> QED
        BY <1>0, <4>1, <4>2, <4>3
    <3> QED
      BY <3>7, <3>8, <3>9, <3>10, <3>11
  <2> QED
    BY <2>2, <2>3
<1>5. ASSUME NEW s \in Strands, Drain(s)
      PROVE  RoleInv'
  BY <1>0, <1>5 DEF Drain
<1>6. ASSUME NEW s \in Strands, Fail(s)
      PROVE  RoleInv'
  BY <1>0, <1>6 DEF Fail
<1>7. ASSUME NEW s \in Strands, Receive(s)
      PROVE  RoleInv'
  BY <1>0, <1>7 DEF Receive
<1>8. ASSUME NEW w \in Workers, WorkerReceive(w)
      PROVE  RoleInv'
  <2>1. /\ Len(queue') = Len(queue) - 1 /\ Len(queue) >= 1
        /\ \A i \in 1..Len(queue') : queue'[i] = queue[i + 1]
        /\ Head(queue) = queue[1]
    <3>1. queue \in Seq(Hosts) /\ queue # <<>> /\ queue' = Tail(queue)
      BY <1>8 DEF WorkerReceive, IInv, Types
    <3>2. Len(queue) \in Nat /\ Len(queue) >= 1 /\ Head(queue) = queue[1]
      BY <3>1, EmptySeq
    <3> QED
      BY <3>1, <3>2, HeadTailProperties
  <2>2. PICK h \in Hosts : h = queue[1] /\ Queued(h)
    BY <2>1
  <2>3. UNCHANGED <<in_flight, host, pc>>
    BY <1>8 DEF WorkerReceive
  <2>4. /\ wpc[w] = "recv" /\ wpc' = [wpc EXCEPT ![w] = "lookup"]
        /\ job' = [job EXCEPT ![w] = h]
    BY <1>8, <2>1, <2>2 DEF WorkerReceive
  <2>5. \A g \in Hosts : Queued(g)' <=> Queued(g) /\ g # h
    <3>1. ASSUME NEW g \in Hosts, NEW i \in 1..Len(queue'), queue'[i] = g
          PROVE  Queued(g) /\ g # h
      <4>1. i + 1 \in 1..Len(queue) /\ queue[i + 1] = g /\ i + 1 # 1 /\ 1 \in 1..Len(queue)
        BY <2>1, <3>1
      <4> QED
        BY <1>0, <2>2, <4>1
    <3>2. ASSUME NEW g \in Hosts, NEW i \in 1..Len(queue), queue[i] = g, g # h
          PROVE  Queued(g)'
      <4>1. i - 1 \in 1..Len(queue') /\ queue'[i - 1] = g
        BY <2>1, <2>2, <3>2
      <4> QED
        BY <4>1
    <3> QED
      BY <3>1, <3>2
  <2>6. /\ \A i \in 1..Len(queue') : in_flight'[queue'[i]] # {}
        /\ \A i, j \in 1..Len(queue') : queue'[i] = queue'[j] => i = j
    <3>1. \A i \in 1..Len(queue') : i + 1 \in 1..Len(queue) /\ queue'[i] = queue[i + 1]
      BY <2>1
    <3>2. \A i \in 1..Len(queue') : in_flight'[queue'[i]] # {}
      BY <1>0, <2>3, <3>1
    <3>3. ASSUME NEW i \in 1..Len(queue'), NEW j \in 1..Len(queue'), queue'[i] = queue'[j]
          PROVE  i = j
      <4>1. i + 1 = j + 1
        BY <1>0, <3>1, <3>3
      <4> QED
        BY <4>1
    <3> QED
      BY <3>2, <3>3
  <2> HIDE DEF Queued
  <2>7. \A t \in Strands, g \in Hosts : Leads(t, g)' <=> Leads(t, g)
    BY <2>3
  <2>8. \A u \in Workers, g \in Hosts :
           Works(u, g)' <=> IF u = w THEN g = h ELSE Works(u, g)
    BY <2>2, <2>4
  <2>9. /\ \A t \in Strands : pc'[t] # "idle" => host'[t] \in Hosts
        /\ \A u \in Workers : wpc'[u] # "recv" => job'[u] \in Hosts
    BY <1>0, <2>2, <2>3, <2>4
  <2>10. \A u \in Workers : ~Works(u, h)
    BY <1>0, <2>2
  <2>11. \A t \in Strands : ~Leads(t, h)
    BY <1>0, <2>2
  <2>12. in_flight[h] # {}
    BY <1>0, <2>2 DEF Queued
  <2> HIDE DEF Leads, Works
  <2>13. /\ \A t \in Strands, g \in Hosts : Leads(t, g)' =>
                /\ t \in in_flight'[g] /\ ~Queued(g)'
                /\ \A r \in Strands : Leads(r, g)' => r = t
                /\ \A u \in Workers : ~Works(u, g)'
         /\ \A u \in Workers, g \in Hosts : Works(u, g)' =>
                /\ in_flight'[g] # {} /\ ~Queued(g)'
                /\ \A v \in Workers : Works(v, g)' => v = u
    BY <1>0, <2>2, <2>3, <2>5, <2>7, <2>8, <2>10, <2>11, <2>12
  <2>14. \A g \in Hosts : in_flight'[g] # {} =>
             \/ Queued(g)'
             \/ \E t \in Strands : Leads(t, g)'
             \/ \E u \in Workers : Works(u, g)'
    <3>1. \A u \in Workers, g \in Hosts : Works(u, g) => Works(u, g)'
      BY <2>4, <2>8 DEF Works
    <3>2. Works(w, h)'
      BY <2>4 DEF Works
    <3> SUFFICES ASSUME NEW g \in Hosts, in_flight[g] # {}, g # h
                 PROVE  \/ Queued(g)'
                        \/ \E t \in Strands : Leads(t, g)'
                        \/ \E u \in Workers : Works(u, g)'
      BY <2>3, <3>2
    <3>3. CASE Queued(g)
      BY <2>5, <3>3
    <3>4. ASSUME NEW t \in Strands, Leads(t, g) PROVE Leads(t, g)'
      BY <2>7, <3>4
    <3> QED
      BY <1>0, <3>1, <3>3, <3>4
  <2> QED
    BY <2>6, <2>9, <2>13, <2>14
<1>9. ASSUME NEW w \in Workers, Lookup(w)
      PROVE  RoleInv'
  BY <1>0, <1>9 DEF Lookup
<1>10. ASSUME NEW w \in Workers, CachePut(w)
      PROVE  RoleInv'
  BY <1>0, <1>10 DEF CachePut, PutEvicting
<1>11. ASSUME NEW w \in Workers, RemoveEntry(w)
      PROVE  RoleInv'
  BY <1>0, <1>11 DEF RemoveEntry
<1>12. ASSUME NEW w \in Workers, FanOut(w)
      PROVE  RoleInv'
  BY <1>0, <1>12 DEF FanOut
<1>13. ASSUME UNCHANGED vars
      PROVE  RoleInv'
  BY <1>0, <1>13 DEF vars
<1> QED
  BY <1>1, <1>2, <1>3, <1>4, <1>5, <1>6, <1>7, <1>8, <1>9, <1>10, <1>11, <1>12, <1>13
     DEF Next, StrandSteps, WorkerSteps

LEMMA ServedStep ==
    ASSUME IInv, [Next]_vars
    PROVE  ServedInv'
<1> USE Shapes DEF ServedInv, cache, strand, worker
<1>0. RoleInv /\ ServedInv
  BY DEF IInv
<1>1. ASSUME NEW h \in Hosts, Expire(h)
      PROVE  ServedInv'
  BY <1>0, <1>1 DEF Expire
<1>2. ASSUME NEW s \in Strands, NEW h \in Hosts, CacheGet(s, h)
      PROVE  ServedInv'
  BY <1>0, <1>2 DEF CacheGet
<1>3. ASSUME NEW s \in Strands, Attach(s)
      PROVE  ServedInv'
  <2>1. host[s] \in Hosts /\ pc[s] = "attach"
    BY <1>0, <1>3 DEF Attach, RoleInv
  <2>2. /\ in_flight' = [in_flight EXCEPT ![host[s]] = @ \cup {s}]
        /\ pc' = [pc EXCEPT ![s] = pc'[s]] /\ pc'[s] \in {"enqueue", "wait"}
        /\ UNCHANGED <<host, reply, toFail, senders, wpc, job>>
    BY <1>3 DEF Attach
  <2>3. /\ reply[s] = None /\ \A u \in Workers : s \notin senders[u]
        /\ \A l \in Strands : s \notin toFail[l]
    BY <1>0, <2>1
  <2> QED
    BY <1>0, <2>1, <2>2, <2>3
<1>4. ASSUME NEW s \in Strands, Enqueue(s)
      PROVE  ServedInv'
  <2>1. host[s] \in Hosts /\ pc[s] = "enqueue" /\ s \in in_flight[host[s]]
    BY <1>0, <1>4 DEF Enqueue, RoleInv, Leads
  <2>2. /\ pc' = [pc EXCEPT ![s] = pc'[s]] /\ pc'[s] \in {"wait", "drain"}
        /\ UNCHANGED <<in_flight, host, reply, toFail, senders, wpc, job>>
    BY <1>4 DEF Enqueue
  <2> QED
    BY <1>0, <2>1, <2>2
<1>5. ASSUME NEW s \in Strands, Drain(s)
      PROVE  ServedInv'
  <2> DEFINE h == host[s]
  <2>1. h \in Hosts /\ pc[s] = "drain" /\ s \in in_flight[h]
    BY <1>0, <1>5 DEF Drain, RoleInv, Leads
  <2>2. \A t \in in_flight[h] : t = s \/ pc[t] = "wait"
    <3>1. \A t \in in_flight[h] : pc[t] \in {"enqueue", "drain"} => t = s
      BY <1>0, <2>1 DEF RoleInv, Leads
    <3> QED
      BY <1>0, <2>1, <3>1
  <2>3. /\ toFail' = [toFail EXCEPT ![s] = in_flight[h]]
        /\ in_flight' = [in_flight EXCEPT ![h] = {}]
        /\ pc' = [pc EXCEPT ![s] = "fail"]
        /\ UNCHANGED <<host, reply, senders, wpc, job>>
    BY <1>5 DEF Drain
  <2>4. toFail[s] = {}
    BY <1>0, <2>1
  <2>5. \A t \in in_flight[h] : /\ reply[t] = None /\ host[t] = h
                                /\ \A u \in Workers : t \notin senders[u]
                                /\ \A l \in Strands : t \notin toFail[l]
    BY <1>0, <2>1, <2>2
  <2> HIDE DEF h
  <2>6. \A g \in Hosts : \A t \in in_flight'[g] :
           host'[t] = g /\ pc'[t] \in {"enqueue", "drain", "wait"} /\ reply'[t] = None
    BY <1>0, <2>1, <2>3, <2>5 DEF h
  <2>7. \A u \in Workers : \A t \in senders'[u] :
           /\ wpc'[u] = "fanout" /\ pc'[t] = "wait" /\ host'[t] = job'[u]
           /\ reply'[t] = None /\ t \notin in_flight'[host'[t]]
           /\ \A v \in Workers : t \in senders'[v] => v = u
           /\ \A l \in Strands : t \notin toFail'[l]
    BY <1>0, <2>1, <2>3, <2>5
  <2>8. \A l \in Strands : \A t \in toFail'[l] :
           /\ pc'[l] = "fail" /\ reply'[t] = None
           /\ t = l \/ (pc'[t] = "wait" /\ t \notin in_flight'[host'[t]])
           /\ \A k \in Strands : t \in toFail'[k] => k = l
    BY <1>0, <2>1, <2>2, <2>3, <2>4, <2>5
  <2>9. \A t \in Strands : reply'[t] # None => pc'[t] = "wait"
    BY <1>0, <2>1, <2>3
  <2>10. \A t \in Strands : pc'[t] = "wait" =>
           \/ reply'[t] # None \/ t \in in_flight'[host'[t]]
           \/ \E u \in Workers : t \in senders'[u]
           \/ \E l \in Strands : t \in toFail'[l]
    BY <1>0, <2>1, <2>3, <2>4
  <2> QED
    BY <2>6, <2>7, <2>8, <2>9, <2>10
<1>6. ASSUME NEW s \in Strands, Fail(s)
      PROVE  ServedInv'
  <2>0. pc[s] = "fail" /\ UNCHANGED <<in_flight, host, senders, wpc, job>>
    BY <1>6 DEF Fail
  <2>1. ASSUME NEW f \in toFail[s],
               reply' = [reply EXCEPT ![f] = IF f = s THEN @ ELSE Empty],
               toFail' = [toFail EXCEPT ![s] = @ \ {f}], UNCHANGED <<pc, answer>>
        PROVE  ServedInv'
    <3>1. \A l \in Strands : f \notin toFail'[l]
      BY <1>0, <2>1
    <3>2. /\ f \in Strands /\ \A u \in Workers : f \notin senders[u]
          /\ \A g \in Hosts : f \notin in_flight[g]
      BY <1>0, <2>0, <2>1
    <3>3. f # s => pc[f] = "wait" /\ reply'[f] = Empty
      BY <1>0, <2>1, <3>2
    <3>4. \A t \in Strands : t # f => reply'[t] = reply[t]
      BY <2>1, <3>2
    <3>5. f = s => reply' = reply
      BY <2>1
    <3>6. \A l \in Strands :
              toFail'[l] \subseteq toFail[l] /\ toFail[l] \subseteq toFail'[l] \cup {f}
      BY <2>1
    <3> QED
      BY <1>0, <2>0, <2>1, <3>1, <3>2, <3>3, <3>4, <3>5, <3>6
  <2>2. CASE /\ answer' = [answer EXCEPT ![s] = Empty] /\ toFail[s] = {}
             /\ pc' = [pc EXCEPT ![s] = "idle"] /\ UNCHANGED <<reply, toFail>>
    BY <1>0, <2>0, <2>2
  <2> QED
    BY <1>6, <2>1, <2>2 DEF Fail
<1>7. ASSUME NEW s \in Strands, Receive(s)
      PROVE  ServedInv'
  BY <1>0, <1>7 DEF Receive
<1>8. ASSUME NEW w \in Workers, WorkerReceive(w)
      PROVE  ServedInv'
  BY <1>0, <1>8 DEF WorkerReceive
<1>9. ASSUME NEW w \in Workers, Lookup(w)
      PROVE  ServedInv'
  BY <1>0, <1>9 DEF Lookup
<1>10. ASSUME NEW w \in Workers, CachePut(w)
      PROVE  ServedInv'
  BY <1>0, <1>10 DEF CachePut, PutEvicting
<1>11. ASSUME NEW w \in Workers, RemoveEntry(w)
      PROVE  ServedInv'
  <2> DEFINE h == job[w]
  <2>1. h \in Hosts /\ wpc[w] = "remove"
    BY <1>0, <1>11 DEF RemoveEntry, RoleInv
  <2>2. \A t \in in_flight[h] : pc[t] = "wait"
    <3>1. \A t \in Strands : ~Leads(t, h)
      BY <1>0, <2>1 DEF RoleInv, Works
    <3> QED
      BY <1>0, <2>1, <3>1 DEF Leads
  <2>3. /\ senders' = [senders EXCEPT ![w] = in_flight[h]]
        /\ in_flight' = [in_flight EXCEPT ![h] = {}]
        /\ wpc' = [wpc EXCEPT ![w] = "fanout"]
        /\ UNCHANGED <<pc, host, reply, toFail, job>>
    BY <1>11 DEF RemoveEntry
  <2>4. senders[w] = {}
    BY <1>0, <2>1
  <2>5. \A t \in in_flight[h] : /\ reply[t] = None /\ host[t] = h
                                /\ \A u \in Workers : t \notin senders[u]
                                /\ \A l \in Strands : t \notin toFail[l]
    BY <1>0, <2>1, <2>2
  <2> HIDE DEF h
  <2>6. \A g \in Hosts : \A t \in in_flight'[g] :
           host'[t] = g /\ pc'[t] \in {"enqueue", "drain", "wait"} /\ reply'[t] = None
    BY <1>0, <2>1, <2>3
  <2>7. \A u \in Workers : \A t \in senders'[u] :
           /\ wpc'[u] = "fanout" /\ pc'[t] = "wait" /\ host'[t] = job'[u]
           /\ reply'[t] = None /\ t \notin in_flight'[host'[t]]
           /\ \A v \in Workers : t \in senders'[v] => v = u
           /\ \A l \in Strands : t \notin toFail'[l]
    BY <1>0, <2>1, <2>2, <2>3, <2>4, <2>5 DEF h
  <2>8. \A l \in Strands : \A t \in toFail'[l] :
           /\ pc'[l] = "fail" /\ reply'[t] = None
           /\ t = l \/ (pc'[t] = "wait" /\ t \notin in_flight'[host'[t]])
           /\ \A k \in Strands : t \in toFail'[k] => k = l
    BY <1>0, <2>1, <2>3
  <2>9. \A t \in Strands : reply'[t] # None => pc'[t] = "wait"
    BY <1>0, <2>3
  <2>10. \A t \in Strands : pc'[t] = "wait" =>
           \/ reply'[t] # None \/ t \in in_flight'[host'[t]]
           \/ \E u \in Workers : t \in senders'[u]
           \/ \E l \in Strands : t \in toFail'[l]
    BY <1>0, <2>1, <2>3, <2>4
  <2> QED
    BY <2>6, <2>7, <2>8, <2>9, <2>10
<1>12. ASSUME NEW w \in Workers, FanOut(w)
      PROVE  ServedInv'
  <2>0. wpc[w] = "fanout" /\ UNCHANGED <<in_flight, pc, host, toFail>>
    BY <1>12 DEF FanOut
  <2>1. ASSUME NEW s \in senders[w], reply' = [reply EXCEPT ![s] = addrs[w]],
               senders' = [senders EXCEPT ![w] = @ \ {s}], UNCHANGED <<wpc, job, addrs>>
        PROVE  ServedInv'
    <3>1. addrs[w] # None
      BY <2>0 DEF IInv, GenuineInv
    <3>2. /\ s \in Strands /\ pc[s] = "wait" /\ \A l \in Strands : s \notin toFail[l]
          /\ \A g \in Hosts : s \notin in_flight[g]
          /\ \A u \in Workers : s \in senders[u] => u = w
      BY <1>0, <2>1
    <3>3. reply'[s] # None /\ \A t \in Strands : t # s => reply'[t] = reply[t]
      BY <2>1, <3>1, <3>2
    <3>4. \A u \in Workers : s \notin senders'[u]
      BY <2>1, <3>2
    <3>5. \A u \in Workers :
              senders'[u] \subseteq senders[u] /\ senders[u] \subseteq senders'[u] \cup {s}
      BY <2>1
    <3> QED
      BY <1>0, <2>0, <2>1, <3>2, <3>3, <3>4, <3>5
  <2>2. CASE /\ senders[w] = {} /\ wpc' = [wpc EXCEPT ![w] = "recv"]
             /\ job' = [job EXCEPT ![w] = None] /\ UNCHANGED <<reply, senders>>
    BY <1>0, <2>0, <2>2
  <2> QED
    BY <1>12, <2>1, <2>2 DEF FanOut
<1>13. ASSUME UNCHANGED vars
      PROVE  ServedInv'
  BY <1>0, <1>13 DEF vars
<1> QED
  BY <1>1, <1>2, <1>3, <1>4, <1>5, <1>6, <1>7, <1>8, <1>9, <1>10, <1>11, <1>12, <1>13
     DEF Next, StrandSteps, WorkerSteps

LEMMA GenuineStep ==
    ASSUME IInv, [Next]_vars
    PROVE  GenuineInv'
<1> USE Shapes DEF GenuineInv, Genuine, cache, strand, worker
<1>0. RoleInv /\ ServedInv /\ GenuineInv
  BY DEF IInv
<1>1. ASSUME NEW h \in Hosts, Expire(h)
      PROVE  GenuineInv'
  BY <1>0, <1>1 DEF Expire
<1>2. ASSUME NEW s \in Strands, NEW h \in Hosts, CacheGet(s, h)
      PROVE  GenuineInv'
  <2>1. pc[s] = "idle" /\ reply[s] = None
    BY <1>0, <1>2 DEF CacheGet, ServedInv
  <2>2. /\ host' = [host EXCEPT ![s] = h]
        /\ UNCHANGED <<reply, results, poolUp, wpc, job, addrs>>
    BY <1>2 DEF CacheGet
  <2>3. /\ entries \in [Hosts -> AllAddrs \cup {None}]
        /\ answer \in [Strands -> AllAddrs \cup {Empty, None}]
    BY DEF IInv, Types
  <2>4. CASE Fresh(h)
    <3>1. /\ answer' = [answer EXCEPT ![s] = entries[h]] /\ entries[h] # None
          /\ UNCHANGED <<entries, pc>>
      BY <1>2, <2>4 DEF CacheGet, Fresh
    <3> QED
      BY <1>0, <2>1, <2>2, <2>3, <3>1
  <2>5. CASE ~Fresh(h)
    <3>1. /\ entries' = [entries EXCEPT ![h] = None]
          /\ answer' = [answer EXCEPT ![s] = None] /\ pc' = [pc EXCEPT ![s] = "attach"]
      BY <1>2, <2>5 DEF CacheGet
    <3> QED
      BY <1>0, <2>1, <2>2, <2>3, <3>1
  <2> QED
    BY <2>4, <2>5
<1>3. ASSUME NEW s \in Strands, Attach(s)
      PROVE  GenuineInv'
  BY <1>0, <1>3 DEF Attach
<1>4. ASSUME NEW s \in Strands, Enqueue(s)
      PROVE  GenuineInv'
  BY <1>0, <1>4 DEF Enqueue
<1>5. ASSUME NEW s \in Strands, Drain(s)
      PROVE  GenuineInv'
  BY <1>0, <1>5 DEF Drain
<1>6. ASSUME NEW s \in Strands, Fail(s)
      PROVE  GenuineInv'
  <2>0. pc[s] = "fail" /\ UNCHANGED <<entries, poolUp, host, wpc, job, addrs, results>>
    BY <1>6 DEF Fail
  <2>1. ~poolUp
    BY <1>0, <2>0
  <2>2. ASSUME NEW f \in toFail[s],
               reply' = [reply EXCEPT ![f] = IF f = s THEN @ ELSE Empty],
               toFail' = [toFail EXCEPT ![s] = @ \ {f}], UNCHANGED <<pc, answer>>
        PROVE  GenuineInv'
    <3>1. \A t \in Strands : reply'[t] \in {reply[t], Empty}
      BY <2>2
    <3> QED
      BY <1>0, <2>0, <2>1, <2>2, <3>1
  <2>3. CASE /\ answer' = [answer EXCEPT ![s] = Empty]
             /\ pc' = [pc EXCEPT ![s] = "idle"] /\ UNCHANGED <<reply, toFail>>
    <3>1. host[s] \in Hosts
      BY <1>0, <2>0 DEF RoleInv
    <3>2. \A t \in Strands : answer'[t] = IF t = s THEN Empty ELSE answer[t]
      BY <2>3 DEF IInv, Types
    <3> QED
      BY <1>0, <2>0, <2>1, <2>3, <3>1, <3>2
  <2> QED
    BY <1>6, <2>2, <2>3 DEF Fail
<1>7. ASSUME NEW s \in Strands, Receive(s)
      PROVE  GenuineInv'
  <2>1. host[s] \in Hosts
    BY <1>0, <1>7 DEF Receive, RoleInv
  <2>2. \A t \in Strands : answer'[t] = IF t = s THEN reply[s] ELSE answer[t]
    BY <1>7 DEF Receive, IInv, Types
  <2> QED
    BY <1>0, <1>7, <2>1, <2>2 DEF Receive
<1>8. ASSUME NEW w \in Workers, WorkerReceive(w)
      PROVE  GenuineInv'
  BY <1>0, <1>8 DEF WorkerReceive
<1>9. ASSUME NEW w \in Workers, Lookup(w)
      PROVE  GenuineInv'
  <2>1. job[w] \in Hosts /\ wpc[w] = "lookup"
    BY <1>0, <1>9 DEF Lookup, RoleInv
  <2>2. Addrs[job[w]] \subseteq AllAddrs
    BY <2>1 DEF AllAddrs
  <2>3. PICK a \in Addrs[job[w]] \cup {Empty} :
           /\ addrs' = [addrs EXCEPT ![w] = a]
           /\ results' = [results EXCEPT ![job[w]] = @ \cup {a}]
           /\ wpc' = [wpc EXCEPT ![w] = IF a = Empty THEN "remove" ELSE "put"]
    BY <1>9 DEF Lookup
  <2>4. results \in [Hosts -> SUBSET (AllAddrs \cup {Empty})]
    BY DEF IInv, Types
  <2>5. \A g \in Hosts : results[g] \subseteq results'[g]
    BY <2>3, <2>4
  <2>6. a \in results'[job[w]] /\ a # None
    BY <2>1, <2>2, <2>3, <2>4
  <2>7. UNCHANGED <<entries, poolUp, pc, host, reply, answer, job>>
    BY <1>9 DEF Lookup
  <2>8. \A s \in Strands : reply[s] # None => host[s] \in Hosts
    BY <1>0 DEF RoleInv, ServedInv
  <2>9. \A u \in Workers : wpc[u] # "recv" => job[u] \in Hosts
    BY <1>0 DEF RoleInv
  <2>10. \A h \in Hosts : entries'[h] # None => entries'[h] \in results'[h]
    BY <1>0, <2>5, <2>7
  <2>11. \A u \in Workers : wpc'[u] = "put" => addrs'[u] # Empty
    BY <1>0, <2>3
  <2>12. \A u \in Workers : wpc'[u] \in {"put", "remove", "fanout"} =>
            addrs'[u] # None /\ addrs'[u] \in results'[job'[u]]
    BY <1>0, <2>3, <2>5, <2>6, <2>7, <2>9
  <2>13. \A s \in Strands : reply'[s] # None => Genuine(reply[s], host[s])'
    BY <1>0, <2>5, <2>7, <2>8
  <2>14. \A s \in Strands : answer'[s] # None =>
            host'[s] \in Hosts /\ Genuine(answer[s], host[s])'
    BY <1>0, <2>5, <2>7
  <2>15. \A s \in Strands : pc'[s] \in {"drain", "fail"} => ~poolUp'
    BY <1>0, <2>7
  <2> QED
    BY <2>10, <2>11, <2>12, <2>13, <2>14, <2>15
<1>10. ASSUME NEW w \in Workers, CachePut(w)
      PROVE  GenuineInv'
  BY <1>0, <1>10 DEF CachePut, PutEvicting
<1>11. ASSUME NEW w \in Workers, RemoveEntry(w)
      PROVE  GenuineInv'
  BY <1>0, <1>11 DEF RemoveEntry
<1>12. ASSUME NEW w \in Workers, FanOut(w)
      PROVE  GenuineInv'
  <2>0. /\ wpc[w] = "fanout"
        /\ UNCHANGED <<entries, poolUp, pc, host, answer, results>>
    BY <1>12 DEF FanOut
  <2>1. ASSUME NEW s \in senders[w], reply' = [reply EXCEPT ![s] = addrs[w]],
               senders' = [senders EXCEPT ![w] = @ \ {s}], UNCHANGED <<wpc, job, addrs>>
        PROVE  GenuineInv'
    <3>1. addrs[w] \in results[host[s]]
      BY <1>0, <2>0, <2>1 DEF ServedInv
    <3> QED
      BY <1>0, <2>0, <2>1, <3>1
  <2>2. CASE /\ senders[w] = {} /\ wpc' = [wpc EXCEPT ![w] = "recv"]
             /\ job' = [job EXCEPT ![w] = None] /\ addrs' = [addrs EXCEPT ![w] = None]
             /\ UNCHANGED <<reply, senders>>
    BY <1>0, <2>0, <2>2
  <2> QED
    BY <1>12, <2>1, <2>2 DEF FanOut
<1>13. ASSUME UNCHANGED vars
      PROVE  GenuineInv'
  BY <1>0, <1>13 DEF vars
<1> QED
  BY <1>1, <1>2, <1>3, <1>4, <1>5, <1>6, <1>7, <1>8, <1>9, <1>10, <1>11, <1>12, <1>13
     DEF Next, StrandSteps, WorkerSteps

-----------------------------------------------------------------------------
(* A full cache loses an entry before it gets one.                         *)
LEMMA BoundStep ==
    ASSUME IInv, [Next]_vars
    PROVE  CacheBound'
<1> USE DnsConstants DEF Cached
<1>0. /\ IsFiniteSet(Cached) /\ Cardinality(Cached) \in Nat
      /\ Cardinality(Cached) <= CACHE_MAX
  BY FS_CardinalityType DEF IInv, CacheBound
<1>1. ASSUME Cached' \subseteq Cached
      PROVE  CacheBound'
  <2>1. IsFiniteSet(Cached') /\ Cardinality(Cached') <= Cardinality(Cached)
    BY <1>0, <1>1, FS_Subset
  <2>2. Cardinality(Cached') \in Nat
    BY <2>1, FS_CardinalityType
  <2> QED
    BY <1>0, <2>1, <2>2 DEF CacheBound
<1>2. ASSUME NEW s \in Strands, NEW h \in Hosts, CacheGet(s, h)
      PROVE  CacheBound'
  <2>1. entries' = entries \/ entries' = [entries EXCEPT ![h] = None]
    BY <1>2 DEF CacheGet, cache
  <2>2. Cached' \subseteq Cached
    BY <2>1 DEF IInv, Types
  <2> QED
    BY <1>1, <2>2
<1>3. ASSUME NEW w \in Workers, CachePut(w)
      PROVE  CacheBound'
  <2>1. job[w] \in Hosts
    BY <1>3 DEF IInv, RoleInv, CachePut
  <2>2. ASSUME NEW D \in SUBSET Cached, Cached' \subseteq D \cup {job[w]},
               Cardinality(D) < CACHE_MAX
        PROVE  CacheBound'
    <3>1. IsFiniteSet(D) /\ Cardinality(D) \in Nat
      BY <1>0, FS_Subset, FS_CardinalityType
    <3>2. /\ IsFiniteSet(D \cup {job[w]})
          /\ Cardinality(D \cup {job[w]}) <= Cardinality(D) + 1
          /\ Cardinality(D \cup {job[w]}) \in Nat
      <4>1. CASE job[w] \in D
        <5>1. D \cup {job[w]} = D
          BY <4>1
        <5> QED
          BY <3>1, <5>1
      <4>2. CASE job[w] \notin D
        <5>1. /\ IsFiniteSet(D \cup {job[w]})
              /\ Cardinality(D \cup {job[w]}) = Cardinality(D) + 1
          BY <3>1, <4>2, FS_AddElement
        <5> QED
          BY <3>1, <5>1
      <4> QED
        BY <4>1, <4>2
    <3>3. /\ IsFiniteSet(Cached') /\ Cardinality(Cached') \in Nat
          /\ Cardinality(Cached') <= Cardinality(D \cup {job[w]})
      BY <2>2, <3>2, FS_Subset, FS_CardinalityType
    <3> QED
      BY <2>2, <3>1, <3>2, <3>3 DEF CacheBound
  <2>3. ASSUME NEW k \in Cached, PutEvicting(w, job[w], k)
        PROVE  CacheBound'
    <3>1. Cached' \subseteq (Cached \ {k}) \cup {job[w]}
      BY <2>3 DEF PutEvicting
    <3>2. Cardinality(Cached \ {k}) = Cardinality(Cached) - 1
      BY <1>0, FS_RemoveElement
    <3>3. Cardinality(Cached \ {k}) < CACHE_MAX
      BY <1>0, <3>2
    <3> QED
      BY <2>2, <3>1, <3>3
  <2>4. ASSUME Cardinality(Cached) < CACHE_MAX, PutEvicting(w, job[w], None)
        PROVE  CacheBound'
    <3>1. Cached' \subseteq Cached \cup {job[w]}
      BY <2>4 DEF PutEvicting
    <3> QED
      BY <2>2, <2>4, <3>1
  <2> QED
    BY <1>3, <2>3, <2>4 DEF CachePut
<1>4. ASSUME UNCHANGED entries
      PROVE  CacheBound'
  BY <1>1, <1>4
<1>5. ASSUME NEW s \in Strands, StrandSteps(s)
      PROVE  CacheBound'
  BY <1>4, <1>5 DEF StrandSteps, Attach, Enqueue, Drain, Fail, Receive, cache
<1>6. ASSUME NEW w \in Workers,
             WorkerReceive(w) \/ Lookup(w) \/ RemoveEntry(w) \/ FanOut(w)
      PROVE  CacheBound'
  BY <1>4, <1>6 DEF WorkerReceive, Lookup, RemoveEntry, FanOut, cache
<1>7. ASSUME NEW h \in Hosts, Expire(h)
      PROVE  CacheBound'
  BY <1>4, <1>7 DEF Expire
<1>8. ASSUME UNCHANGED vars
      PROVE  CacheBound'
  BY <1>4, <1>8 DEF vars, cache
<1> QED
  BY <1>2, <1>3, <1>5, <1>6, <1>7, <1>8 DEF Next, WorkerSteps

LEMMA InitInv == Init => IInv
<1> SUFFICES ASSUME Init PROVE IInv
  OBVIOUS
<1> USE DnsConstants DEF Init
<1>1. Len(queue) = 0 /\ queue \in Seq(Hosts)
  BY EmptySeq
<1>2. Types
  BY <1>1 DEF Types, Cached
<1>3. Cached = {}
  BY DEF Cached
<1>4. CacheBound
  BY <1>3, FS_EmptySet DEF CacheBound
<1>5. RoleInv
  BY <1>1 DEF RoleInv, Leads, Works, Queued
<1>6. ServedInv
  BY DEF ServedInv
<1>7. GenuineInv
  BY DEF GenuineInv
<1> QED
  BY <1>2, <1>4, <1>5, <1>6, <1>7 DEF IInv

LEMMA InvariantStep == IInv /\ [Next]_vars => IInv'
  BY TypeStep, BoundStep, RoleStep, ServedStep, GenuineStep DEF IInv

(* Every reachable state of the resolver satisfies the inductive           *)
(* invariant.                                                              *)
THEOREM Invariance == Spec => []IInv
  BY InitInv, InvariantStep, PTL DEF Spec

-----------------------------------------------------------------------------
(* The sizes that LookupsSound speaks of, from who is where.               *)
LEMMA SizeOfOne ==
    ASSUME NEW S, NEW x, \A y \in S : y = x, x \in S
    PROVE  Cardinality(S) = 1
<1>1. S = {x}
  OBVIOUS
<1> QED
  BY <1>1, FS_Singleton

LEMMA OneLookup == ASSUME IInv PROVE OneLookupPerHost
<1> SUFFICES ASSUME NEW h \in Hosts
             PROVE  Cardinality(Leaders(h)) + Cardinality(Jobs(h)) + Cardinality(Busy(h))
                        = IF in_flight[h] = {} THEN 0 ELSE 1
  BY DEF OneLookupPerHost
<1>0. RoleInv /\ Cardinality({}) = 0
  BY FS_EmptySet DEF IInv
<1>1. /\ \A s : s \in Leaders(h) <=> s \in Strands /\ Leads(s, h)
      /\ \A w : w \in Busy(h) <=> w \in Workers /\ Works(w, h)
  BY DEF Leaders, Busy, Leads, Works
<1>2. \A i : i \in Jobs(h) <=> i \in 1..Len(queue) /\ queue[i] = h
  <2>1. DOMAIN queue = 1..Len(queue)
    BY LenProperties DEF IInv, Types
  <2> QED
    BY <2>1 DEF Jobs
<1>3. CASE in_flight[h] = {}
  <2>1. Leaders(h) = {}
    BY <1>0, <1>1, <1>3 DEF RoleInv
  <2>2. Busy(h) = {}
    BY <1>0, <1>1, <1>3 DEF RoleInv
  <2>3. Jobs(h) = {}
    BY <1>0, <1>2, <1>3 DEF RoleInv
  <2> QED
    BY <1>0, <1>3, <2>1, <2>2, <2>3
<1>4. ASSUME NEW s \in Strands, Leads(s, h), in_flight[h] # {}
      PROVE  Cardinality(Leaders(h)) + Cardinality(Jobs(h)) + Cardinality(Busy(h)) = 1
  <2>1. Jobs(h) = {} /\ Busy(h) = {}
    BY <1>0, <1>1, <1>2, <1>4 DEF RoleInv, Queued
  <2>2. Cardinality(Leaders(h)) = 1
    BY <1>0, <1>1, <1>4, SizeOfOne DEF RoleInv
  <2> QED
    BY <1>0, <2>1, <2>2
<1>5. ASSUME NEW w \in Workers, Works(w, h), in_flight[h] # {}
      PROVE  Cardinality(Leaders(h)) + Cardinality(Jobs(h)) + Cardinality(Busy(h)) = 1
  <2>1. Jobs(h) = {} /\ Leaders(h) = {}
    BY <1>0, <1>1, <1>2, <1>5 DEF RoleInv, Queued
  <2>2. Cardinality(Busy(h)) = 1
    BY <1>0, <1>1, <1>5, SizeOfOne DEF RoleInv
  <2> QED
    BY <1>0, <2>1, <2>2
<1>6. ASSUME Queued(h), in_flight[h] # {}
      PROVE  Cardinality(Leaders(h)) + Cardinality(Jobs(h)) + Cardinality(Busy(h)) = 1
  <2>1. Leaders(h) = {} /\ Busy(h) = {}
    BY <1>0, <1>1, <1>6 DEF RoleInv
  <2>2. PICK i \in 1..Len(queue) : queue[i] = h
    BY <1>6 DEF Queued
  <2>3. i \in Jobs(h) /\ \A j \in Jobs(h) : j = i
    BY <1>0, <1>2, <2>2 DEF RoleInv
  <2>4. Cardinality(Jobs(h)) = 1
    BY <2>3, SizeOfOne
  <2> QED
    BY <1>0, <2>1, <2>4
<1> QED
  BY <1>0, <1>3, <1>4, <1>5, <1>6 DEF RoleInv

LEMMA Served == ASSUME IInv PROVE WaitingIsServed
<1> SUFFICES ASSUME NEW s \in Strands, pc[s] = "wait"
             PROVE  Cardinality({w \in Workers : s \in senders[w]})
                      + Cardinality({l \in Strands : s \in toFail[l]})
                      + (IF s \in in_flight[host[s]] THEN 1 ELSE 0)
                      + (IF reply[s] # None THEN 1 ELSE 0) = 1
  BY DEF WaitingIsServed
<1> DEFINE workers == {w \in Workers : s \in senders[w]}
           failed  == {l \in Strands : s \in toFail[l]}
<1>0. ServedInv /\ Cardinality({}) = 0 /\ host[s] \in Hosts
  BY FS_EmptySet DEF IInv, RoleInv
<1>1. /\ \A w : w \in workers <=> w \in Workers /\ s \in senders[w]
      /\ \A l : l \in failed <=> l \in Strands /\ s \in toFail[l]
  OBVIOUS
<1> SUFFICES Cardinality(workers) + Cardinality(failed)
               + (IF s \in in_flight[host[s]] THEN 1 ELSE 0)
               + (IF reply[s] # None THEN 1 ELSE 0) = 1
  OBVIOUS
<1> HIDE DEF workers, failed
<1>2. ASSUME NEW w \in workers
      PROVE  /\ Cardinality(workers) = 1 /\ failed = {}
             /\ s \notin in_flight[host[s]] /\ reply[s] = None
  <2>1. \A u \in workers : u = w
    BY <1>0, <1>1 DEF ServedInv
  <2>2. Cardinality(workers) = 1
    BY <2>1, SizeOfOne
  <2> QED
    BY <1>0, <1>1, <2>2 DEF ServedInv
<1>3. ASSUME NEW l \in failed
      PROVE  /\ Cardinality(failed) = 1 /\ workers = {}
             /\ s \notin in_flight[host[s]] /\ reply[s] = None
  <2>1. \A k \in failed : k = l
    BY <1>0, <1>1 DEF ServedInv
  <2>2. Cardinality(failed) = 1
    BY <2>1, SizeOfOne
  <2>3. pc[l] = "fail"
    BY <1>0, <1>1 DEF ServedInv
  <2> QED
    BY <1>0, <1>1, <2>2, <2>3 DEF ServedInv
<1>4. CASE workers = {} /\ failed = {}
  <2>1. reply[s] # None \/ s \in in_flight[host[s]]
    BY <1>0, <1>1, <1>4 DEF ServedInv
  <2>2. s \in in_flight[host[s]] => reply[s] = None
    BY <1>0 DEF ServedInv
  <2> QED
    BY <1>0, <1>4, <2>1, <2>2
<1>5. CASE workers # {}
  BY <1>0, <1>2, <1>5
<1>6. CASE failed # {}
  BY <1>0, <1>3, <1>6
<1> QED
  BY <1>4, <1>5, <1>6

(* Whatever order strands, workers and expiries run in: lookups of a host  *)
(* collapse into one, a strand that waits is answered by exactly one, with *)
(* a result for its own host, and the cache stays within CACHE_MAX.        *)
THEOREM ResolverSound == Spec => []LookupsSound
<1>1. ASSUME IInv PROVE LookupsSound
  <2>1. TypeOK
    BY <1>1 DEF IInv, CacheBound, TypeOK
  <2>2. AnswerIsGenuine
    BY <1>1 DEF IInv, GenuineInv, Genuine, AnswerIsGenuine
  <2> QED
    BY <1>1, <2>1, <2>2, OneLookup, Served DEF LookupsSound
<1>2. IInv => LookupsSound
  BY <1>1
<1> QED
  BY <1>2, Invariance, PTL
=============================================================================
