---------------------------------- MODULE Dns ----------------------------------
(***************************************************************************)
(* The resolver of crates/runtime/src/dns.rs.  resolve looks in a cache    *)
(* with a time to live, then attaches to the in-flight entry of the host;  *)
(* the strand that creates the entry is its leader and enqueues one job    *)
(* for a pool of worker threads.  A worker runs getaddrinfo, writes the    *)
(* cache, removes the entry and answers everybody attached to it.  CACHE   *)
(* and IN_FLIGHT have a mutex each and no step holds both.                 *)
(*                                                                         *)
(* getaddrinfo is external: it returns some addresses or none.  A strand   *)
(* blocks on a reply channel of its own.  An empty host name and an IP     *)
(* literal are answered without touching any state.                        *)
(***************************************************************************)
EXTENDS Naturals, Sequences, FiniteSets, Functions

CONSTANTS Strands, Workers, Hosts,
          Addrs,      \* per host, the addresses a lookup of it can return
          Empty,      \* the empty address list
          None,
          CACHE_MAX,
          MaxCalls    \* bound: calls of resolve in a behaviour

AllAddrs == UNION {Addrs[h] : h \in Hosts}

ASSUME DnsConstants ==
    /\ None \notin AllAddrs \cup Hosts /\ Empty \notin AllAddrs /\ Empty # None
    /\ CACHE_MAX \in Nat \ {0} /\ MaxCalls \in Nat

VARIABLES
    entries,    \* CACHE: per host the cached addresses, or None
    stale,      \* the entries that have reached their expiry time
    in_flight,  \* IN_FLIGHT: per host the strands attached; {} is no entry
    queue,      \* JOB_QUEUE: hosts to look up
    poolUp,     \* whether any worker thread could be started
    pc, host,   \* per strand: where it is, and the host it asks for
    reply,      \* its reply channel: an answer, or None
    answer,     \* what its last resolve returned
    toFail,     \* the followers a failed leader has still to answer
    wpc, job, addrs, senders,  \* per worker: where it is, and its locals
    calls,      \* for the bound
    results     \* history: per host what getaddrinfo has returned

cache   == <<entries, stale>>
strand  == <<pc, host, reply, answer, toFail>>
worker  == <<wpc, job, addrs, senders>>
vars    == <<cache, in_flight, queue, poolUp, strand, worker, calls, results>>

Init ==
    /\ entries = [h \in Hosts |-> None]
    /\ stale = {}
    /\ in_flight = [h \in Hosts |-> {}]
    /\ queue = <<>>
    /\ poolUp \in BOOLEAN
    /\ pc = [s \in Strands |-> "idle"]
    /\ host = [s \in Strands |-> None]
    /\ reply = [s \in Strands |-> None]
    /\ answer = [s \in Strands |-> None]
    /\ toFail = [s \in Strands |-> {}]
    /\ wpc = [w \in Workers |-> "recv"]
    /\ job = [w \in Workers |-> None]
    /\ addrs = [w \in Workers |-> None]
    /\ senders = [w \in Workers |-> {}]
    /\ calls = 0
    /\ results = [h \in Hosts |-> {}]

(* CACHE_TTL runs out.                                                     *)
Expire(h) ==
    /\ entries[h] # None
    /\ h \notin stale
    /\ stale' = stale \cup {h}
    /\ UNCHANGED <<entries, in_flight, queue, poolUp, strand, worker, calls, results>>

-----------------------------------------------------------------------------
(* resolve, called by the strand s.                                        *)

Cached == {h \in Hosts : entries[h] # None}
Fresh(h) == entries[h] # None /\ h \notin stale

(* The cache is asked first; a miss removes an expired entry.              *)
CacheGet(s, h) ==
    /\ pc[s] = "idle"
    /\ calls < MaxCalls
    /\ calls' = calls + 1
    /\ host' = [host EXCEPT ![s] = h]
    /\ IF Fresh(h)
       THEN /\ answer' = [answer EXCEPT ![s] = entries[h]]
            /\ UNCHANGED <<cache, pc>>
       ELSE /\ entries' = [entries EXCEPT ![h] = None]
            /\ stale' = stale \ {h}
            /\ pc' = [pc EXCEPT ![s] = "attach"]
            /\ answer' = [answer EXCEPT ![s] = None]
    /\ UNCHANGED <<in_flight, queue, poolUp, reply, toFail, worker, results>>

(* Faulty variant: whoever attaches enqueues.                              *)
AttachAlwaysLeads(s) ==
    /\ pc[s] = "attach"
    /\ in_flight' = [in_flight EXCEPT ![host[s]] = @ \cup {s}]
    /\ pc' = [pc EXCEPT ![s] = "enqueue"]
    /\ UNCHANGED <<cache, queue, poolUp, host, reply, answer, toFail, worker,
                   calls, results>>

(* The first to attach is the leader.                                      *)
Attach(s) ==
    /\ pc[s] = "attach"
    /\ in_flight' = [in_flight EXCEPT ![host[s]] = @ \cup {s}]
    /\ pc' = [pc EXCEPT ![s] = IF in_flight[host[s]] = {} THEN "enqueue" ELSE "wait"]
    /\ UNCHANGED <<cache, queue, poolUp, host, reply, answer, toFail, worker,
                   calls, results>>

Enqueue(s) ==
    /\ pc[s] = "enqueue"
    /\ IF poolUp
       THEN queue' = Append(queue, host[s]) /\ pc' = [pc EXCEPT ![s] = "wait"]
       ELSE UNCHANGED queue /\ pc' = [pc EXCEPT ![s] = "drain"]
    /\ UNCHANGED <<cache, in_flight, poolUp, host, reply, answer, toFail, worker,
                   calls, results>>

(* Faulty variant: the leader gives up without its followers.              *)
DrainAlone(s) ==
    /\ pc[s] = "drain"
    /\ in_flight' = [in_flight EXCEPT ![host[s]] = @ \ {s}]
    /\ toFail' = [toFail EXCEPT ![s] = {s}]
    /\ pc' = [pc EXCEPT ![s] = "fail"]
    /\ UNCHANGED <<cache, queue, poolUp, host, reply, answer, worker, calls, results>>

(* No job was enqueued: the leader takes the entry back ...                *)
Drain(s) ==
    /\ pc[s] = "drain"
    /\ toFail' = [toFail EXCEPT ![s] = in_flight[host[s]]]
    /\ in_flight' = [in_flight EXCEPT ![host[s]] = {}]
    /\ pc' = [pc EXCEPT ![s] = "fail"]
    /\ UNCHANGED <<cache, queue, poolUp, host, reply, answer, worker, calls, results>>

(* ... and answers everybody with the empty list, itself in vain.          *)
Fail(s) ==
    /\ pc[s] = "fail"
    /\ \/ \E f \in toFail[s] :
             /\ reply' = [reply EXCEPT ![f] = IF f = s THEN @ ELSE Empty]
             /\ toFail' = [toFail EXCEPT ![s] = @ \ {f}]
             /\ UNCHANGED <<pc, answer>>
       \/ /\ toFail[s] = {}
          /\ answer' = [answer EXCEPT ![s] = Empty]
          /\ pc' = [pc EXCEPT ![s] = "idle"]
          /\ UNCHANGED <<reply, toFail>>
    /\ UNCHANGED <<cache, in_flight, queue, poolUp, host, worker, calls, results>>

Receive(s) ==
    /\ pc[s] = "wait"
    /\ reply[s] # None
    /\ answer' = [answer EXCEPT ![s] = reply[s]]
    /\ reply' = [reply EXCEPT ![s] = None]
    /\ pc' = [pc EXCEPT ![s] = "idle"]
    /\ UNCHANGED <<cache, in_flight, queue, poolUp, host, toFail, worker, calls, results>>

-----------------------------------------------------------------------------
(* worker_loop of the worker w.                                            *)

WorkerReceive(w) ==
    /\ poolUp
    /\ wpc[w] = "recv"
    /\ queue # <<>>
    /\ job' = [job EXCEPT ![w] = Head(queue)]
    /\ queue' = Tail(queue)
    /\ wpc' = [wpc EXCEPT ![w] = "lookup"]
    /\ UNCHANGED <<cache, in_flight, poolUp, strand, addrs, senders, calls, results>>

(* resolve_blocking; a failed lookup is not cached.                        *)
Lookup(w) ==
    /\ wpc[w] = "lookup"
    /\ \E a \in Addrs[job[w]] \cup {Empty} :
          /\ addrs' = [addrs EXCEPT ![w] = a]
          /\ results' = [results EXCEPT ![job[w]] = @ \cup {a}]
          /\ wpc' = [wpc EXCEPT ![w] = IF a = Empty THEN "remove" ELSE "put"]
    /\ UNCHANGED <<cache, in_flight, queue, poolUp, strand, job, senders, calls>>

(* What put leaves in the cache of host h, if k is the entry it evicts.    *)
PutEvicting(w, h, k) ==
    /\ entries' = [g \in Hosts |-> IF g = h THEN addrs[w]
                                   ELSE IF g = k THEN None ELSE entries[g]]
    /\ stale' = stale \ {h, k}

(* Faulty variant: the full cache is noticed one entry late.               *)
CachePutLate(w) ==
    /\ wpc[w] = "put"
    /\ \/ /\ Cardinality(Cached) > CACHE_MAX
          /\ \E k \in Cached : PutEvicting(w, job[w], k)
       \/ /\ Cardinality(Cached) <= CACHE_MAX
          /\ PutEvicting(w, job[w], None)
    /\ wpc' = [wpc EXCEPT ![w] = "remove"]
    /\ UNCHANGED <<in_flight, queue, poolUp, strand, job, addrs, senders, calls, results>>

(* Faulty variant: a full cache reuses an entry, under its old key.        *)
CachePutReusing(w) ==
    /\ wpc[w] = "put"
    /\ \/ /\ Cardinality(Cached) >= CACHE_MAX
          /\ \E k \in Cached : PutEvicting(w, k, None)
       \/ /\ Cardinality(Cached) < CACHE_MAX
          /\ PutEvicting(w, job[w], None)
    /\ wpc' = [wpc EXCEPT ![w] = "remove"]
    /\ UNCHANGED <<in_flight, queue, poolUp, strand, job, addrs, senders, calls, results>>

(* DnsCache::put: a full cache loses an arbitrary entry first, also when   *)
(* the host was already in it.                                             *)
CachePut(w) ==
    /\ wpc[w] = "put"
    /\ \/ /\ Cardinality(Cached) >= CACHE_MAX
          /\ \E k \in Cached : PutEvicting(w, job[w], k)
       \/ /\ Cardinality(Cached) < CACHE_MAX
          /\ PutEvicting(w, job[w], None)
    /\ wpc' = [wpc EXCEPT ![w] = "remove"]
    /\ UNCHANGED <<in_flight, queue, poolUp, strand, job, addrs, senders, calls, results>>

(* Faulty variant: the attached strands are read, the entry is left.       *)
ReadEntry(w) ==
    /\ wpc[w] = "remove"
    /\ senders' = [senders EXCEPT ![w] = in_flight[job[w]]]
    /\ wpc' = [wpc EXCEPT ![w] = "fanout"]
    /\ UNCHANGED <<cache, in_flight, queue, poolUp, strand, job, addrs, calls, results>>

RemoveEntry(w) ==
    /\ wpc[w] = "remove"
    /\ senders' = [senders EXCEPT ![w] = in_flight[job[w]]]
    /\ in_flight' = [in_flight EXCEPT ![job[w]] = {}]
    /\ wpc' = [wpc EXCEPT ![w] = "fanout"]
    /\ UNCHANGED <<cache, queue, poolUp, strand, job, addrs, calls, results>>

(* Answer the attached strands one by one, then wait for the next job.     *)
FanOut(w) ==
    /\ wpc[w] = "fanout"
    /\ \/ \E s \in senders[w] :
             /\ reply' = [reply EXCEPT ![s] = addrs[w]]
             /\ senders' = [senders EXCEPT ![w] = @ \ {s}]
             /\ UNCHANGED <<wpc, job, addrs>>
       \/ /\ senders[w] = {}
          /\ wpc' = [wpc EXCEPT ![w] = "recv"]
          /\ job' = [job EXCEPT ![w] = None]
          /\ addrs' = [addrs EXCEPT ![w] = None]
          /\ UNCHANGED <<reply, senders>>
    /\ UNCHANGED <<cache, in_flight, queue, poolUp, pc, host, answer, toFail, calls, results>>

-----------------------------------------------------------------------------
StrandSteps(s) ==
    Attach(s) \/ Enqueue(s) \/ Drain(s) \/ Fail(s) \/ Receive(s)

WorkerSteps(w) ==
    \/ WorkerReceive(w) \/ CachePut(w) \/ RemoveEntry(w) \/ FanOut(w)
    \/ Lookup(w)

Next ==
    \/ \E h \in Hosts : Expire(h)
    \/ \E s \in Strands : StrandSteps(s) \/ \E h \in Hosts : CacheGet(s, h)
    \/ \E w \in Workers : WorkerSteps(w)

(* Strands and worker threads are scheduled, and getaddrinfo returns.      *)
Fairness ==
    /\ \A s \in Strands : WF_vars(StrandSteps(s))
    /\ \A w \in Workers : WF_vars(WorkerSteps(w))

Spec == Init /\ [][Next]_vars
FairSpec == Spec /\ Fairness

-----------------------------------------------------------------------------
(* Every variable has its type and the cache stays within CACHE_MAX.       *)
Types ==
    /\ entries \in [Hosts -> AllAddrs \cup {None}]
    /\ stale \subseteq Cached
    /\ in_flight \in [Hosts -> SUBSET Strands]
    /\ queue \in Seq(Hosts)
    /\ poolUp \in BOOLEAN
    /\ pc \in [Strands -> {"idle", "attach", "enqueue", "drain", "fail", "wait"}]
    /\ host \in [Strands -> Hosts \cup {None}]
    /\ reply \in [Strands -> AllAddrs \cup {Empty, None}]
    /\ answer \in [Strands -> AllAddrs \cup {Empty, None}]
    /\ toFail \in [Strands -> SUBSET Strands]
    /\ wpc \in [Workers -> {"recv", "lookup", "put", "remove", "fanout"}]
    /\ job \in [Workers -> Hosts \cup {None}]
    /\ addrs \in [Workers -> AllAddrs \cup {Empty, None}]
    /\ senders \in [Workers -> SUBSET Strands]
    /\ calls \in 0..MaxCalls
    /\ results \in [Hosts -> SUBSET (AllAddrs \cup {Empty})]

TypeOK == Types /\ Cardinality(Cached) <= CACHE_MAX

(* Who is responsible for the in-flight entry of h: its leader before the  *)
(* enqueue, a job in the queue, or a worker that has not yet removed it.   *)
Leaders(h) == {s \in Strands : pc[s] \in {"enqueue", "drain"} /\ host[s] = h}
Jobs(h)    == {i \in DOMAIN queue : queue[i] = h}
Busy(h)    == {w \in Workers : wpc[w] \in {"lookup", "put", "remove"} /\ job[w] = h}

(* Concurrent lookups of a host collapse: its in-flight entry exists       *)
(* exactly while one leader, job or worker is responsible for it, and      *)
(* there are never two.                                                    *)
OneLookupPerHost ==
    \A h \in Hosts :
        Cardinality(Leaders(h)) + Cardinality(Jobs(h)) + Cardinality(Busy(h))
            = IF in_flight[h] = {} THEN 0 ELSE 1

(* A strand that waits for its reply is never forgotten and never answered *)
(* twice: it is attached to its host's entry, or in the hands of exactly   *)
(* one who will answer, or has its answer.                                 *)
WaitingIsServed ==
    \A s \in Strands : pc[s] = "wait" =>
        LET workers == {w \in Workers : s \in senders[w]}
            failed  == {l \in Strands : s \in toFail[l]}
        IN  Cardinality(workers) + Cardinality(failed)
              + (IF s \in in_flight[host[s]] THEN 1 ELSE 0)
              + (IF reply[s] # None THEN 1 ELSE 0) = 1

(* No answer is made up or mixed up between hosts: what resolve returns is *)
(* a result of getaddrinfo for that very host, unless no worker exists.    *)
AnswerIsGenuine ==
    \A s \in Strands : answer[s] # None =>
        answer[s] \in results[host[s]] \/ (~poolUp /\ answer[s] = Empty)

(* Concurrent lookups of a host collapse into one, whoever waits for it is *)
(* answered by exactly one, with a result for that very host, and the      *)
(* cache stays within its limit.                                           *)
LookupsSound == TypeOK /\ OneLookupPerHost /\ WaitingIsServed /\ AnswerIsGenuine

(* Every resolve returns, whoever leads, follows or fails.                 *)
ResolveReturns ==
    \A s \in Strands : pc[s] # "idle" ~> pc[s] = "idle"

(* "Late arrivers that come in after the fanout pop see the freshly-       *)
(* written cache and short-circuit without ever touching the in-flight     *)
(* map": no job waits for a host whose answer is in the cache.             *)
LateArriverHitsCache ==
    \A h \in Hosts : Fresh(h) => Jobs(h) = {}
=============================================================================
