------------------------------ MODULE HttpClient ------------------------------
(***************************************************************************)
(* The HTTP client of crates/runtime/src/http_client: requests of several  *)
(* strands over a pool of idle keep-alive connections.  The pool's mutex   *)
(* makes checkout and release one step each; everything between them       *)
(* yields.                                                                 *)
(*                                                                         *)
(* The server answers the requests of a connection in order and frames its *)
(* responses correctly; it may close a connection at any time, and what it *)
(* has sent may be seen late.  Messages are named by the request they      *)
(* belong to.                                                              *)
(***************************************************************************)
EXTENDS Naturals, Sequences, FiniteSets, Functions

CONSTANTS Strands,
          Methods,        \* of "GET", "POST", "PUT", "DELETE"
          Keys,           \* (scheme, host, port)
          Conns,
          None,
          SafeAddrs, PrivateAddrs,  \* what is_dangerous_ip tells apart
          MAX_PER_HOST, MAX_GLOBAL, IDLE_TIMEOUT,
          MaxCalls        \* bound: requests of one strand

Addrs == SafeAddrs \cup PrivateAddrs

(* What the proofs need of the constants: a connection is not None, a      *)
(* process has finitely many of them, and the limits are numbers.          *)
PoolAssumptions ==
    /\ None \notin Conns
    /\ IsFiniteSet(Conns)
    /\ MAX_PER_HOST \in Nat /\ MAX_GLOBAL \in Nat /\ IDLE_TIMEOUT \in Nat

VARIABLES
    idle,      \* per key, the pooled connections, the one returned last in front
    total,     \* the pool's count of them
    age,       \* time since a pooled connection was returned
    peer,      \* "unused", "open", "closing" (not seen yet), "readable" (seen)
    at,        \* the address a connection was dialled to
    asked,     \* per connection, requests the server has not answered
    replies,   \* per connection, responses not read yet
    pc, req, conn,
    from_pool, \* the request's first connection came from the pool
    keep,      \* keep_alive of the response just read
    answer,    \* the response map the program got
    calls,
    sends,     \* of the current call: requests completely written
    dials      \* of the current call: fresh dials

pool    == <<idle, total, age>>
network == <<peer, at, asked, replies>>
strand  == <<pc, req, conn, from_pool, keep, answer, calls, sends, dials>>
vars    == <<pool, network, strand>>

NoReq == [method |-> "GET", key |-> None, addrs |-> {}, ct |-> TRUE]

(* The answers that are no response of a server.                           *)
NoAnswer == <<"none", 0>>
Refused  == <<"refused", 0>>
Error    == <<"error", 0>>

Init ==
    /\ idle = [k \in Keys |-> <<>>]
    /\ total = 0
    /\ age = [c \in Conns |-> 0]
    /\ peer = [c \in Conns |-> "unused"]
    /\ at = [c \in Conns |-> None]
    /\ asked = [c \in Conns |-> <<>>]
    /\ replies = [c \in Conns |-> <<>>]
    /\ pc = [s \in Strands |-> "idle"]
    /\ req = [s \in Strands |-> NoReq]
    /\ conn = [s \in Strands |-> None]
    /\ from_pool = [s \in Strands |-> FALSE]
    /\ keep = [s \in Strands |-> FALSE]
    /\ answer = [s \in Strands |-> NoAnswer]
    /\ calls = [s \in Strands |-> 0]
    /\ sends = [s \in Strands |-> 0]
    /\ dials = [s \in Strands |-> 0]

Tag(s) == <<s, calls[s]>>
is_idempotent(m) == m \in {"GET", "PUT", "DELETE"}

(* Dropping a connection closes the socket; whatever is still under way on *)
(* it is lost.  The model uses its name again.                             *)
Drop(C) ==
    /\ peer' = [c \in Conns |-> IF c \in C THEN "unused" ELSE peer[c]]
    /\ at' = [c \in Conns |-> IF c \in C THEN None ELSE at[c]]
    /\ asked' = [c \in Conns |-> IF c \in C THEN <<>> ELSE asked[c]]
    /\ replies' = [c \in Conns |-> IF c \in C THEN <<>> ELSE replies[c]]

Answer(s, a) ==
    /\ answer' = [answer EXCEPT ![s] = a]
    /\ pc' = [pc EXCEPT ![s] = "idle"]

-----------------------------------------------------------------------------
(* net.http.get, post, put and delete: validate_url resolves the host and  *)
(* refuses it if one of its addresses is private; no address is an error   *)
(* too.  The addresses are the ones dialled later.                         *)
Request(s, m, k, A, ct) ==
    /\ pc[s] = "idle" /\ calls[s] < MaxCalls
    /\ m \in {"GET", "DELETE"} => ct
    /\ calls' = [calls EXCEPT ![s] = @ + 1]
    /\ sends' = [sends EXCEPT ![s] = 0]
    /\ dials' = [dials EXCEPT ![s] = 0]
    /\ from_pool' = [from_pool EXCEPT ![s] = FALSE]
    /\ \/ /\ A = {} \/ A \cap PrivateAddrs # {}
          /\ req' = [req EXCEPT ![s] = NoReq]
          /\ Answer(s, Refused)
       \/ /\ A # {} /\ A \cap PrivateAddrs = {}
          /\ req' = [req EXCEPT ![s] = [method |-> m, key |-> k, addrs |-> A, ct |-> ct]]
          /\ answer' = [answer EXCEPT ![s] = NoAnswer]
          /\ pc' = [pc EXCEPT ![s] = "checkout"]
    /\ UNCHANGED <<pool, network, conn, keep>>

(* is_reusable: the poll finds nothing to read and no error.               *)
is_reusable(c) == peer[c] \in {"open", "closing"} /\ replies[c] = <<>>

Usable(c) == age[c] <= IDLE_TIMEOUT /\ is_reusable(c)

(* checkout pops entries from the front until one is usable and drops the  *)
(* others on its way.                                                      *)
Checkout(s) ==
    LET k == req[s].key
        q == idle[k]
        popped == IF \E i \in DOMAIN q : Usable(q[i])
                  THEN CHOOSE i \in DOMAIN q :
                           Usable(q[i]) /\ \A j \in 1..(i - 1) : ~Usable(q[j])
                  ELSE Len(q)
        found == popped > 0 /\ Usable(q[popped])
        gone == {q[i] : i \in 1..popped} \ (IF found THEN {q[popped]} ELSE {})
    IN  /\ pc[s] = "checkout"
        /\ idle' = [idle EXCEPT ![k] = SubSeq(q, popped + 1, Len(q))]
        /\ total' = IF total >= popped THEN total - popped ELSE 0
        /\ Drop(gone)
        /\ conn' = [conn EXCEPT ![s] = IF found THEN q[popped] ELSE None]
        /\ from_pool' = [from_pool EXCEPT ![s] = found]
        /\ pc' = [pc EXCEPT ![s] = IF found THEN "write" ELSE "dial"]
        /\ UNCHANGED <<age, req, keep, answer, calls, sends, dials>>

(* Faulty variant: the host is resolved again for the dial.                *)
DialResolves(s) ==
    /\ pc[s] \in {"dial", "redial"}
    /\ dials' = [dials EXCEPT ![s] = @ + 1]
    /\ \/ \E c \in Conns, a \in Addrs :
             /\ peer[c] = "unused"
             /\ peer' = [peer EXCEPT ![c] = "open"]
             /\ at' = [at EXCEPT ![c] = a]
             /\ conn' = [conn EXCEPT ![s] = c]
             /\ pc' = [pc EXCEPT ![s] = "write"]
             /\ UNCHANGED <<asked, replies, answer>>
       \/ Answer(s, Error) /\ UNCHANGED <<network, conn>>
    /\ UNCHANGED <<pool, req, from_pool, keep, calls, sends>>

(* dial_fresh, TCP and for https the handshake.                            *)
Dial(s) ==
    /\ pc[s] \in {"dial", "redial"}
    /\ dials' = [dials EXCEPT ![s] = @ + 1]
    /\ \/ \E c \in Conns, a \in req[s].addrs :
             /\ peer[c] = "unused"
             /\ peer' = [peer EXCEPT ![c] = "open"]
             /\ at' = [at EXCEPT ![c] = a]
             /\ conn' = [conn EXCEPT ![s] = c]
             /\ pc' = [pc EXCEPT ![s] = "write"]
             /\ UNCHANGED <<asked, replies, answer>>
       \/ Answer(s, Error) /\ UNCHANGED <<network, conn>>
    /\ UNCHANGED <<pool, req, from_pool, keep, calls, sends>>

(* run_once has failed and dropped the stream: again says whether the      *)
(* request is sent once more.                                              *)
FailedThen(s, again) ==
    /\ Drop({conn[s]})
    /\ conn' = [conn EXCEPT ![s] = None]
    /\ \/ /\ again
          /\ pc' = [pc EXCEPT ![s] = "redial"]
          /\ UNCHANGED answer
       \/ /\ ~again
          /\ Answer(s, Error)
    /\ UNCHANGED keep

(* Faulty variants: the connection goes back to the pool; a POST is sent   *)
(* again; a stale connection fails the request; retries do not end.        *)
FailedReleases(s) ==
    /\ pc' = [pc EXCEPT ![s] = "release"]
    /\ keep' = [keep EXCEPT ![s] = TRUE]
    /\ UNCHANGED <<conn, answer, network>>

FailedRetries(s) == FailedThen(s, from_pool[s] /\ dials[s] = 0)
FailedGivesUp(s) == FailedThen(s, FALSE)
FailedAgain(s)   == FailedThen(s, from_pool[s] /\ is_idempotent(req[s].method))

(* A request that may be repeated is, once and on a fresh connection, if   *)
(* the one that failed was pooled.                                         *)
Failed(s) ==
    FailedThen(s, from_pool[s] /\ dials[s] = 0 /\ is_idempotent(req[s].method))

(* write_request.  A refused Content-Type fails before the first byte; a   *)
(* failed write may nevertheless have reached the server.                  *)
Write(s) ==
    /\ pc[s] = "write" /\ req[s].ct
    /\ asked' = [asked EXCEPT ![conn[s]] = Append(@, Tag(s))]
    /\ sends' = [sends EXCEPT ![s] = @ + 1]
    /\ pc' = [pc EXCEPT ![s] = "read"]
    /\ UNCHANGED <<pool, peer, at, replies, req, conn, from_pool, keep, answer, calls, dials>>

WriteFails(s) ==
    /\ pc[s] = "write"
    /\ Failed(s)
    /\ \E n \in IF req[s].ct THEN {0, 1} ELSE {0} : sends' = [sends EXCEPT ![s] = @ + n]
    /\ UNCHANGED <<pool, req, from_pool, calls, dials>>

(* read_response: an error, an EOF or the per-operation timeout, which may *)
(* come before the response does ...                                       *)
ReadFails(s) ==
    /\ pc[s] = "read"
    /\ Failed(s)
    /\ UNCHANGED <<pool, req, from_pool, calls, sends, dials>>

(* ... or a response.  Its headers say how the body ends: by chunks, by    *)
(* one of `lengths' different Content-Lengths, or with the connection.     *)
Headers == [close : BOOLEAN, chunked : BOOLEAN, lengths : 0..2]
Acceptable(h) == h.lengths <= 1 /\ ~(h.chunked /\ h.lengths > 0)
keep_alive(h) == ~h.close /\ (h.chunked \/ h.lengths > 0)

ReadOk(s, h) ==
    LET c == conn[s] IN
    /\ pc[s] = "read" /\ replies[c] # <<>> /\ Acceptable(h)
    /\ replies' = [replies EXCEPT ![c] = Tail(@)]
    /\ answer' = [answer EXCEPT ![s] = Head(replies[c])]
    /\ keep' = [keep EXCEPT ![s] = keep_alive(h)]
    /\ pc' = [pc EXCEPT ![s] = "release"]
    /\ UNCHANGED <<pool, peer, at, asked, req, conn, from_pool, calls, sends, dials>>

(* The connection is pooled, or the ones in C are dropped.                 *)
ReleaseIf(s, fits, C) ==
    LET k == req[s].key  c == conn[s] IN
    /\ pc[s] = "release"
    /\ \/ /\ fits
          /\ idle' = [idle EXCEPT ![k] = <<c>> \o @]
          /\ total' = total + 1
          /\ age' = [age EXCEPT ![c] = 0]
          /\ UNCHANGED network
       \/ /\ ~fits
          /\ Drop(C)
          /\ UNCHANGED pool
    /\ conn' = [conn EXCEPT ![s] = None]
    /\ keep' = [keep EXCEPT ![s] = FALSE]
    /\ pc' = [pc EXCEPT ![s] = "idle"]
    /\ UNCHANGED <<req, from_pool, answer, calls, sends, dials>>

(* The two caps, the global one first.                                     *)
Fits(s) == total < MAX_GLOBAL /\ Len(idle[req[s].key]) < MAX_PER_HOST

(* Faulty variants: the global cap is not looked at; a connection that     *)
(* does not fit is forgotten without being closed.                         *)
ReleaseUncapped(s) == ReleaseIf(s, keep[s] /\ Len(idle[req[s].key]) < MAX_PER_HOST, {conn[s]})
ReleaseLeaks(s) == ReleaseIf(s, keep[s] /\ Fits(s), {})

(* release: pooled unless a cap is reached, else dropped.                  *)
Release(s) == ReleaseIf(s, keep[s] /\ Fits(s), {conn[s]})

-----------------------------------------------------------------------------
(* The environment: the server, the network and the clock.                 *)
Serve(c) ==
    /\ asked[c] # <<>> /\ peer[c] = "open"
    /\ replies' = [replies EXCEPT ![c] = Append(@, Head(asked[c]))]
    /\ asked' = [asked EXCEPT ![c] = Tail(@)]
    /\ UNCHANGED <<pool, strand, peer, at>>

PeerCloses(c) ==
    /\ peer[c] = "open"
    /\ peer' = [peer EXCEPT ![c] = "closing"]
    /\ UNCHANGED <<pool, strand, at, asked, replies>>

CloseArrives(c) ==
    /\ peer[c] = "closing"
    /\ peer' = [peer EXCEPT ![c] = "readable"]
    /\ UNCHANGED <<pool, strand, at, asked, replies>>

TimePasses ==
    /\ \E k \in Keys : \E i \in DOMAIN idle[k] : age[idle[k][i]] <= IDLE_TIMEOUT
    /\ age' = [c \in Conns |-> IF /\ age[c] <= IDLE_TIMEOUT
                                  /\ \E k \in Keys : c \in Range(idle[k])
                               THEN age[c] + 1 ELSE age[c]]
    /\ UNCHANGED <<idle, total, network, strand>>

Next ==
    \/ \E s \in Strands :
          \/ \E m \in Methods, k \in Keys, A \in SUBSET Addrs, ct \in BOOLEAN :
                Request(s, m, k, A, ct)
          \/ Checkout(s) \/ Dial(s)
          \/ Write(s) \/ WriteFails(s)
          \/ ReadFails(s) \/ \E h \in Headers : ReadOk(s, h)
          \/ Release(s)
    \/ \E c \in Conns : Serve(c) \/ PeerCloses(c) \/ CloseArrives(c)
    \/ TimePasses

Spec == Init /\ [][Next]_vars

-----------------------------------------------------------------------------
(* The requests that validate_url lets through.                            *)
Requests == [method : Methods, key : Keys, addrs : SUBSET SafeAddrs, ct : BOOLEAN]

(* The types of the pool, the connections and the requests of             *)
(* perform_validated.                                                      *)
TypeOK ==
    /\ idle \in [Keys -> Seq(Conns)] /\ total \in Nat
    /\ age \in [Conns -> 0..(IDLE_TIMEOUT + 1)]
    /\ peer \in [Conns -> {"unused", "open", "closing", "readable"}]
    /\ at \in [Conns -> Addrs \cup {None}]
    /\ pc \in [Strands -> {"idle", "checkout", "dial", "redial", "write", "read", "release"}]
    /\ req \in [Strands -> Requests \cup {NoReq}]
    /\ conn \in [Strands -> Conns \cup {None}]
    /\ \A s \in Strands : conn[s] = None <=> pc[s] \in {"idle", "checkout", "dial", "redial"}
    /\ sends \in [Strands -> 0..2] /\ dials \in [Strands -> 0..1]

Pooled == UNION {Range(idle[k]) : k \in Keys}

(* The caps hold and the count that enforces them is exact, however        *)
(* checkouts and releases of several strands interleave.                   *)
PoolBounded ==
    /\ total = Cardinality(Pooled)
    /\ total <= MAX_GLOBAL
    /\ \A k \in Keys : Len(idle[k]) <= MAX_PER_HOST

(* An open connection is in one place, a pool position or one strand's     *)
(* hands; nothing is shared and nothing is left open out of reach.         *)
OneOwner ==
    /\ \A c \in Conns : peer[c] # "unused" <=> c \in Pooled \/ \E s \in Strands : conn[s] = c
    /\ \A s \in Strands : conn[s] \notin Pooled
    /\ \A s, t \in Strands : conn[s] = conn[t] /\ conn[s] # None => s = t
    /\ \A k, l \in Keys : \A i \in DOMAIN idle[k], j \in DOMAIN idle[l] :
            idle[k][i] = idle[l][j] => k = l /\ i = j

(* The answer of a request is the response to that request, also when an   *)
(* earlier user of the connection gave up waiting for his.                 *)
AnswerIsOwn ==
    \A s \in Strands : answer[s] \in {NoAnswer, Refused, Error, Tag(s)}

(* Every connection, pooled ones included, goes to an address that         *)
(* validate_url has approved: the list that was checked is the one that is *)
(* dialled, however the host's records change in between.                  *)
OnlyApproved == \A c \in Conns : peer[c] # "unused" => at[c] \in SafeAddrs

(* What the pool promises, whatever the strands, the servers and the clock *)
(* do between a checkout and the release.                                  *)
PoolSound == TypeOK /\ PoolBounded /\ OneOwner /\ AnswerIsOwn /\ OnlyApproved

(* A POST reaches the server at most once; another method twice at most,   *)
(* and then only because its first connection was a pooled one.            *)
SentOnce ==
    \A s \in Strands : sends[s] = 2 => from_pool[s] /\ is_idempotent(req[s].method)

(* A pooled connection that turns out dead costs an idempotent request     *)
(* nothing: it fails only after a fresh dial.                              *)
StaleIsInvisible ==
    \A s \in Strands :
        answer[s] = Error /\ is_idempotent(req[s].method) => dials[s] = 1

(* What the retry of perform_validated promises: a request with effects is *)
(* not repeated, and a dead pooled connection is not the caller's error.   *)
ReplaySafe == (\A s \in Strands : sends[s] <= 2) /\ SentOnce /\ StaleIsInvisible
=============================================================================
