------------------------------ MODULE HttpProofs ------------------------------
(***************************************************************************)
(* Proofs about HttpClient, for any number of strands, hosts, connections  *)
(* and requests and any caps of the pool.                                  *)
(*                                                                         *)
(* PoolSound and ReplaySafe are not inductive.  ExchangeInv says what is   *)
(* under way on a connection, from its owner's state: nothing at all       *)
(* unless the owner waits for its response, so no one can be handed the    *)
(* response to another's request.  AttemptInv says how often a request can *)
(* have been written where its strand stands.                              *)
(***************************************************************************)
EXTENDS MCHttpClient, FiniteSetTheorems, SequenceTheorems, WellFoundedInduction, TLAPS

Tags == Strands \X Nat

(* The state that TypeOK leaves out, and what a strand at work has been    *)
(* asked for.                                                              *)
Types ==
    /\ idle \in [Keys -> Seq(Conns)] /\ total \in Nat
    /\ age \in [Conns -> 0..(IDLE_TIMEOUT + 1)]
    /\ peer \in [Conns -> {"unused", "open", "closing", "readable"}]
    /\ at \in [Conns -> Addrs \cup {None}]
    /\ asked \in [Conns -> Seq(Tags)] /\ replies \in [Conns -> Seq(Tags)]
    /\ pc \in [Strands -> {"idle", "checkout", "dial", "redial", "write", "read", "release"}]
    /\ req \in [Strands -> Requests \cup {NoReq}]
    /\ conn \in [Strands -> Conns \cup {None}]
    /\ from_pool \in [Strands -> BOOLEAN] /\ keep \in [Strands -> BOOLEAN]
    /\ answer \in [Strands -> {NoAnswer, Refused, Error} \cup Tags]
    /\ calls \in [Strands -> Nat] /\ sends \in [Strands -> Nat] /\ dials \in [Strands -> Nat]

ControlInv ==
    \A s \in Strands :
        /\ conn[s] = None <=> pc[s] \in {"idle", "checkout", "dial", "redial"}
        /\ pc[s] # "idle" => req[s] \in Requests

(* Nothing is under way on a connection that nobody waits on, and on one   *)
(* that is read only the reader's own request or its response.             *)
Quiet(c) == asked[c] = <<>> /\ replies[c] = <<>>

Exchange(s) ==
    /\ pc[s] \in {"write", "release"} => Quiet(conn[s])
    /\ pc[s] = "read" =>
          \/ asked[conn[s]] = <<Tag(s)>> /\ replies[conn[s]] = <<>>
          \/ asked[conn[s]] = <<>> /\ replies[conn[s]] = <<Tag(s)>>

ExchangeInv ==
    /\ \A c \in Conns : peer[c] = "unused" \/ c \in Pooled => Quiet(c)
    /\ \A s \in Strands : Exchange(s)

(* How often the current request has been dialled for and written: on a    *)
(* pooled connection once, and once more on a fresh one if it may be.      *)
Again(s) == from_pool[s] /\ is_idempotent(req[s].method)

Attempt(s) ==
    /\ pc[s] \in {"checkout", "dial"} => sends[s] = 0 /\ dials[s] = 0 /\ ~from_pool[s]
    /\ pc[s] = "redial" => Again(s) /\ sends[s] <= 1 /\ dials[s] = 0
    /\ pc[s] = "write" =>
          \/ dials[s] = 0 /\ sends[s] = 0 /\ from_pool[s]
          \/ dials[s] = 1 /\ sends[s] = 0 /\ (from_pool[s] => Again(s))
          \/ dials[s] = 1 /\ sends[s] = 1 /\ Again(s)
    /\ pc[s] \in {"read", "release"} =>
          \/ dials[s] = 0 /\ sends[s] = 1 /\ from_pool[s]
          \/ dials[s] = 1 /\ sends[s] = 1 /\ (from_pool[s] => Again(s))
          \/ dials[s] = 1 /\ sends[s] = 2 /\ Again(s)
    /\ sends[s] <= 2 /\ dials[s] <= 1
    /\ sends[s] = 2 => Again(s)

AttemptInv == \A s \in Strands : Attempt(s)

(* Before its response a request has no answer, and then its own.          *)
Answered(s) ==
    /\ pc[s] \notin {"idle", "release"} => answer[s] = NoAnswer
    /\ pc[s] = "release" => answer[s] = Tag(s)
    /\ answer[s] \in {NoAnswer, Refused, Error, Tag(s)}
    /\ answer[s] = Error /\ is_idempotent(req[s].method) => dials[s] = 1
    /\ pc[s] # "idle" => calls[s] > 0

AnswerInv == \A s \in Strands : Answered(s)

IInv ==
    /\ Types /\ ControlInv /\ OneOwner /\ PoolBounded /\ OnlyApproved
    /\ ExchangeInv /\ AttemptInv /\ AnswerInv

-----------------------------------------------------------------------------
(* The pool, read position by position.                                    *)
LEMMA PoolOf ==
    ASSUME NEW f \in [Keys -> Seq(Conns)]
    PROVE  \A c : c \in UNION {Range(f[k]) : k \in Keys}
                   <=> \E k \in Keys : \E i \in 1..Len(f[k]) : f[k][i] = c
<1>1. \A k \in Keys : f[k] \in Seq(Conns) /\ DOMAIN f[k] = 1..Len(f[k])
  OBVIOUS
<1>2. \A k \in Keys : \A c : c \in Range(f[k]) <=> \E i \in 1..Len(f[k]) : f[k][i] = c
  BY <1>1, Zenon DEF Range
<1>3. \A c : c \in UNION {Range(f[k]) : k \in Keys} <=> \E k \in Keys : c \in Range(f[k])
  OBVIOUS
<1> QED
  BY <1>2, <1>3

(* A set of natural numbers has a least member.                            *)
LEMMA LeastOf ==
    ASSUME NEW S \in SUBSET Nat, S # {}
    PROVE  \E m \in S : \A i \in S : m <= i
<1>1. \E m \in S : \A i \in S : ~(<<i, m>> \in OpToRel(<, Nat))
  BY NatLessThanWellFounded, WFMin
<1>2. \A i, m \in Nat : i < m => <<i, m>> \in OpToRel(<, Nat)
  BY DEF OpToRel
<1>3. PICK m \in S : \A i \in S : ~(<<i, m>> \in OpToRel(<, Nat))
  BY <1>1
<1>4. \A i \in S : ~(i < m)
  BY <1>2, <1>3
<1> QED
  BY <1>4

(* Distinct entries make as many connections as there are positions.       *)
LEMMA FrontSize ==
    ASSUME NEW q \in Seq(Conns), NEW n \in Nat, n <= Len(q),
           \A i, j \in 1..Len(q) : q[i] = q[j] => i = j
    PROVE  IsFiniteSet({q[i] : i \in 1..n}) /\ Cardinality({q[i] : i \in 1..n}) = n
<1> DEFINE P == {q[i] : i \in 1..n}
           f == [i \in 1..n |-> q[i]]
<1>1. f \in Surjection(1..n, P) /\ f \in Injection(1..n, P)
  BY DEF Surjection, Injection, IsInjective
<1>2. IsFiniteSet(1..n) /\ Cardinality(1..n) = n
  BY FS_Interval
<1> HIDE DEF P, f
<1>3. IsFiniteSet(P) /\ Cardinality(P) = n
  BY <1>1, <1>2, FS_Surjection
<1> QED
  BY <1>3 DEF P

(* What a checkout does, with n for the entries it pops, G for the ones it *)
(* drops and c for the one it keeps, if any.                               *)
CheckoutTo(s, n, c, G) ==
    LET k == req[s].key  q == idle[k] IN
    /\ pc[s] = "checkout"
    /\ n <= Len(q)
    /\ idle' = [idle EXCEPT ![k] = SubSeq(q, n + 1, Len(q))]
    /\ total' = IF total >= n THEN total - n ELSE 0
    /\ Drop(G)
    /\ conn' = [conn EXCEPT ![s] = c]
    /\ from_pool' = [from_pool EXCEPT ![s] = (c # None)]
    /\ pc' = [pc EXCEPT ![s] = IF c # None THEN "write" ELSE "dial"]
    /\ UNCHANGED <<age, req, keep, answer, calls, sends, dials>>
    /\ c # None => n > 0 /\ c = q[n]
    /\ \A d : d \in G <=> d # c /\ \E i \in 1..n : q[i] = d

LEMMA CheckoutFacts ==
    ASSUME PoolAssumptions, Types, ControlInv, NEW s \in Strands, Checkout(s)
    PROVE  /\ req[s].key \in Keys
           /\ \E n \in Nat, c \in Conns \cup {None}, G \in SUBSET Conns : CheckoutTo(s, n, c, G)
<1> DEFINE k == req[s].key
           q == idle[k]
<1>1. k \in Keys
  <2>1. pc[s] = "checkout"
    BY Zenon DEF Checkout
  <2>2. req[s] \in Requests
    BY <2>1 DEF ControlInv
  <2> QED
    BY <2>2 DEF Requests
<1>2. q \in Seq(Conns)
  BY <1>1 DEF Types
<1> DEFINE U == {i \in DOMAIN q : Usable(q[i])}
           popped == IF \E i \in DOMAIN q : Usable(q[i])
                     THEN CHOOSE i \in DOMAIN q :
                              Usable(q[i]) /\ \A j \in 1..(i - 1) : ~Usable(q[j])
                     ELSE Len(q)
           found == popped > 0 /\ Usable(q[popped])
           gone == {q[i] : i \in 1..popped} \ (IF found THEN {q[popped]} ELSE {})
<1>3. /\ pc[s] = "checkout"
      /\ idle' = [idle EXCEPT ![k] = SubSeq(q, popped + 1, Len(q))]
      /\ total' = IF total >= popped THEN total - popped ELSE 0
      /\ Drop(gone)
      /\ conn' = [conn EXCEPT ![s] = IF found THEN q[popped] ELSE None]
      /\ from_pool' = [from_pool EXCEPT ![s] = found]
      /\ pc' = [pc EXCEPT ![s] = IF found THEN "write" ELSE "dial"]
      /\ UNCHANGED <<age, req, keep, answer, calls, sends, dials>>
  BY Zenon DEF Checkout
<1> HIDE DEF q
<1>4. popped \in Nat /\ popped <= Len(q)
  <2>1. CASE U # {}
    <3>1. PICK m \in U : \A i \in U : m <= i
      <4>1. U \in SUBSET Nat
        BY <1>2
      <4> HIDE DEF U
      <4> QED
        BY <2>1, <4>1, LeastOf
    <3>2. m \in DOMAIN q /\ Usable(q[m]) /\ \A j \in 1..(m - 1) : ~Usable(q[j])
      BY <1>2, <3>1
    <3>3. popped \in DOMAIN q
      BY <3>2
    <3> HIDE DEF popped
    <3> QED
      BY <3>3
  <2>2. CASE U = {}
    BY <2>2
  <2> QED
    BY <2>1, <2>2
<1> HIDE DEF popped
<1>5. CASE found
  <2>1. q[popped] \in Conns /\ q[popped] # None
    BY <1>2, <1>4, <1>5 DEF PoolAssumptions
  <2>2. gone \in SUBSET Conns
    BY <1>2, <1>4
  <2>3. \A d : d \in gone <=> d # q[popped] /\ \E i \in 1..popped : q[i] = d
    BY <1>5
  <2>4. CheckoutTo(s, popped, q[popped], gone)
    <3> HIDE DEF gone
    <3> QED
      BY <1>3, <1>4, <1>5, <2>1, <2>3 DEF CheckoutTo, q
  <2> QED
    BY <1>1, <1>4, <2>1, <2>2, <2>4
<1>6. CASE ~found
  <2>1. gone \in SUBSET Conns
    BY <1>2, <1>4
  <2>2. \A d : d \in gone <=> d # None /\ \E i \in 1..popped : q[i] = d
    BY <1>2, <1>4, <1>6 DEF PoolAssumptions
  <2>3. CheckoutTo(s, popped, None, gone)
    <3> HIDE DEF gone
    <3> QED
      BY <1>3, <1>4, <1>6, <2>2 DEF CheckoutTo, q
  <2> QED
    BY <1>1, <1>4, <2>1, <2>3
<1> HIDE DEF k, gone, found
<1> QED
  BY <1>5, <1>6, Zenon

(* The pool after a checkout: the first n entries of q, those of key k,    *)
(* are gone.                                                               *)
FrontGone(k, q, n) ==
    /\ idle' \in [Keys -> Seq(Conns)]
    /\ \A l \in Keys \ {k} : idle'[l] = idle[l]
    /\ Len(idle'[k]) = Len(q) - n
    /\ \A j \in 1..Len(idle'[k]) : n + j \in 1..Len(q) /\ idle'[k][j] = q[n + j]
    /\ \A i \in 1..n : i \in 1..Len(q) /\ q[i] \in Pooled
    /\ \A d : d \in Pooled' <=> d \in Pooled /\ ~\E i \in 1..n : q[i] = d

LEMMA CheckoutPool ==
    ASSUME PoolAssumptions, Types, OneOwner, NEW s \in Strands,
           NEW n \in Nat, NEW c \in Conns \cup {None}, NEW G \in SUBSET Conns,
           CheckoutTo(s, n, c, G),
           NEW k \in Keys, k = req[s].key, NEW q \in Seq(Conns), q = idle[k]
    PROVE  FrontGone(k, q, n)
<1>2. q = idle[k]
  OBVIOUS
<1>3. /\ n <= Len(q) /\ Len(q) \in Nat
      /\ idle' = [idle EXCEPT ![k] = SubSeq(q, n + 1, Len(q))]
  BY DEF CheckoutTo
<1>4. /\ SubSeq(q, n + 1, Len(q)) \in Seq(Conns)
      /\ Len(SubSeq(q, n + 1, Len(q))) = Len(q) - n
      /\ \A j \in 1..(Len(q) - n) : SubSeq(q, n + 1, Len(q))[j] = q[n + j]
  <2>1. \A i \in (n + 1)..Len(q) : q[i] \in Conns
    BY <1>3, ElementOfSeq
  <2>2. n + 1 \in Int /\ Len(q) \in Int
    BY <1>3
  <2>3. /\ SubSeq(q, n + 1, Len(q)) \in Seq(Conns)
        /\ Len(SubSeq(q, n + 1, Len(q))) = (IF n + 1 <= Len(q) THEN Len(q) - (n + 1) + 1 ELSE 0)
        /\ \A j \in 1..(Len(q) - (n + 1) + 1) : SubSeq(q, n + 1, Len(q))[j] = q[n + 1 + j - 1]
    BY <2>1, <2>2, SubSeqProperties
  <2>4. PICK r : r = SubSeq(q, n + 1, Len(q))
    OBVIOUS
  <2>5. r \in Seq(Conns) /\ Len(r) = Len(q) - n
    BY <1>3, <2>3, <2>4
  <2>6. \A j \in 1..(Len(q) - n) : j \in 1..(Len(q) - (n + 1) + 1) /\ n + 1 + j - 1 = n + j
    BY <1>3
  <2>7. \A j \in 1..(Len(q) - n) : r[j] = q[n + j]
    BY <2>3, <2>4, <2>6
  <2> QED
    BY <2>4, <2>5, <2>7
<1>5. /\ idle \in [Keys -> Seq(Conns)]
      /\ idle' \in [Keys -> Seq(Conns)]
      /\ \A l \in Keys \ {k} : idle'[l] = idle[l]
      /\ Len(idle'[k]) = Len(q) - n
      /\ \A j \in 1..Len(idle'[k]) : n + j \in 1..Len(q) /\ idle'[k][j] = q[n + j]
  <2>1. PICK r \in Seq(Conns) : r = SubSeq(q, n + 1, Len(q))
    BY <1>4
  <2>2. /\ idle \in [Keys -> Seq(Conns)] /\ idle' \in [Keys -> Seq(Conns)]
        /\ \A l \in Keys \ {k} : idle'[l] = idle[l]
        /\ idle'[k] = r
    BY <1>3, <2>1 DEF Types
  <2>3. \A j \in 1..(Len(q) - n) : n + j \in 1..Len(q)
    BY <1>3
  <2> QED
    BY <1>4, <2>1, <2>2, <2>3
<1>6. /\ \A d : d \in Pooled <=> \E l \in Keys : \E i \in 1..Len(idle[l]) : idle[l][i] = d
      /\ \A d : d \in Pooled' <=> \E l \in Keys : \E i \in 1..Len(idle'[l]) : idle'[l][i] = d
  BY <1>5, PoolOf DEF Pooled
<1>7. \A i \in 1..n : i \in 1..Len(q) /\ q[i] \in Pooled
  BY <1>2, <1>3, <1>6
<1>8. \A l, m \in Keys : \A i \in 1..Len(idle[l]), j \in 1..Len(idle[m]) :
          idle[l][i] = idle[m][j] => l = m /\ i = j
  BY <1>5 DEF OneOwner
<1>9. ASSUME NEW d
      PROVE  d \in Pooled' <=> d \in Pooled /\ ~\E i \in 1..n : q[i] = d
  <2>1. ASSUME d \in Pooled'
        PROVE  d \in Pooled /\ ~\E i \in 1..n : q[i] = d
    <3>0. PICK l \in Keys : \E i \in 1..Len(idle'[l]) : idle'[l][i] = d
      BY <1>6, <2>1
    <3>1. PICK i \in 1..Len(idle'[l]) : idle'[l][i] = d
      BY <3>0
    <3>2. CASE l = k
      <4>1. n + i \in 1..Len(q) /\ q[n + i] = d
        BY <1>5, <3>1, <3>2
      <4>2. \A j \in 1..n : j # n + i
        BY <3>1
      <4> QED
        BY <1>2, <1>6, <1>7, <1>8, <4>1, <4>2
    <3>3. CASE l # k
      BY <1>2, <1>5, <1>6, <1>7, <1>8, <3>1, <3>3
    <3> QED
      BY <3>2, <3>3
  <2>2. ASSUME d \in Pooled, ~\E i \in 1..n : q[i] = d
        PROVE  d \in Pooled'
    <3>0. PICK l \in Keys : \E i \in 1..Len(idle[l]) : idle[l][i] = d
      BY <1>6, <2>2
    <3>1. PICK i \in 1..Len(idle[l]) : idle[l][i] = d
      BY <3>0
    <3>2. CASE l = k
      <4>1. i \notin 1..n /\ i \in 1..Len(q) /\ q[i] = d
        BY <1>2, <2>2, <3>1, <3>2
      <4>2. i - n \in 1..(Len(q) - n) /\ n + (i - n) = i
        BY <1>3, <4>1
      <4>3. idle'[k][i - n] = d
        BY <1>5, <4>1, <4>2
      <4> QED
        BY <1>5, <1>6, <4>2, <4>3
    <3>3. CASE l # k
      BY <1>5, <1>6, <3>1, <3>3
    <3> QED
      BY <3>2, <3>3
  <2> QED
    BY <2>1, <2>2
<1> QED
  BY <1>5, <1>7, <1>9 DEF FrontGone

-----------------------------------------------------------------------------
(* A failed attempt: the connection is dropped, and the request starts     *)
(* over or is answered with an error.                                      *)
LEMMA FailedFacts ==
    ASSUME Types, ControlInv, NEW s \in Strands, pc[s] \in {"write", "read"}, Failed(s)
    PROVE  /\ conn[s] \in Conns
           /\ Drop({conn[s]})
           /\ conn' = [conn EXCEPT ![s] = None] /\ keep' = keep
           /\ \/ /\ Again(s) /\ dials[s] = 0
                 /\ pc' = [pc EXCEPT ![s] = "redial"] /\ answer' = answer
              \/ /\ ~(Again(s) /\ dials[s] = 0)
                 /\ pc' = [pc EXCEPT ![s] = "idle"] /\ answer' = [answer EXCEPT ![s] = Error]
<1>1. conn[s] \in Conns
  BY DEF Types, ControlInv
<1> QED
  BY <1>1 DEF Failed, FailedThen, Answer, Again

LEMMA FailedAt ==
    ASSUME Types, ControlInv, NEW s \in Strands, pc[s] \in {"write", "read"}, Failed(s)
    PROVE  /\ Drop({conn[s]})
           /\ \/ answer' = answer /\ pc'[s] = "redial"
              \/ ~(Again(s) /\ dials[s] = 0) /\ pc'[s] = "idle" /\ answer'[s] = Error
<1>1. pc \in [Strands -> {"idle", "checkout", "dial", "redial", "write", "read", "release"}]
  BY DEF Types
<1>2. answer \in [Strands -> {NoAnswer, Refused, Error} \cup Tags]
  BY DEF Types
<1>3. CASE pc' = [pc EXCEPT ![s] = "redial"] /\ answer' = answer
  <2>1. pc'[s] = "redial"
    BY <1>1, <1>3
  <2> QED
    BY <1>3, <2>1, FailedFacts, Zenon
<1>4. CASE /\ ~(Again(s) /\ dials[s] = 0)
           /\ pc' = [pc EXCEPT ![s] = "idle"] /\ answer' = [answer EXCEPT ![s] = Error]
  <2>1. pc'[s] = "idle" /\ answer'[s] = Error
    BY <1>1, <1>2, <1>4
  <2> QED
    BY <1>4, <2>1, FailedFacts, Zenon
<1> QED
  BY <1>3, <1>4, FailedFacts, Zenon

(* A dial that succeeds and one that fails.                                *)
DialTo(s, c, a) ==
    /\ pc[s] \in {"dial", "redial"}
    /\ dials' = [dials EXCEPT ![s] = @ + 1]
    /\ peer[c] = "unused"
    /\ peer' = [peer EXCEPT ![c] = "open"]
    /\ at' = [at EXCEPT ![c] = a]
    /\ conn' = [conn EXCEPT ![s] = c]
    /\ pc' = [pc EXCEPT ![s] = "write"]
    /\ UNCHANGED <<asked, replies, answer, pool, req, from_pool, keep, calls, sends>>

DialFails(s) ==
    /\ pc[s] \in {"dial", "redial"}
    /\ dials' = [dials EXCEPT ![s] = @ + 1]
    /\ answer' = [answer EXCEPT ![s] = Error]
    /\ pc' = [pc EXCEPT ![s] = "idle"]
    /\ UNCHANGED <<network, conn, pool, req, from_pool, keep, calls, sends>>

LEMMA DialFacts ==
    ASSUME NEW s \in Strands, Dial(s)
    PROVE  (\E c \in Conns, a \in req[s].addrs : DialTo(s, c, a)) \/ DialFails(s)
  BY DEF Dial, Answer, DialTo, DialFails

(* A release that pools the connection d and one that closes it.           *)
ReleaseRest(s) ==
    /\ pc[s] = "release"
    /\ conn' = [conn EXCEPT ![s] = None]
    /\ keep' = [keep EXCEPT ![s] = FALSE]
    /\ pc' = [pc EXCEPT ![s] = "idle"]
    /\ UNCHANGED <<req, from_pool, answer, calls, sends, dials>>

Pools(s, k, d) ==
    /\ Fits(s)
    /\ idle' = [idle EXCEPT ![k] = <<d>> \o idle[k]]
    /\ total' = total + 1
    /\ age' = [age EXCEPT ![d] = 0]
    /\ UNCHANGED network
    /\ ReleaseRest(s)

Closes(s, d) ==
    /\ Drop({d})
    /\ UNCHANGED pool
    /\ ReleaseRest(s)

LEMMA ReleaseFacts ==
    ASSUME NEW s \in Strands, Release(s)
    PROVE  Pools(s, req[s].key, conn[s]) \/ Closes(s, conn[s])
  BY DEF Release, ReleaseIf, Pools, Closes, ReleaseRest

-----------------------------------------------------------------------------
LEMMA TypeStep ==
    ASSUME PoolAssumptions, IInv, [Next]_vars
    PROVE  Types'
<1> USE DEF PoolAssumptions, pool, network, strand
<1>0. Types
  BY DEF IInv
<1> USE <1>0 DEF Types
<1>1. ASSUME NEW s \in Strands, NEW m \in Methods, NEW k \in Keys,
             NEW A \in SUBSET Addrs, NEW ct \in BOOLEAN, Request(s, m, k, A, ct)
      PROVE  Types'
  <2>1. CASE A = {} \/ A \cap PrivateAddrs # {}
    <3>1. /\ req' = [req EXCEPT ![s] = NoReq] /\ pc' = [pc EXCEPT ![s] = "idle"]
          /\ answer' = [answer EXCEPT ![s] = Refused]
      BY <1>1, <2>1 DEF Request, Answer
    <3> QED
      BY <1>1, <3>1 DEF Request
  <2>2. CASE A # {} /\ A \cap PrivateAddrs = {}
    <3>1. PICK r \in Requests : r = [method |-> m, key |-> k, addrs |-> A, ct |-> ct]
      BY <2>2 DEF Addrs, Requests
    <3>2. /\ req' = [req EXCEPT ![s] = r] /\ answer' = [answer EXCEPT ![s] = NoAnswer]
          /\ pc' = [pc EXCEPT ![s] = "checkout"]
      BY <1>1, <2>2, <3>1 DEF Request
    <3>3. req' \in [Strands -> Requests \cup {NoReq}]
      BY <3>2
    <3> QED
      BY <1>1, <3>2, <3>3 DEF Request
  <2> QED
    BY <2>1, <2>2
<1>2. ASSUME NEW s \in Strands, Checkout(s)
      PROVE  Types'
  <2>1. PICK n \in Nat, c \in Conns \cup {None}, G \in SUBSET Conns :
            req[s].key \in Keys /\ CheckoutTo(s, n, c, G)
    BY <1>2, CheckoutFacts DEF IInv
  <2>2. idle' \in [Keys -> Seq(Conns)]
    <3>1. PICK k \in Keys : k = req[s].key
      BY <2>1
    <3>2. PICK q \in Seq(Conns) : q = idle[k]
      OBVIOUS
    <3> QED
      BY <2>1, <3>1, <3>2, CheckoutPool DEF IInv, FrontGone
  <2>3. total' \in Nat
    BY <2>1 DEF CheckoutTo
  <2>4. <<>> \in Seq(Tags)
    OBVIOUS
  <2> QED
    BY <2>1, <2>2, <2>3, <2>4 DEF CheckoutTo, Drop
<1>3. ASSUME NEW s \in Strands, Dial(s)
      PROVE  Types'
  <2>1. ASSUME NEW c \in Conns, NEW a \in req[s].addrs, DialTo(s, c, a)
        PROVE  Types'
    <3>1. a \in Addrs
      BY <1>3 DEF Dial, IInv, ControlInv, Requests, Addrs
    <3> QED
      BY <2>1, <3>1, SMTT(60) DEF DialTo
  <2>2. CASE DialFails(s)
    BY <2>2 DEF DialFails
  <2> QED
    BY <1>3, <2>1, <2>2, DialFacts
<1>4. ASSUME NEW s \in Strands, Write(s)
      PROVE  Types'
  <2>1. PICK d \in Conns : d = conn[s]
    BY <1>4 DEF Write, IInv, ControlInv
  <2>2. Tag(s) \in Tags
    BY DEF Tag, Tags
  <2>3. Append(asked[d], Tag(s)) \in Seq(Tags)
    BY <2>1, <2>2, AppendProperties
  <2>4. asked' \in [Conns -> Seq(Tags)]
    <3>1. asked' = [asked EXCEPT ![d] = Append(asked[d], Tag(s))]
      BY <1>4, <2>1 DEF Write
    <3> QED
      BY <2>3, <3>1
  <2>5. sends' \in [Strands -> Nat]
    BY <1>4 DEF Write
  <2> QED
    BY <1>4, <2>4, <2>5 DEF Write
<1>5. ASSUME NEW s \in Strands, WriteFails(s)
      PROVE  Types'
  <2>1. /\ conn[s] \in Conns /\ Drop({conn[s]})
        /\ conn' = [conn EXCEPT ![s] = None] /\ keep' = keep
        /\ pc' \in [Strands -> {"idle", "checkout", "dial", "redial", "write", "read", "release"}]
        /\ answer' \in [Strands -> {NoAnswer, Refused, Error} \cup Tags]
    BY <1>5, FailedFacts, ZenonT(60) DEF WriteFails, IInv
  <2>2. <<>> \in Seq(Tags)
    OBVIOUS
  <2> QED
    BY <1>5, <2>1, <2>2 DEF WriteFails, Drop
<1>6. ASSUME NEW s \in Strands, ReadFails(s)
      PROVE  Types'
  <2>1. /\ conn[s] \in Conns /\ Drop({conn[s]})
        /\ conn' = [conn EXCEPT ![s] = None] /\ keep' = keep
        /\ pc' \in [Strands -> {"idle", "checkout", "dial", "redial", "write", "read", "release"}]
        /\ answer' \in [Strands -> {NoAnswer, Refused, Error} \cup Tags]
    BY <1>6, FailedFacts DEF ReadFails, IInv
  <2>2. <<>> \in Seq(Tags)
    OBVIOUS
  <2> QED
    BY <1>6, <2>1, <2>2 DEF ReadFails, Drop
<1>7. ASSUME NEW s \in Strands, NEW h \in Headers, ReadOk(s, h)
      PROVE  Types'
  <2>1. PICK d \in Conns : d = conn[s]
    BY <1>7 DEF ReadOk, IInv, ControlInv
  <2>2. PICK r \in Seq(Tags) : r = replies[d]
    BY <2>1
  <2>3. Head(r) \in Tags /\ Tail(r) \in Seq(Tags)
    BY <1>7, <2>1, <2>2 DEF ReadOk
  <2>4. keep_alive(h) \in BOOLEAN
    BY DEF keep_alive, Headers
  <2> QED
    BY <1>7, <2>1, <2>2, <2>3, <2>4 DEF ReadOk
<1>8. ASSUME NEW s \in Strands, Release(s)
      PROVE  Types'
  <2>1. PICK d \in Conns : d = conn[s]
    BY <1>8 DEF Release, ReleaseIf, IInv, ControlInv
  <2>2. PICK k \in Keys : k = req[s].key
    BY <1>8 DEF Release, ReleaseIf, IInv, ControlInv, Requests
  <2>3. CASE Pools(s, k, d)
    <3>1. <<d>> \o idle[k] \in Seq(Conns)
      BY <2>1, <2>2
    <3>2. age' \in [Conns -> 0..(IDLE_TIMEOUT + 1)]
      BY <2>3 DEF Pools
    <3>3. idle' \in [Keys -> Seq(Conns)] /\ total' \in Nat
      BY <2>3, <3>1 DEF Pools
    <3> QED
      BY <2>3, <3>2, <3>3 DEF Pools, ReleaseRest
  <2>4. CASE Closes(s, d)
    <3>1. <<>> \in Seq(Tags)
      OBVIOUS
    <3> QED
      BY <2>1, <2>4, <3>1 DEF Closes, ReleaseRest, Drop
  <2> QED
    BY <1>8, <2>1, <2>2, <2>3, <2>4, ReleaseFacts
<1>9. ASSUME NEW c \in Conns, Serve(c)
      PROVE  Types'
  <2>1. PICK q \in Seq(Tags) : q = asked[c]
    OBVIOUS
  <2>2. Head(q) \in Tags /\ Tail(q) \in Seq(Tags)
    BY <1>9, <2>1 DEF Serve
  <2>3. Append(replies[c], Head(q)) \in Seq(Tags)
    BY <2>2, AppendProperties
  <2> QED
    BY <1>9, <2>1, <2>2, <2>3 DEF Serve
<1>10. ASSUME NEW c \in Conns, PeerCloses(c)
      PROVE  Types'
  BY <1>10 DEF PeerCloses
<1>11. ASSUME NEW c \in Conns, CloseArrives(c)
      PROVE  Types'
  BY <1>11 DEF CloseArrives
<1>12. CASE TimePasses
  <2>1. \A c \in Conns : age[c] \in 0..(IDLE_TIMEOUT + 1)
    OBVIOUS
  <2>2. \A c \in Conns : age[c] <= IDLE_TIMEOUT => age[c] + 1 \in 0..(IDLE_TIMEOUT + 1)
    BY <2>1
  <2>3. age' \in [Conns -> 0..(IDLE_TIMEOUT + 1)]
    BY <1>12, <2>1, <2>2, Zenon DEF TimePasses
  <2> QED
    BY <1>12, <2>3 DEF TimePasses
<1>13. CASE UNCHANGED vars
  BY <1>13 DEF vars
<1> HIDE <1>0 DEF PoolAssumptions, Types, pool, network, strand
<1> QED
  BY <1>1, <1>2, <1>3, <1>4, <1>5, <1>6, <1>7, <1>8,
     <1>9, <1>10, <1>11, <1>12, <1>13 DEF Next

LEMMA ControlStep ==
    ASSUME PoolAssumptions, IInv, [Next]_vars
    PROVE  ControlInv'
<1> USE DEF pool, network, strand
<1>0. Types /\ ControlInv
  BY DEF IInv
<1>1. ASSUME NEW s \in Strands, NEW m \in Methods, NEW k \in Keys,
             NEW A \in SUBSET Addrs, NEW ct \in BOOLEAN, Request(s, m, k, A, ct)
      PROVE  ControlInv'
  <2>1. CASE A = {} \/ A \cap PrivateAddrs # {}
    BY <1>0, <1>1, <2>1 DEF Request, Answer, Types, ControlInv
  <2>2. CASE A # {} /\ A \cap PrivateAddrs = {}
    <3>1. PICK r \in Requests : r = [method |-> m, key |-> k, addrs |-> A, ct |-> ct]
      BY <2>2 DEF Addrs, Requests
    <3>2. /\ req' = [req EXCEPT ![s] = r] /\ conn' = conn /\ pc[s] = "idle"
          /\ pc' = [pc EXCEPT ![s] = "checkout"]
      BY <1>1, <2>2, <3>1 DEF Request
    <3> QED
      BY <1>0, <3>2 DEF Types, ControlInv
  <2> QED
    BY <2>1, <2>2
<1>2. ASSUME NEW s \in Strands, Checkout(s)
      PROVE  ControlInv'
  <2>1. PICK n \in Nat, c \in Conns \cup {None}, G \in SUBSET Conns : CheckoutTo(s, n, c, G)
    BY <1>2, CheckoutFacts DEF IInv
  <2> QED
    BY <1>0, <2>1 DEF CheckoutTo, Types, ControlInv
<1>3. ASSUME NEW s \in Strands, Dial(s)
      PROVE  ControlInv'
  <2>1. ASSUME NEW c \in Conns, NEW a \in req[s].addrs, DialTo(s, c, a)
        PROVE  ControlInv'
    BY <1>0, <2>1 DEF DialTo, Types, ControlInv, PoolAssumptions
  <2>2. CASE DialFails(s)
    BY <1>0, <2>2 DEF DialFails, Types, ControlInv
  <2> QED
    BY <1>3, <2>1, <2>2, DialFacts
<1>4. ASSUME NEW s \in Strands, Write(s)
      PROVE  ControlInv'
  BY <1>0, <1>4 DEF Write, Types, ControlInv
<1>5. ASSUME NEW s \in Strands, WriteFails(s)
      PROVE  ControlInv'
  <2>1. /\ pc[s] # "idle" /\ req' = req
        /\ conn' = [conn EXCEPT ![s] = None]
        /\ \E p \in {"redial", "idle"} : pc' = [pc EXCEPT ![s] = p]
    BY <1>0, <1>5, FailedFacts DEF WriteFails
  <2> QED
    BY <1>0, <2>1 DEF Types, ControlInv
<1>6. ASSUME NEW s \in Strands, ReadFails(s)
      PROVE  ControlInv'
  <2>1. /\ pc[s] # "idle" /\ req' = req
        /\ conn' = [conn EXCEPT ![s] = None]
        /\ \E p \in {"redial", "idle"} : pc' = [pc EXCEPT ![s] = p]
    BY <1>0, <1>6, FailedFacts DEF ReadFails
  <2> QED
    BY <1>0, <2>1 DEF Types, ControlInv
<1>7. ASSUME NEW s \in Strands, NEW h \in Headers, ReadOk(s, h)
      PROVE  ControlInv'
  BY <1>0, <1>7 DEF ReadOk, Types, ControlInv
<1>8. ASSUME NEW s \in Strands, Release(s)
      PROVE  ControlInv'
  <2>1. ReleaseRest(s)
    BY <1>8, ReleaseFacts DEF Pools, Closes
  <2> QED
    BY <1>0, <2>1 DEF ReleaseRest, Types, ControlInv
<1>9. ASSUME NEW c \in Conns, Serve(c)
      PROVE  ControlInv'
  BY <1>0, <1>9 DEF Serve, ControlInv
<1>10. ASSUME NEW c \in Conns, PeerCloses(c)
      PROVE  ControlInv'
  BY <1>0, <1>10 DEF PeerCloses, ControlInv
<1>11. ASSUME NEW c \in Conns, CloseArrives(c)
      PROVE  ControlInv'
  BY <1>0, <1>11 DEF CloseArrives, ControlInv
<1>12. CASE TimePasses
  BY <1>0, <1>12 DEF TimePasses, ControlInv
<1>13. CASE UNCHANGED vars
  BY <1>0, <1>13 DEF vars, ControlInv
<1> HIDE DEF pool, network, strand
<1> QED
  BY <1>1, <1>2, <1>3, <1>4, <1>5, <1>6, <1>7, <1>8,
     <1>9, <1>10, <1>11, <1>12, <1>13 DEF Next

-----------------------------------------------------------------------------
(* A step of one strand leaves the requests of the others alone.           *)
OthersKept(s) ==
    \A t \in Strands : t # s =>
        /\ pc'[t] = pc[t] /\ req'[t] = req[t] /\ answer'[t] = answer[t]
        /\ calls'[t] = calls[t] /\ sends'[t] = sends[t] /\ dials'[t] = dials[t]
        /\ from_pool'[t] = from_pool[t] /\ conn'[t] = conn[t]

AllKept ==
    \A t \in Strands :
        /\ pc'[t] = pc[t] /\ req'[t] = req[t] /\ answer'[t] = answer[t]
        /\ calls'[t] = calls[t] /\ sends'[t] = sends[t] /\ dials'[t] = dials[t]
        /\ from_pool'[t] = from_pool[t] /\ conn'[t] = conn[t]

LEMMA OthersStep ==
    ASSUME PoolAssumptions, Types, ControlInv, NEW s \in Strands,
           \/ \E m \in Methods, k \in Keys, A \in SUBSET Addrs, ct \in BOOLEAN :
                 Request(s, m, k, A, ct)
           \/ Checkout(s) \/ Dial(s) \/ Write(s) \/ WriteFails(s) \/ ReadFails(s)
           \/ \E h \in Headers : ReadOk(s, h)
           \/ Release(s)
    PROVE  OthersKept(s)
<1> USE DEF OthersKept, Types, strand
<1>1. ASSUME NEW m \in Methods, NEW k \in Keys, NEW A \in SUBSET Addrs, NEW ct \in BOOLEAN,
             Request(s, m, k, A, ct)
      PROVE  OthersKept(s)
  <2>1. CASE A = {} \/ A \cap PrivateAddrs # {}
    BY <1>1, <2>1 DEF Request, Answer
  <2>2. CASE A # {} /\ A \cap PrivateAddrs = {}
    BY <1>1, <2>2 DEF Request
  <2> QED
    BY <2>1, <2>2
<1>2. CASE Checkout(s)
  <2>1. PICK n \in Nat, c \in Conns \cup {None}, G \in SUBSET Conns : CheckoutTo(s, n, c, G)
    BY <1>2, CheckoutFacts
  <2> QED
    BY <2>1 DEF CheckoutTo
<1>3. CASE Dial(s)
  <2>1. ASSUME NEW c \in Conns, NEW a \in req[s].addrs, DialTo(s, c, a)
        PROVE  OthersKept(s)
    BY <2>1 DEF DialTo
  <2>2. CASE DialFails(s)
    BY <2>2 DEF DialFails
  <2> QED
    BY <1>3, <2>1, <2>2, DialFacts
<1>4. CASE Write(s)
  BY <1>4 DEF Write
<1>5. CASE WriteFails(s)
  <2>1. /\ conn' = [conn EXCEPT ![s] = None]
        /\ \E p \in {"redial", "idle"} : pc' = [pc EXCEPT ![s] = p]
        /\ \E a \in {Error, answer[s]} : answer' = [answer EXCEPT ![s] = a]
        /\ \E n \in {0, 1} : sends' = [sends EXCEPT ![s] = @ + n]
        /\ UNCHANGED <<req, from_pool, calls, dials>>
    BY <1>5, FailedFacts DEF WriteFails
  <2> QED
    BY <2>1
<1>6. CASE ReadFails(s)
  <2>1. /\ conn' = [conn EXCEPT ![s] = None]
        /\ \E p \in {"redial", "idle"} : pc' = [pc EXCEPT ![s] = p]
        /\ \E a \in {Error, answer[s]} : answer' = [answer EXCEPT ![s] = a]
        /\ UNCHANGED <<req, from_pool, calls, sends, dials>>
    BY <1>6, FailedFacts DEF ReadFails
  <2> QED
    BY <2>1
<1>7. ASSUME NEW h \in Headers, ReadOk(s, h)
      PROVE  OthersKept(s)
  BY <1>7 DEF ReadOk
<1>8. CASE Release(s)
  <2>1. ReleaseRest(s)
    BY <1>8, ReleaseFacts, Zenon DEF Pools, Closes
  <2> QED
    BY <2>1 DEF ReleaseRest
<1> QED
  BY <1>1, <1>2, <1>3, <1>4, <1>5, <1>6, <1>7, <1>8

LEMMA EnvironmentStep ==
    ASSUME \/ \E c \in Conns : Serve(c) \/ PeerCloses(c) \/ CloseArrives(c)
           \/ TimePasses
           \/ UNCHANGED vars
    PROVE  AllKept
  BY DEF Serve, PeerCloses, CloseArrives, TimePasses, vars, strand, AllKept

LEMMA AttemptStep ==
    ASSUME PoolAssumptions, IInv, [Next]_vars
    PROVE  AttemptInv'
<1> USE DEF pool, network, strand
<1>0. Types /\ ControlInv /\ AttemptInv
  BY DEF IInv
<1>1. ASSUME NEW s \in Strands, NEW m \in Methods, NEW k \in Keys,
             NEW A \in SUBSET Addrs, NEW ct \in BOOLEAN, Request(s, m, k, A, ct)
      PROVE  AttemptInv'
  <2>1. OthersKept(s)
    BY <1>0, <1>1, OthersStep
  <2>2. Attempt(s)'
    <3>1. /\ sends'[s] = 0 /\ dials'[s] = 0 /\ ~from_pool'[s]
          /\ pc'[s] \in {"idle", "checkout"}
      BY <1>0, <1>1 DEF Request, Answer, Types
    <3> QED
      BY <3>1 DEF Attempt
  <2> QED
    BY <1>0, <2>1, <2>2 DEF OthersKept, AttemptInv, Attempt, Again
<1>2. ASSUME NEW s \in Strands, Checkout(s)
      PROVE  AttemptInv'
  <2>1. OthersKept(s)
    BY <1>0, <1>2, OthersStep
  <2>2. Attempt(s)'
    <3>1. PICK n \in Nat, c \in Conns \cup {None}, G \in SUBSET Conns : CheckoutTo(s, n, c, G)
      BY <1>0, <1>2, CheckoutFacts
    <3>2. /\ pc[s] = "checkout" /\ UNCHANGED <<req, sends, dials>>
          /\ c # None => from_pool'[s] /\ pc'[s] = "write"
          /\ c = None => ~from_pool'[s] /\ pc'[s] = "dial"
      BY <1>0, <3>1 DEF CheckoutTo, Types
    <3>3. sends[s] = 0 /\ dials[s] = 0
      BY <1>0, <3>2 DEF AttemptInv, Attempt
    <3> QED
      BY <3>2, <3>3 DEF Attempt
  <2> QED
    BY <1>0, <2>1, <2>2 DEF OthersKept, AttemptInv, Attempt, Again
<1>3. ASSUME NEW s \in Strands, Dial(s)
      PROVE  AttemptInv'
  <2>1. OthersKept(s)
    BY <1>0, <1>3, OthersStep
  <2>2. Attempt(s)'
    <3>1. ASSUME NEW c \in Conns, NEW a \in req[s].addrs, DialTo(s, c, a)
          PROVE  Attempt(s)'
      BY <1>0, <3>1 DEF DialTo, Types, AttemptInv, Attempt, Again
    <3>2. CASE DialFails(s)
      BY <1>0, <3>2 DEF DialFails, Types, AttemptInv, Attempt, Again
    <3> QED
      BY <1>3, <3>1, <3>2, DialFacts
  <2> QED
    BY <1>0, <2>1, <2>2 DEF OthersKept, AttemptInv, Attempt, Again
<1>4. ASSUME NEW s \in Strands, Write(s)
      PROVE  AttemptInv'
  <2>1. OthersKept(s)
    BY <1>0, <1>4, OthersStep
  <2>2. Attempt(s)'
    BY <1>0, <1>4 DEF Write, Types, AttemptInv, Attempt, Again
  <2> QED
    BY <1>0, <2>1, <2>2 DEF OthersKept, AttemptInv, Attempt, Again
<1>5. ASSUME NEW s \in Strands, WriteFails(s)
      PROVE  AttemptInv'
  <2>1. OthersKept(s)
    BY <1>0, <1>5, OthersStep
  <2>2. Attempt(s)'
    <3>1. PICK n \in {0, 1} : sends' = [sends EXCEPT ![s] = @ + n]
      BY <1>5 DEF WriteFails
    <3>2. UNCHANGED <<req, from_pool, calls, dials>> /\ pc[s] = "write"
      BY <1>5 DEF WriteFails
    <3>3. \/ Again(s) /\ dials[s] = 0 /\ pc' = [pc EXCEPT ![s] = "redial"]
          \/ ~(Again(s) /\ dials[s] = 0) /\ pc' = [pc EXCEPT ![s] = "idle"]
      BY <1>0, <1>5, FailedFacts DEF WriteFails
    <3> QED
      BY <1>0, <3>1, <3>2, <3>3 DEF Types, AttemptInv, Attempt, Again
  <2> QED
    BY <1>0, <2>1, <2>2 DEF OthersKept, AttemptInv, Attempt, Again
<1>6. ASSUME NEW s \in Strands, ReadFails(s)
      PROVE  AttemptInv'
  <2>1. OthersKept(s)
    BY <1>0, <1>6, OthersStep
  <2>2. Attempt(s)'
    <3>1. UNCHANGED <<req, from_pool, calls, dials, sends>> /\ pc[s] = "read"
      BY <1>6 DEF ReadFails
    <3>2. \/ Again(s) /\ dials[s] = 0 /\ pc' = [pc EXCEPT ![s] = "redial"]
          \/ ~(Again(s) /\ dials[s] = 0) /\ pc' = [pc EXCEPT ![s] = "idle"]
      BY <1>0, <1>6, FailedFacts DEF ReadFails
    <3> QED
      BY <1>0, <3>1, <3>2 DEF Types, AttemptInv, Attempt, Again
  <2> QED
    BY <1>0, <2>1, <2>2 DEF OthersKept, AttemptInv, Attempt, Again
<1>7. ASSUME NEW s \in Strands, NEW h \in Headers, ReadOk(s, h)
      PROVE  AttemptInv'
  <2>1. OthersKept(s)
    BY <1>0, <1>7, OthersStep
  <2>2. Attempt(s)'
    BY <1>0, <1>7 DEF ReadOk, Types, AttemptInv, Attempt, Again
  <2> QED
    BY <1>0, <2>1, <2>2 DEF OthersKept, AttemptInv, Attempt, Again
<1>8. ASSUME NEW s \in Strands, Release(s)
      PROVE  AttemptInv'
  <2>1. OthersKept(s)
    BY <1>0, <1>8, OthersStep
  <2>2. Attempt(s)'
    <3>1. ReleaseRest(s)
      BY <1>8, ReleaseFacts, Zenon DEF Pools, Closes
    <3>2. /\ pc[s] = "release" /\ pc'[s] = "idle"
          /\ UNCHANGED <<req, from_pool, calls, sends, dials>>
      BY <1>0, <3>1 DEF ReleaseRest, Types
    <3>3. Attempt(s)
      BY <1>0 DEF AttemptInv
    <3> QED
      BY <3>2, <3>3 DEF Attempt, Again
  <2> QED
    BY <1>0, <2>1, <2>2 DEF OthersKept, AttemptInv, Attempt, Again
<1>9. ASSUME NEW c \in Conns, Serve(c)
      PROVE  AttemptInv'
  <2>1. AllKept
    BY <1>9, EnvironmentStep
  <2> QED
    BY <1>0, <2>1 DEF AllKept, AttemptInv, Attempt, Again
<1>10. ASSUME NEW c \in Conns, PeerCloses(c)
      PROVE  AttemptInv'
  <2>1. AllKept
    BY <1>10, EnvironmentStep
  <2> QED
    BY <1>0, <2>1 DEF AllKept, AttemptInv, Attempt, Again
<1>11. ASSUME NEW c \in Conns, CloseArrives(c)
      PROVE  AttemptInv'
  <2>1. AllKept
    BY <1>11, EnvironmentStep
  <2> QED
    BY <1>0, <2>1 DEF AllKept, AttemptInv, Attempt, Again
<1>12. CASE TimePasses
  <2>1. AllKept
    BY <1>12, EnvironmentStep
  <2> QED
    BY <1>0, <2>1 DEF AllKept, AttemptInv, Attempt, Again
<1>13. CASE UNCHANGED vars
  <2>1. AllKept
    BY <1>13, EnvironmentStep
  <2> QED
    BY <1>0, <2>1 DEF AllKept, AttemptInv, Attempt, Again
<1> HIDE DEF pool, network, strand
<1> QED
  BY <1>1, <1>2, <1>3, <1>4, <1>5, <1>6, <1>7, <1>8,
     <1>9, <1>10, <1>11, <1>12, <1>13 DEF Next

LEMMA AnswerStep ==
    ASSUME PoolAssumptions, IInv, [Next]_vars
    PROVE  AnswerInv'
<1> USE DEF pool, network, strand
<1>0. Types /\ ControlInv /\ AttemptInv /\ AnswerInv /\ ExchangeInv
  BY DEF IInv
<1>1. ASSUME NEW s \in Strands, NEW m \in Methods, NEW k \in Keys,
             NEW A \in SUBSET Addrs, NEW ct \in BOOLEAN, Request(s, m, k, A, ct)
      PROVE  AnswerInv'
  <2>1. OthersKept(s)
    BY <1>0, <1>1, OthersStep
  <2>2. Answered(s)'
    <3>1. CASE A = {} \/ A \cap PrivateAddrs # {}
      <4>1. answer'[s] = Refused /\ pc'[s] = "idle"
        BY <1>0, <1>1, <3>1 DEF Request, Answer, Types
      <4> QED
        BY <4>1 DEF Answered, Refused, Error, NoAnswer
    <3>2. CASE A # {} /\ A \cap PrivateAddrs = {}
      <4>1. answer'[s] = NoAnswer /\ pc'[s] = "checkout" /\ calls'[s] > 0
        BY <1>0, <1>1, <3>2 DEF Request, Types
      <4> QED
        BY <4>1 DEF Answered, Error, NoAnswer
    <3> QED
      BY <3>1, <3>2
  <2> QED
    BY <1>0, <2>1, <2>2 DEF OthersKept, AnswerInv, Answered, Tag
<1>2. ASSUME NEW s \in Strands, Checkout(s)
      PROVE  AnswerInv'
  <2>1. OthersKept(s)
    BY <1>0, <1>2, OthersStep
  <2>2. Answered(s)'
    <3>1. PICK n \in Nat, c \in Conns \cup {None}, G \in SUBSET Conns : CheckoutTo(s, n, c, G)
      BY <1>0, <1>2, CheckoutFacts
    <3>2. /\ answer'[s] = answer[s] /\ calls' = calls /\ pc[s] = "checkout"
          /\ pc'[s] \in {"write", "dial"}
      BY <1>0, <3>1 DEF CheckoutTo, Types
    <3> QED
      BY <1>0, <3>2 DEF AnswerInv, Answered, Error, NoAnswer
  <2> QED
    BY <1>0, <2>1, <2>2 DEF OthersKept, AnswerInv, Answered, Tag
<1>3. ASSUME NEW s \in Strands, Dial(s)
      PROVE  AnswerInv'
  <2>1. OthersKept(s)
    BY <1>0, <1>3, OthersStep
  <2>2. Answered(s)'
    <3>1. ASSUME NEW c \in Conns, NEW a \in req[s].addrs, DialTo(s, c, a)
          PROVE  Answered(s)'
      <4>1. /\ answer'[s] = answer[s] /\ calls' = calls /\ pc[s] \in {"dial", "redial"}
            /\ pc'[s] = "write"
        BY <1>0, <3>1 DEF DialTo, Types
      <4>2. Answered(s)
        BY <1>0 DEF AnswerInv
      <4>3. answer'[s] = NoAnswer /\ calls'[s] > 0
        BY <4>1, <4>2 DEF Answered
      <4>4. NoAnswer # Error
        BY DEF NoAnswer, Error
      <4> QED
        BY <4>1, <4>3, <4>4 DEF Answered
    <3>2. CASE DialFails(s)
      <4>1. /\ answer'[s] = Error /\ pc'[s] = "idle" /\ dials[s] = 0 /\ dials'[s] = 1
        BY <1>0, <3>2 DEF DialFails, Types, AttemptInv, Attempt
      <4> QED
        BY <4>1 DEF Answered
    <3> QED
      BY <1>3, <3>1, <3>2, DialFacts
  <2> QED
    BY <1>0, <2>1, <2>2 DEF OthersKept, AnswerInv, Answered, Tag
<1>4. ASSUME NEW s \in Strands, Write(s)
      PROVE  AnswerInv'
  <2>1. OthersKept(s)
    BY <1>0, <1>4, OthersStep
  <2>2. Answered(s)'
    <3>1. /\ answer'[s] = answer[s] /\ calls' = calls /\ pc[s] = "write"
          /\ pc'[s] = "read"
      BY <1>0, <1>4 DEF Write, Types
    <3>2. answer'[s] = NoAnswer /\ calls'[s] > 0
      BY <1>0, <3>1 DEF AnswerInv, Answered
    <3> QED
      BY <3>1, <3>2 DEF Answered, Error, NoAnswer
  <2> QED
    BY <1>0, <2>1, <2>2 DEF OthersKept, AnswerInv, Answered, Tag
<1>5. ASSUME NEW s \in Strands, WriteFails(s)
      PROVE  AnswerInv'
  <2>1. OthersKept(s)
    BY <1>0, <1>5, OthersStep
  <2>2. Answered(s)'
    <3>1. /\ UNCHANGED <<req, calls, dials>> /\ pc[s] = "write"
          /\ \/ answer' = answer /\ pc'[s] = "redial"
             \/ ~(Again(s) /\ dials[s] = 0) /\ pc'[s] = "idle" /\ answer'[s] = Error
      <4>1. UNCHANGED <<req, calls, dials>> /\ pc[s] = "write" /\ Failed(s)
        BY <1>5 DEF WriteFails
      <4>2. pc[s] \in {"write", "read"}
        BY <4>1
      <4> QED
        BY <1>0, <4>1, <4>2, FailedAt, Zenon
    <3>2. CASE answer' = answer /\ pc'[s] = "redial"
      BY <1>0, <3>1, <3>2 DEF AnswerInv, Answered, Error, NoAnswer
    <3>3. CASE ~(Again(s) /\ dials[s] = 0) /\ pc'[s] = "idle" /\ answer'[s] = Error
      <4>1. is_idempotent(req[s].method) => dials[s] = 1
        BY <1>0, <3>1, <3>3 DEF AttemptInv, Attempt, Again
      <4> QED
        BY <3>1, <3>3, <4>1 DEF Answered
    <3> QED
      BY <3>1, <3>2, <3>3
  <2> QED
    BY <1>0, <2>1, <2>2 DEF OthersKept, AnswerInv, Answered, Tag
<1>6. ASSUME NEW s \in Strands, ReadFails(s)
      PROVE  AnswerInv'
  <2>1. OthersKept(s)
    BY <1>0, <1>6, OthersStep
  <2>2. Answered(s)'
    <3>1. /\ UNCHANGED <<req, calls, dials>> /\ pc[s] = "read"
          /\ \/ answer' = answer /\ pc'[s] = "redial"
             \/ ~(Again(s) /\ dials[s] = 0) /\ pc'[s] = "idle" /\ answer'[s] = Error
      <4>1. UNCHANGED <<req, calls, dials>> /\ pc[s] = "read" /\ Failed(s)
        BY <1>6 DEF ReadFails
      <4>2. pc[s] \in {"write", "read"}
        BY <4>1
      <4> QED
        BY <1>0, <4>1, <4>2, FailedAt, Zenon
    <3>2. CASE answer' = answer /\ pc'[s] = "redial"
      BY <1>0, <3>1, <3>2 DEF AnswerInv, Answered, Error, NoAnswer
    <3>3. CASE ~(Again(s) /\ dials[s] = 0) /\ pc'[s] = "idle" /\ answer'[s] = Error
      <4>1. is_idempotent(req[s].method) => dials[s] = 1
        BY <1>0, <3>1, <3>3 DEF AttemptInv, Attempt, Again
      <4> QED
        BY <3>1, <3>3, <4>1 DEF Answered
    <3> QED
      BY <3>1, <3>2, <3>3
  <2> QED
    BY <1>0, <2>1, <2>2 DEF OthersKept, AnswerInv, Answered, Tag
<1>7. ASSUME NEW s \in Strands, NEW h \in Headers, ReadOk(s, h)
      PROVE  AnswerInv'
  <2>1. OthersKept(s)
    BY <1>0, <1>7, OthersStep
  <2>2. Answered(s)'
    <3>1. /\ pc[s] = "read" /\ replies[conn[s]] # <<>> /\ calls' = calls /\ pc'[s] = "release"
          /\ answer'[s] = Head(replies[conn[s]])
      BY <1>0, <1>7 DEF ReadOk, Types
    <3>2. replies[conn[s]] = <<Tag(s)>>
      BY <1>0, <3>1 DEF ExchangeInv, Exchange
    <3>3. answer'[s] = Tag(s) /\ Tag(s)' = Tag(s) /\ calls[s] > 0
      BY <1>0, <3>1, <3>2 DEF Tag, AnswerInv, Answered
    <3>4. Tag(s) # Error
      BY <1>0, <3>3 DEF Tag, Error, Types
    <3> QED
      BY <3>1, <3>3, <3>4 DEF Answered
  <2> QED
    BY <1>0, <2>1, <2>2 DEF OthersKept, AnswerInv, Answered, Tag
<1>8. ASSUME NEW s \in Strands, Release(s)
      PROVE  AnswerInv'
  <2>1. OthersKept(s)
    BY <1>0, <1>8, OthersStep
  <2>2. Answered(s)'
    <3>1. /\ answer' = answer /\ calls' = calls /\ pc[s] = "release" /\ pc'[s] = "idle"
          /\ req' = req /\ dials' = dials
      BY <1>0, <1>8, ReleaseFacts DEF Pools, Closes, ReleaseRest, Types
    <3> QED
      BY <1>0, <3>1 DEF AnswerInv, Answered, Tag
  <2> QED
    BY <1>0, <2>1, <2>2 DEF OthersKept, AnswerInv, Answered, Tag
<1>9. ASSUME NEW c \in Conns, Serve(c)
      PROVE  AnswerInv'
  <2>1. AllKept
    BY <1>9, EnvironmentStep
  <2> QED
    BY <1>0, <2>1 DEF AllKept, AnswerInv, Answered, Tag
<1>10. ASSUME NEW c \in Conns, PeerCloses(c)
      PROVE  AnswerInv'
  <2>1. AllKept
    BY <1>10, EnvironmentStep
  <2> QED
    BY <1>0, <2>1 DEF AllKept, AnswerInv, Answered, Tag
<1>11. ASSUME NEW c \in Conns, CloseArrives(c)
      PROVE  AnswerInv'
  <2>1. AllKept
    BY <1>11, EnvironmentStep
  <2> QED
    BY <1>0, <2>1 DEF AllKept, AnswerInv, Answered, Tag
<1>12. CASE TimePasses
  <2>1. AllKept
    BY <1>12, EnvironmentStep
  <2> QED
    BY <1>0, <2>1 DEF AllKept, AnswerInv, Answered, Tag
<1>13. CASE UNCHANGED vars
  <2>1. AllKept
    BY <1>13, EnvironmentStep
  <2> QED
    BY <1>0, <2>1 DEF AllKept, AnswerInv, Answered, Tag
<1> HIDE DEF pool, network, strand
<1> QED
  BY <1>1, <1>2, <1>3, <1>4, <1>5, <1>6, <1>7, <1>8,
     <1>9, <1>10, <1>11, <1>12, <1>13 DEF Next

-----------------------------------------------------------------------------
(* No connection is pooled twice.                                          *)
Distinct(f) ==
    \A l, m \in Keys : \A i \in 1..Len(f[l]), j \in 1..Len(f[m]) :
        f[l][i] = f[m][j] => l = m /\ i = j

LEMMA PooledOnce ==
    ASSUME PoolAssumptions, Types, OneOwner
    PROVE  /\ Distinct(idle) /\ Pooled \subseteq Conns /\ None \notin Pooled
           /\ \A c : c \in Pooled <=> \E k \in Keys : \E i \in 1..Len(idle[k]) : idle[k][i] = c
<1>1. idle \in [Keys -> Seq(Conns)] /\ \A k \in Keys : DOMAIN idle[k] = 1..Len(idle[k])
  BY DEF Types
<1>2. \A c : c \in Pooled <=> \E k \in Keys : \E i \in 1..Len(idle[k]) : idle[k][i] = c
  BY <1>1, PoolOf DEF Pooled
<1>3. \A k \in Keys : \A i \in 1..Len(idle[k]) : idle[k][i] \in Conns
  BY <1>1
<1>4. Pooled \subseteq Conns /\ None \notin Pooled
  BY <1>2, <1>3 DEF PoolAssumptions
<1>5. Distinct(idle)
  <2> SUFFICES ASSUME NEW l \in Keys, NEW m \in Keys, NEW i \in 1..Len(idle[l]),
                      NEW j \in 1..Len(idle[m]), idle[l][i] = idle[m][j]
               PROVE  l = m /\ i = j
    BY DEF Distinct
  <2>1. i \in DOMAIN idle[l] /\ j \in DOMAIN idle[m]
    BY <1>1
  <2> QED
    BY <2>1 DEF OneOwner
<1> QED
  BY <1>2, <1>4, <1>5

LEMMA DistinctDomains ==
    ASSUME NEW f \in [Keys -> Seq(Conns)], Distinct(f)
    PROVE  \A l, m \in Keys : \A i \in DOMAIN f[l], j \in DOMAIN f[m] :
               f[l][i] = f[m][j] => l = m /\ i = j
<1>1. \A k \in Keys : DOMAIN f[k] = 1..Len(f[k])
  OBVIOUS
<1> QED
  <2> SUFFICES ASSUME NEW l \in Keys, NEW m \in Keys, NEW i \in DOMAIN f[l],
                      NEW j \in DOMAIN f[m], f[l][i] = f[m][j]
               PROVE  l = m /\ i = j
    OBVIOUS
  <2>1. i \in 1..Len(f[l]) /\ j \in 1..Len(f[m])
    BY <1>1
  <2> QED
    BY <2>1 DEF Distinct

(* Removing from the front keeps the entries distinct, and so does putting *)
(* a new one there.                                                        *)
LEMMA FrontRemoved ==
    ASSUME NEW f \in [Keys -> Seq(Conns)], NEW g \in [Keys -> Seq(Conns)], Distinct(f),
           NEW k \in Keys, NEW n \in Nat, \A l \in Keys \ {k} : g[l] = f[l],
           \A j \in 1..Len(g[k]) : n + j \in 1..Len(f[k]) /\ g[k][j] = f[k][n + j]
    PROVE  Distinct(g)
<1> SUFFICES ASSUME NEW l \in Keys, NEW m \in Keys, NEW i \in 1..Len(g[l]), NEW j \in 1..Len(g[m]),
                    g[l][i] = g[m][j]
             PROVE  l = m /\ i = j
  BY DEF Distinct
<1> DEFINE p(x, y) == IF x = k THEN n + y ELSE y
<1>1. p(l, i) \in 1..Len(f[l]) /\ f[l][p(l, i)] = g[l][i]
  OBVIOUS
<1>2. p(m, j) \in 1..Len(f[m]) /\ f[m][p(m, j)] = g[m][j]
  OBVIOUS
<1>3. l = m /\ p(l, i) = p(m, j)
  <2> HIDE DEF p
  <2> QED
    BY <1>1, <1>2 DEF Distinct
<1> QED
  BY <1>3

(* g is f with d, which f does not have, in front at k.                    *)
FrontOf(f, g, k, d) ==
    /\ f \in [Keys -> Seq(Conns)] /\ g \in [Keys -> Seq(Conns)] /\ Distinct(f)
    /\ \A l \in Keys \ {k} : g[l] = f[l]
    /\ g[k][1] = d /\ \A l \in Keys : \A i \in 1..Len(f[l]) : f[l][i] # d
    /\ \A j \in 1..Len(g[k]) : j # 1 => j - 1 \in 1..Len(f[k]) /\ g[k][j] = f[k][j - 1]

LEMMA FrontPut ==
    ASSUME NEW f, NEW g, NEW k \in Keys, NEW d \in Conns, FrontOf(f, g, k, d)
    PROVE  Distinct(g)
<1> USE DEF FrontOf
<1> SUFFICES ASSUME NEW l \in Keys, NEW m \in Keys, NEW i \in 1..Len(g[l]), NEW j \in 1..Len(g[m]),
                    g[l][i] = g[m][j]
             PROVE  l = m /\ i = j
  BY DEF Distinct
<1> DEFINE p(x, y) == IF x = k THEN y - 1 ELSE y
<1>1. \/ l = k /\ i = 1 /\ g[l][i] = d
      \/ ~(l = k /\ i = 1) /\ p(l, i) \in 1..Len(f[l]) /\ f[l][p(l, i)] = g[l][i]
  OBVIOUS
<1>2. \/ m = k /\ j = 1 /\ g[m][j] = d
      \/ ~(m = k /\ j = 1) /\ p(m, j) \in 1..Len(f[m]) /\ f[m][p(m, j)] = g[m][j]
  OBVIOUS
<1>3. CASE (l = k /\ i = 1) \/ (m = k /\ j = 1)
  <2> HIDE DEF p
  <2> QED
    BY <1>1, <1>2, <1>3
<1>4. CASE ~(l = k /\ i = 1) /\ ~(m = k /\ j = 1)
  <2>1. l = m /\ p(l, i) = p(m, j)
    <3> HIDE DEF p
    <3> QED
      BY <1>1, <1>2, <1>4, SMTT(60) DEF Distinct
  <2> QED
    BY <2>1
<1> QED
  BY <1>3, <1>4

(* Whoever is neither opened, dropped nor moved is where it was.           *)
LEMMA OwnersSame ==
    ASSUME OneOwner, Types, idle' = idle, conn' = conn,
           \A c \in Conns : peer'[c] = "unused" <=> peer[c] = "unused"
    PROVE  OneOwner'
<1>1. Pooled' = Pooled
  BY DEF Pooled
<1> QED
  BY <1>1 DEF OneOwner

(* Dropping the connection d that strand s holds.                          *)
LEMMA OwnerDrops ==
    ASSUME PoolAssumptions, OneOwner, Types, NEW s \in Strands, NEW d \in Conns, d = conn[s],
           idle' = idle, conn' = [conn EXCEPT ![s] = None], Drop({d})
    PROVE  OneOwner'
<1>1. Pooled' = Pooled
  BY DEF Pooled
<1>2. /\ conn'[s] = None /\ \A t \in Strands : t # s => conn'[t] = conn[t]
      /\ peer'[d] = "unused" /\ \A c \in Conns : c # d => peer'[c] = peer[c]
  BY DEF Types, Drop
<1>3. None \notin Pooled
  BY PooledOnce
<1>4. d \notin Pooled /\ \A t \in Strands : conn[t] = d => t = s
  BY DEF OneOwner, PoolAssumptions
<1>5. \A c \in Conns : peer'[c] # "unused" <=> c \in Pooled' \/ \E t \in Strands : conn'[t] = c
  <2>1. ASSUME NEW c \in Conns, c # d
        PROVE  peer'[c] # "unused" <=> c \in Pooled' \/ \E t \in Strands : conn'[t] = c
    <3>1. c # None
      BY DEF PoolAssumptions
    <3>2. (\E t \in Strands : conn'[t] = c) <=> \E t \in Strands : conn[t] = c
      BY <1>2, <2>1, <3>1
    <3> QED
      BY <1>1, <1>2, <2>1, <3>2 DEF OneOwner
  <2>2. d \notin Pooled' /\ \A t \in Strands : conn'[t] # d
    BY <1>1, <1>2, <1>4 DEF PoolAssumptions
  <2> QED
    BY <1>2, <2>1, <2>2
<1>6. \A t \in Strands : conn'[t] \notin Pooled'
  BY <1>1, <1>2, <1>3 DEF OneOwner
<1>7. \A t, u \in Strands : conn'[t] = conn'[u] /\ conn'[t] # None => t = u
  BY <1>2 DEF OneOwner
<1> QED
  BY <1>5, <1>6, <1>7 DEF OneOwner

(* The pool after d was put in front of the entries q of k.                *)
InFront(k, q, d) ==
    /\ idle' \in [Keys -> Seq(Conns)]
    /\ \A l \in Keys \ {k} : idle'[l] = idle[l]
    /\ Len(idle'[k]) = Len(q) + 1 /\ idle'[k][1] = d
    /\ \A j \in 1..Len(idle'[k]) : j # 1 => j - 1 \in 1..Len(q) /\ idle'[k][j] = q[j - 1]
    /\ \A c : c \in Pooled' <=> c \in Pooled \/ c = d

LEMMA PoolsSeq ==
    ASSUME Types, NEW k \in Keys, NEW d \in Conns, NEW q \in Seq(Conns), q = idle[k],
           idle' = [idle EXCEPT ![k] = <<d>> \o idle[k]]
    PROVE  InFront(k, q, d)
<1>1. PICK r \in Seq(Conns) : r = <<d>> \o q
  <2>1. <<d>> \in Seq(Conns)
    OBVIOUS
  <2>2. <<d>> \o q \in Seq(Conns)
    BY <2>1, ConcatProperties
  <2> QED
    BY <2>2
<1>2. /\ Len(q) \in Nat /\ Len(r) = Len(q) + 1 /\ r[1] = d
      /\ \A j \in 1..Len(r) : j # 1 => j - 1 \in 1..Len(q) /\ r[j] = q[j - 1]
      /\ \A i \in 1..Len(q) : i + 1 \in 1..Len(r) /\ r[i + 1] = q[i]
  BY <1>1
<1>3. /\ idle \in [Keys -> Seq(Conns)] /\ idle' \in [Keys -> Seq(Conns)]
      /\ idle'[k] = r /\ \A l \in Keys \ {k} : idle'[l] = idle[l]
  BY <1>1 DEF Types
<1>4. /\ \A c : c \in Pooled <=> \E l \in Keys : \E i \in 1..Len(idle[l]) : idle[l][i] = c
      /\ \A c : c \in Pooled' <=> \E l \in Keys : \E i \in 1..Len(idle'[l]) : idle'[l][i] = c
  BY <1>3, PoolOf DEF Pooled
<1>5. ASSUME NEW c
      PROVE  c \in Pooled' <=> c \in Pooled \/ c = d
  <2>1. ASSUME c \in Pooled'
        PROVE  c \in Pooled \/ c = d
    <3>1. PICK l \in Keys : \E i \in 1..Len(idle'[l]) : idle'[l][i] = c
      BY <1>4, <2>1
    <3>2. CASE l = k
      BY <1>2, <1>3, <1>4, <3>1, <3>2
    <3>3. CASE l # k
      BY <1>3, <1>4, <3>1, <3>3
    <3> QED
      BY <3>2, <3>3
  <2>2. ASSUME c \in Pooled
        PROVE  c \in Pooled'
    <3>1. PICK l \in Keys : \E i \in 1..Len(idle[l]) : idle[l][i] = c
      BY <1>4, <2>2
    <3>2. CASE l = k
      BY <1>2, <1>3, <1>4, <3>1, <3>2
    <3>3. CASE l # k
      BY <1>3, <1>4, <3>1, <3>3
    <3> QED
      BY <3>2, <3>3
  <2>3. d \in Pooled'
    <3>1. 1 \in 1..Len(r)
      BY <1>2
    <3> QED
      BY <1>2, <1>3, <1>4, <3>1
  <2> QED
    BY <2>1, <2>2, <2>3
<1> QED
  BY <1>2, <1>3, <1>5 DEF InFront

LEMMA OwnerStep ==
    ASSUME PoolAssumptions, IInv, [Next]_vars
    PROVE  OneOwner'
<1> USE DEF pool, network, strand
<1>0. Types /\ ControlInv /\ OneOwner
  BY DEF IInv
<1>1. ASSUME NEW s \in Strands, NEW m \in Methods, NEW k \in Keys,
             NEW A \in SUBSET Addrs, NEW ct \in BOOLEAN, Request(s, m, k, A, ct)
      PROVE  OneOwner'
  <2>1. idle' = idle /\ peer' = peer /\ conn' = conn
    BY <1>1 DEF Request
  <2> QED
    BY <1>0, <2>1, OwnersSame
<1>2. ASSUME NEW s \in Strands, Checkout(s)
      PROVE  OneOwner'
  <2>1. PICK k \in Keys : k = req[s].key
    BY <1>0, <1>2, CheckoutFacts
  <2>2. PICK n \in Nat, c \in Conns \cup {None}, G \in SUBSET Conns : CheckoutTo(s, n, c, G)
    BY <1>0, <1>2, CheckoutFacts
  <2>3. PICK q \in Seq(Conns) : q = idle[k]
    BY <1>0 DEF Types
  <2>4. /\ idle' \in [Keys -> Seq(Conns)]
        /\ \A l \in Keys \ {k} : idle'[l] = idle[l]
        /\ Len(idle'[k]) = Len(q) - n
        /\ \A j \in 1..Len(idle'[k]) : n + j \in 1..Len(q) /\ idle'[k][j] = q[n + j]
        /\ \A i \in 1..n : i \in 1..Len(q) /\ q[i] \in Pooled
        /\ \A d : d \in Pooled' <=> d \in Pooled /\ ~\E i \in 1..n : q[i] = d
    <3>1. FrontGone(k, q, n)
      BY <1>0, <2>1, <2>2, <2>3, CheckoutPool
    <3> QED
      BY <3>1, Zenon DEF FrontGone
  <2>5. /\ conn[s] = None /\ conn'[s] = c /\ \A t \in Strands : t # s => conn'[t] = conn[t]
        /\ \A d \in Conns : peer'[d] = IF d \in G THEN "unused" ELSE peer[d]
        /\ c # None => n \in 1..n /\ c = q[n]
        /\ \A d : d \in G <=> d # c /\ \E i \in 1..n : q[i] = d
    BY <1>0, <2>1, <2>2, <2>3 DEF CheckoutTo, Drop, Types, ControlInv
  <2>6. c # None => c \in Pooled /\ c \notin Pooled'
    BY <2>4, <2>5
  <2>7. None \notin Pooled
    BY <1>0, PooledOnce
  <2>8. \A d \in Conns : peer'[d] # "unused" <=> d \in Pooled' \/ \E t \in Strands : conn'[t] = d
    <3> SUFFICES ASSUME NEW d \in Conns
                 PROVE  peer'[d] # "unused" <=> d \in Pooled' \/ \E t \in Strands : conn'[t] = d
      OBVIOUS
    <3>1. d # None /\ (peer[d] # "unused" <=> d \in Pooled \/ \E t \in Strands : conn[t] = d)
      BY <1>0 DEF PoolAssumptions, OneOwner
    <3>2. \A t \in Strands : conn[t] \notin Pooled
      BY <1>0 DEF OneOwner
    <3>3. CASE d = c
      BY <2>5, <2>6, <3>1, <3>3
    <3>4. CASE d # c /\ d \in G
      <4>1. peer'[d] = "unused" /\ d \in Pooled /\ d \notin Pooled'
        <5>1. peer'[d] = "unused"
          <6>1. \A e \in Conns : peer'[e] = IF e \in G THEN "unused" ELSE peer[e]
            BY <2>5
          <6> QED
            BY <3>4, <6>1
        <5>2. PICK i \in 1..n : q[i] = d
          <6>1. \A e : e \in G <=> e # c /\ \E i \in 1..n : q[i] = e
            BY <2>5
          <6> QED
            BY <3>4, <6>1
        <5>3. q[i] \in Pooled
          <6>1. \A j \in 1..n : q[j] \in Pooled
            BY <2>4
          <6> QED
            BY <6>1
        <5>4. d \notin Pooled'
          <6>1. \A e : e \in Pooled' <=> e \in Pooled /\ ~\E j \in 1..n : q[j] = e
            BY <2>4
          <6> QED
            BY <5>2, <6>1
        <5> QED
          BY <5>1, <5>2, <5>3, <5>4
      <4>2. \A t \in Strands : conn'[t] # d
        BY <2>5, <3>2, <3>4, <4>1
      <4> QED
        BY <4>1, <4>2
    <3>5. CASE d # c /\ d \notin G
      <4>1. d \in Pooled' <=> d \in Pooled
        BY <2>4, <2>5, <3>5
      <4>2. (\E t \in Strands : conn'[t] = d) <=> \E t \in Strands : conn[t] = d
        BY <2>5, <3>1, <3>5
      <4> QED
        BY <2>5, <3>1, <3>5, <4>1, <4>2
    <3> QED
      BY <3>3, <3>4, <3>5
  <2>9. \A t \in Strands : conn'[t] \notin Pooled'
    BY <1>0, <2>4, <2>5, <2>6, <2>7 DEF OneOwner
  <2>10. \A t, u \in Strands : conn'[t] = conn'[u] /\ conn'[t] # None => t = u
    <3>1. \A t \in Strands : conn[t] \notin Pooled
      BY <1>0 DEF OneOwner
    <3>2. \A t \in Strands : t # s /\ c # None => conn[t] # c
      BY <2>6, <3>1
    <3> QED
      BY <1>0, <2>5, <3>2 DEF OneOwner
  <2>11. Distinct(idle')
    <3>1. Distinct(idle) /\ idle \in [Keys -> Seq(Conns)]
      BY <1>0, PooledOnce DEF Types
    <3>2. \A j \in 1..Len(idle'[k]) : n + j \in 1..Len(idle[k]) /\ idle'[k][j] = idle[k][n + j]
      BY <2>3, <2>4
    <3>3. idle' \in [Keys -> Seq(Conns)] /\ \A l \in Keys \ {k} : idle'[l] = idle[l]
      BY <2>4
    <3> QED
      BY <3>1, <3>2, <3>3, FrontRemoved
  <2>12. \A l, m \in Keys : \A i \in DOMAIN idle'[l], j \in DOMAIN idle'[m] :
            idle'[l][i] = idle'[m][j] => l = m /\ i = j
    BY <2>4, <2>11, DistinctDomains
  <2> QED
    BY <2>8, <2>9, <2>10, <2>12 DEF OneOwner
<1>3. ASSUME NEW s \in Strands, Dial(s)
      PROVE  OneOwner'
  <2>1. ASSUME NEW c \in Conns, NEW a \in req[s].addrs, DialTo(s, c, a)
        PROVE  OneOwner'
    <3>1. Pooled' = Pooled /\ idle' = idle
      BY <2>1 DEF Pooled, DialTo
    <3>2. /\ conn[s] = None /\ conn'[s] = c /\ \A t \in Strands : t # s => conn'[t] = conn[t]
          /\ peer[c] = "unused" /\ peer'[c] # "unused"
          /\ \A d \in Conns : d # c => peer'[d] = peer[d]
      BY <1>0, <2>1 DEF DialTo, Types, ControlInv
    <3>3. c # None /\ c \notin Pooled /\ \A t \in Strands : conn[t] # c
      BY <1>0, <3>2 DEF OneOwner, PoolAssumptions
    <3>4. \A d \in Conns : peer'[d] # "unused" <=> d \in Pooled' \/ \E t \in Strands : conn'[t] = d
      <4>1. ASSUME NEW d \in Conns, d # c
            PROVE  peer'[d] # "unused" <=> d \in Pooled' \/ \E t \in Strands : conn'[t] = d
        <5>1. d # None
          BY DEF PoolAssumptions
        <5>2. (\E t \in Strands : conn'[t] = d) <=> \E t \in Strands : conn[t] = d
          BY <3>2, <4>1, <5>1
        <5> QED
          BY <1>0, <3>1, <3>2, <4>1, <5>2 DEF OneOwner
      <4> QED
        BY <3>2, <4>1
    <3>5. \A t \in Strands : conn'[t] \notin Pooled'
      BY <1>0, <3>1, <3>2, <3>3 DEF OneOwner
    <3>6. \A t, u \in Strands : conn'[t] = conn'[u] /\ conn'[t] # None => t = u
      BY <1>0, <3>2, <3>3 DEF OneOwner
    <3> QED
      BY <1>0, <3>1, <3>4, <3>5, <3>6 DEF OneOwner
  <2>2. CASE DialFails(s)
    <3>1. idle' = idle /\ peer' = peer /\ conn' = conn
      BY <2>2 DEF DialFails
    <3> QED
      BY <1>0, <3>1, OwnersSame
  <2> QED
    BY <1>3, <2>1, <2>2, DialFacts
<1>4. ASSUME NEW s \in Strands, Write(s)
      PROVE  OneOwner'
  <2>1. idle' = idle /\ peer' = peer /\ conn' = conn
    BY <1>4 DEF Write
  <2> QED
    BY <1>0, <2>1, OwnersSame
<1>5. ASSUME NEW s \in Strands, WriteFails(s)
      PROVE  OneOwner'
  <2>1. /\ conn[s] \in Conns /\ idle' = idle
        /\ Drop({conn[s]}) /\ conn' = [conn EXCEPT ![s] = None]
    BY <1>0, <1>5, FailedFacts DEF WriteFails
  <2> QED
    BY <1>0, <2>1, OwnerDrops
<1>6. ASSUME NEW s \in Strands, ReadFails(s)
      PROVE  OneOwner'
  <2>1. /\ conn[s] \in Conns /\ idle' = idle
        /\ Drop({conn[s]}) /\ conn' = [conn EXCEPT ![s] = None]
    BY <1>0, <1>6, FailedFacts DEF ReadFails
  <2> QED
    BY <1>0, <2>1, OwnerDrops
<1>7. ASSUME NEW s \in Strands, NEW h \in Headers, ReadOk(s, h)
      PROVE  OneOwner'
  <2>1. idle' = idle /\ peer' = peer /\ conn' = conn
    BY <1>7 DEF ReadOk
  <2> QED
    BY <1>0, <2>1, OwnersSame
<1>8. ASSUME NEW s \in Strands, Release(s)
      PROVE  OneOwner'
  <2>1. PICK d \in Conns : d = conn[s]
    BY <1>0, <1>8 DEF Release, ReleaseIf, ControlInv, Types
  <2>2. PICK k \in Keys : k = req[s].key
    BY <1>0, <1>8 DEF Release, ReleaseIf, ControlInv, Requests
  <2>3. CASE Pools(s, k, d)
    <3>1. PICK q \in Seq(Conns) : q = idle[k]
      BY <1>0 DEF Types
    <3>2. /\ idle' \in [Keys -> Seq(Conns)]
          /\ \A l \in Keys \ {k} : idle'[l] = idle[l]
          /\ Len(idle'[k]) = Len(q) + 1 /\ idle'[k][1] = d
          /\ \A j \in 1..Len(idle'[k]) : j # 1 => j - 1 \in 1..Len(q) /\ idle'[k][j] = q[j - 1]
          /\ \A c : c \in Pooled' <=> c \in Pooled \/ c = d
      <4>1. idle' = [idle EXCEPT ![k] = <<d>> \o idle[k]]
        BY <2>3 DEF Pools
      <4>2. InFront(k, q, d)
        BY <1>0, <3>1, <4>1, PoolsSeq
      <4> QED
        BY <4>2, Zenon DEF InFront
    <3>3. \A c : c \in Pooled' <=> c \in Pooled \/ c = d
      BY <3>2
    <3>4. /\ conn'[s] = None /\ \A t \in Strands : t # s => conn'[t] = conn[t]
          /\ peer' = peer
      BY <1>0, <2>3 DEF Pools, ReleaseRest, Types
    <3>5. /\ d # None
          /\ d \notin Pooled
          /\ None \notin Pooled
          /\ \A t \in Strands : conn[t] = d => t = s
      <4>1. None \notin Pooled
        BY <1>0, PooledOnce
      <4> QED
        BY <1>0, <2>1, <4>1 DEF OneOwner, PoolAssumptions
    <3>6. \A c \in Conns : peer'[c] # "unused" <=> c \in Pooled' \/ \E t \in Strands : conn'[t] = c
      <4> SUFFICES ASSUME NEW c \in Conns
                   PROVE  peer'[c] # "unused" <=> c \in Pooled' \/ \E t \in Strands : conn'[t] = c
        OBVIOUS
      <4>1. peer[c] # "unused" <=> c \in Pooled \/ \E t \in Strands : conn[t] = c
        BY <1>0 DEF OneOwner
      <4>2. c # d => ((\E t \in Strands : conn'[t] = c) <=> \E t \in Strands : conn[t] = c)
        BY <2>1, <3>4 DEF PoolAssumptions
      <4> QED
        BY <2>1, <3>3, <3>4, <4>1, <4>2
    <3>7. \A t \in Strands : conn'[t] \notin Pooled'
      BY <1>0, <3>3, <3>4, <3>5 DEF OneOwner
    <3>8. \A t, u \in Strands : conn'[t] = conn'[u] /\ conn'[t] # None => t = u
      BY <1>0, <3>4 DEF OneOwner
    <3>9. Distinct(idle')
      <4>1. \A l \in Keys : \A i \in 1..Len(idle[l]) : idle[l][i] # d
        BY <1>0, <3>5, PooledOnce
      <4>2. Distinct(idle) /\ idle \in [Keys -> Seq(Conns)]
        BY <1>0, PooledOnce DEF Types
      <4> QED
        <5>1. \A j \in 1..Len(idle'[k]) :
                  j # 1 => j - 1 \in 1..Len(idle[k]) /\ idle'[k][j] = idle[k][j - 1]
          BY <3>1, <3>2
        <5>2. /\ idle' \in [Keys -> Seq(Conns)] /\ idle'[k][1] = d
              /\ \A l \in Keys \ {k} : idle'[l] = idle[l]
          BY <3>2
        <5>3. FrontOf(idle, idle', k, d)
          BY <4>1, <4>2, <5>1, <5>2, Zenon DEF FrontOf
        <5> QED
          BY <5>3, FrontPut, Zenon
    <3>10. \A l, m \in Keys : \A i \in DOMAIN idle'[l], j \in DOMAIN idle'[m] :
              idle'[l][i] = idle'[m][j] => l = m /\ i = j
      BY <3>2, <3>9, DistinctDomains
    <3> QED
      BY <3>6, <3>7, <3>8, <3>10 DEF OneOwner
  <2>4. CASE Closes(s, d)
    BY <1>0, <2>1, <2>4, OwnerDrops DEF Closes, ReleaseRest
  <2> QED
    BY <1>8, <2>1, <2>2, <2>3, <2>4, ReleaseFacts
<1>9. ASSUME NEW c \in Conns, Serve(c)
      PROVE  OneOwner'
  <2>1. idle' = idle /\ peer' = peer /\ conn' = conn
    BY <1>9 DEF Serve
  <2> QED
    BY <1>0, <2>1, OwnersSame
<1>10. ASSUME NEW c \in Conns, PeerCloses(c)
      PROVE  OneOwner'
  <2>1. /\ idle' = idle /\ conn' = conn
        /\ \A d \in Conns : peer'[d] = "unused" <=> peer[d] = "unused"
    BY <1>0, <1>10 DEF PeerCloses, Types
  <2> QED
    BY <1>0, <2>1, OwnersSame
<1>11. ASSUME NEW c \in Conns, CloseArrives(c)
      PROVE  OneOwner'
  <2>1. /\ idle' = idle /\ conn' = conn
        /\ \A d \in Conns : peer'[d] = "unused" <=> peer[d] = "unused"
    BY <1>0, <1>11 DEF CloseArrives, Types
  <2> QED
    BY <1>0, <2>1, OwnersSame
<1>12. CASE TimePasses
  <2>1. idle' = idle /\ peer' = peer /\ conn' = conn
    BY <1>12 DEF TimePasses
  <2> QED
    BY <1>0, <2>1, OwnersSame
<1>13. CASE UNCHANGED vars
  <2>1. idle' = idle /\ peer' = peer /\ conn' = conn
    BY <1>13 DEF vars
  <2> QED
    BY <1>0, <2>1, OwnersSame
<1> HIDE DEF pool, network, strand
<1> QED
  BY <1>1, <1>2, <1>3, <1>4, <1>5, <1>6, <1>7, <1>8,
     <1>9, <1>10, <1>11, <1>12, <1>13 DEF Next

-----------------------------------------------------------------------------
LEMMA CountStep ==
    ASSUME PoolAssumptions, IInv, [Next]_vars
    PROVE  PoolBounded'
<1> USE DEF pool, network, strand
<1>0. Types /\ ControlInv /\ OneOwner /\ PoolBounded
  BY DEF IInv
<1>1. ASSUME NEW s \in Strands, NEW m \in Methods, NEW k \in Keys,
             NEW A \in SUBSET Addrs, NEW ct \in BOOLEAN, Request(s, m, k, A, ct)
      PROVE  PoolBounded'
  BY <1>0, <1>1 DEF Request, PoolBounded, Pooled
<1>2. ASSUME NEW s \in Strands, Checkout(s)
      PROVE  PoolBounded'
  <2>1. PICK k \in Keys : k = req[s].key
    BY <1>0, <1>2, CheckoutFacts
  <2>2. PICK n \in Nat, c \in Conns \cup {None}, G \in SUBSET Conns : CheckoutTo(s, n, c, G)
    BY <1>0, <1>2, CheckoutFacts
  <2>3. PICK q \in Seq(Conns) : q = idle[k]
    BY <1>0 DEF Types
  <2>4. FrontGone(k, q, n)
    BY <1>0, <2>1, <2>2, <2>3, CheckoutPool
  <2>5. n <= Len(q) /\ total' = IF total >= n THEN total - n ELSE 0
    BY <2>1, <2>2, <2>3 DEF CheckoutTo
  <2>6. PICK P : P = {q[i] : i \in 1..n}
    OBVIOUS
  <2>7. IsFiniteSet(P) /\ Cardinality(P) = n
    <3>1. \A i, j \in 1..Len(q) : q[i] = q[j] => i = j
      BY <1>0, <2>3, PooledOnce DEF Distinct
    <3> QED
      BY <2>5, <2>6, <3>1, FrontSize
  <2>8. IsFiniteSet(Pooled) /\ Cardinality(Pooled) \in Nat
    BY <1>0, PooledOnce, FS_Subset, FS_CardinalityType DEF PoolAssumptions
  <2>9. P \subseteq Pooled /\ Pooled' = Pooled \ P
    BY <2>4, <2>6 DEF FrontGone
  <2>10. Pooled \cap P = P
    BY <2>9
  <2>11. Cardinality(Pooled') = Cardinality(Pooled) - n
    <3>1. Cardinality(Pooled \ P) = Cardinality(Pooled) - Cardinality(Pooled \cap P)
      BY <2>8, FS_Difference, Zenon
    <3> QED
      BY <2>7, <2>9, <2>10, <3>1, Zenon
  <2>12. n <= Cardinality(Pooled)
    BY <2>7, <2>8, <2>9, FS_Subset
  <2>13. \A l \in Keys : Len(idle'[l]) <= MAX_PER_HOST
    <3>1. Len(idle'[k]) = Len(q) - n /\ Len(q) <= MAX_PER_HOST /\ Len(q) \in Nat
      BY <1>0, <2>3, <2>4 DEF FrontGone, PoolBounded
    <3>2. \A l \in Keys \ {k} : idle'[l] = idle[l]
      BY <2>4 DEF FrontGone
    <3>3. Len(idle'[k]) <= MAX_PER_HOST
      BY <3>1 DEF PoolAssumptions
    <3> QED
      BY <1>0, <3>2, <3>3 DEF PoolBounded
  <2> QED
    BY <1>0, <2>5, <2>8, <2>11, <2>12, <2>13 DEF PoolBounded, PoolAssumptions
<1>3. ASSUME NEW s \in Strands, Dial(s)
      PROVE  PoolBounded'
  BY <1>0, <1>3 DEF Dial, PoolBounded, Pooled
<1>4. ASSUME NEW s \in Strands, Write(s)
      PROVE  PoolBounded'
  BY <1>0, <1>4 DEF Write, PoolBounded, Pooled
<1>5. ASSUME NEW s \in Strands, WriteFails(s)
      PROVE  PoolBounded'
  BY <1>0, <1>5 DEF WriteFails, PoolBounded, Pooled
<1>6. ASSUME NEW s \in Strands, ReadFails(s)
      PROVE  PoolBounded'
  BY <1>0, <1>6 DEF ReadFails, PoolBounded, Pooled
<1>7. ASSUME NEW s \in Strands, NEW h \in Headers, ReadOk(s, h)
      PROVE  PoolBounded'
  BY <1>0, <1>7 DEF ReadOk, PoolBounded, Pooled
<1>8. ASSUME NEW s \in Strands, Release(s)
      PROVE  PoolBounded'
  <2>1. PICK d \in Conns : d = conn[s]
    BY <1>0, <1>8 DEF Release, ReleaseIf, ControlInv, Types
  <2>2. PICK k \in Keys : k = req[s].key
    BY <1>0, <1>8 DEF Release, ReleaseIf, ControlInv, Requests
  <2>3. CASE Pools(s, k, d)
    <3>1. PICK q \in Seq(Conns) : q = idle[k]
      BY <1>0 DEF Types
    <3>2. InFront(k, q, d)
      BY <1>0, <2>3, <3>1, PoolsSeq DEF Pools
    <3>3. total < MAX_GLOBAL /\ Len(q) < MAX_PER_HOST /\ total' = total + 1
      BY <2>2, <2>3, <3>1 DEF Pools, Fits
    <3>4. IsFiniteSet(Pooled) /\ d \notin Pooled
      BY <1>0, <2>1, PooledOnce, FS_Subset DEF PoolAssumptions, OneOwner
    <3>5. Pooled' = Pooled \cup {d}
      BY <3>2 DEF InFront
    <3>6. Cardinality(Pooled') = Cardinality(Pooled) + 1
      BY <3>4, <3>5, FS_AddElement
    <3>7. \A l \in Keys : Len(idle'[l]) <= MAX_PER_HOST
      <4>1. /\ \A l \in Keys \ {k} : idle'[l] = idle[l]
            /\ Len(idle'[k]) = Len(q) + 1
        BY <3>2, Zenon DEF InFront
      <4>2. \A l \in Keys : Len(idle[l]) <= MAX_PER_HOST
        BY <1>0, Zenon DEF PoolBounded
      <4>3. Len(idle'[k]) <= MAX_PER_HOST
        BY <3>3, <4>1 DEF PoolAssumptions
      <4>4. \A l \in Keys \ {k} : Len(idle'[l]) <= MAX_PER_HOST
        BY <4>1, <4>2, Zenon
      <4> QED
        BY <4>3, <4>4, Zenon
    <3> QED
      BY <1>0, <3>3, <3>6, <3>7 DEF PoolBounded, PoolAssumptions, Types
  <2>4. CASE Closes(s, d)
    BY <1>0, <2>4 DEF Closes, PoolBounded, Pooled
  <2> QED
    BY <1>8, <2>1, <2>2, <2>3, <2>4, ReleaseFacts
<1>9. ASSUME NEW c \in Conns, Serve(c)
      PROVE  PoolBounded'
  BY <1>0, <1>9 DEF Serve, PoolBounded, Pooled
<1>10. ASSUME NEW c \in Conns, PeerCloses(c)
      PROVE  PoolBounded'
  BY <1>0, <1>10 DEF PeerCloses, PoolBounded, Pooled
<1>11. ASSUME NEW c \in Conns, CloseArrives(c)
      PROVE  PoolBounded'
  BY <1>0, <1>11 DEF CloseArrives, PoolBounded, Pooled
<1>12. CASE TimePasses
  BY <1>0, <1>12 DEF TimePasses, PoolBounded, Pooled
<1>13. CASE UNCHANGED vars
  BY <1>0, <1>13 DEF vars, PoolBounded, Pooled
<1> HIDE DEF pool, network, strand
<1> QED
  BY <1>1, <1>2, <1>3, <1>4, <1>5, <1>6, <1>7, <1>8,
     <1>9, <1>10, <1>11, <1>12, <1>13 DEF Next

LEMMA ApprovedStep ==
    ASSUME PoolAssumptions, IInv, [Next]_vars
    PROVE  OnlyApproved'
<1> USE DEF pool, network, strand
<1>0. Types /\ ControlInv /\ OnlyApproved
  BY DEF IInv
<1>1. ASSUME NEW s \in Strands, NEW m \in Methods, NEW k \in Keys,
             NEW A \in SUBSET Addrs, NEW ct \in BOOLEAN, Request(s, m, k, A, ct)
      PROVE  OnlyApproved'
  BY <1>0, <1>1 DEF Request, OnlyApproved, Types
<1>2. ASSUME NEW s \in Strands, Checkout(s)
      PROVE  OnlyApproved'
  <2>1. PICK n \in Nat, c \in Conns \cup {None}, G \in SUBSET Conns : CheckoutTo(s, n, c, G)
    BY <1>0, <1>2, CheckoutFacts
  <2>2. Drop(G)
    BY <2>1 DEF CheckoutTo
  <2> QED
    BY <1>0, <2>2 DEF Drop, OnlyApproved
<1>3. ASSUME NEW s \in Strands, Dial(s)
      PROVE  OnlyApproved'
  <2>1. ASSUME NEW c \in Conns, NEW a \in req[s].addrs, DialTo(s, c, a)
        PROVE  OnlyApproved'
    <3>1. a \in SafeAddrs
      BY <1>0, <2>1 DEF DialTo, ControlInv, Requests
    <3>2. /\ at' = [at EXCEPT ![c] = a]
          /\ \A d \in Conns : d # c => peer'[d] = peer[d]
      BY <1>0, <2>1 DEF DialTo, Types
    <3> QED
      BY <1>0, <3>1, <3>2 DEF OnlyApproved, Types
  <2>2. CASE DialFails(s)
    BY <1>0, <2>2 DEF DialFails, OnlyApproved
  <2> QED
    BY <1>3, <2>1, <2>2, DialFacts
<1>4. ASSUME NEW s \in Strands, Write(s)
      PROVE  OnlyApproved'
  BY <1>0, <1>4 DEF Write, OnlyApproved, Types
<1>5. ASSUME NEW s \in Strands, WriteFails(s)
      PROVE  OnlyApproved'
  <2>1. Drop({conn[s]})
    BY <1>0, <1>5, FailedFacts DEF WriteFails
  <2> QED
    BY <1>0, <2>1 DEF Drop, OnlyApproved
<1>6. ASSUME NEW s \in Strands, ReadFails(s)
      PROVE  OnlyApproved'
  <2>1. Drop({conn[s]})
    BY <1>0, <1>6, FailedFacts DEF ReadFails
  <2> QED
    BY <1>0, <2>1 DEF Drop, OnlyApproved
<1>7. ASSUME NEW s \in Strands, NEW h \in Headers, ReadOk(s, h)
      PROVE  OnlyApproved'
  BY <1>0, <1>7 DEF ReadOk, OnlyApproved, Types
<1>8. ASSUME NEW s \in Strands, Release(s)
      PROVE  OnlyApproved'
  <2>1. CASE Pools(s, req[s].key, conn[s])
    BY <1>0, <2>1 DEF Pools, OnlyApproved
  <2>2. CASE Closes(s, conn[s])
    BY <1>0, <2>2 DEF Closes, Drop, OnlyApproved
  <2> QED
    BY <1>8, <2>1, <2>2, ReleaseFacts
<1>9. ASSUME NEW c \in Conns, Serve(c)
      PROVE  OnlyApproved'
  BY <1>0, <1>9 DEF Serve, OnlyApproved, Types
<1>10. ASSUME NEW c \in Conns, PeerCloses(c)
      PROVE  OnlyApproved'
  BY <1>0, <1>10 DEF PeerCloses, OnlyApproved, Types
<1>11. ASSUME NEW c \in Conns, CloseArrives(c)
      PROVE  OnlyApproved'
  BY <1>0, <1>11 DEF CloseArrives, OnlyApproved, Types
<1>12. CASE TimePasses
  BY <1>0, <1>12 DEF TimePasses, OnlyApproved, Types
<1>13. CASE UNCHANGED vars
  BY <1>0, <1>13 DEF vars, OnlyApproved, Types
<1> HIDE DEF pool, network, strand
<1> QED
  BY <1>1, <1>2, <1>3, <1>4, <1>5, <1>6, <1>7, <1>8,
     <1>9, <1>10, <1>11, <1>12, <1>13 DEF Next

-----------------------------------------------------------------------------
(* A held connection is open, in no pool and in no other hands.            *)
LEMMA HeldAlone ==
    ASSUME PoolAssumptions, Types, ControlInv, OneOwner, NEW s \in Strands,
           pc[s] \in {"write", "read", "release"}
    PROVE  /\ conn[s] \in Conns /\ conn[s] \notin Pooled /\ peer[conn[s]] # "unused"
           /\ \A t \in Strands : t # s => conn[t] # conn[s]
<1>1. conn[s] \in Conns /\ conn[s] # None
  BY DEF ControlInv, Types, PoolAssumptions
<1> QED
  BY <1>1 DEF OneOwner

(* A strand whose connection a step does not touch keeps its exchange.     *)
LEMMA ExchangeKept ==
    ASSUME PoolAssumptions, Types, ControlInv, NEW t \in Strands, Exchange(t),
           pc'[t] = pc[t], calls'[t] = calls[t], conn'[t] = conn[t],
           conn[t] \in Conns =>
               asked'[conn[t]] = asked[conn[t]] /\ replies'[conn[t]] = replies[conn[t]]
    PROVE  Exchange(t)'
<1>1. pc[t] \in {"write", "read", "release"} => conn[t] \in Conns
  BY DEF ControlInv, Types
<1>2. Tag(t)' = Tag(t)
  BY DEF Tag
<1> QED
  BY <1>1, <1>2 DEF Exchange, Quiet

(* A step of s that touches no connection but its own.                     *)
LEMMA ExchangeOfOthers ==
    ASSUME PoolAssumptions, Types, ControlInv, OneOwner, ExchangeInv, NEW s \in Strands,
           OthersKept(s),
           NEW d \in Conns, \A t \in Strands : t # s => conn[t] # d,
           \A c \in Conns : c # d => asked'[c] = asked[c] /\ replies'[c] = replies[c]
    PROVE  \A t \in Strands : t # s => Exchange(t)'
<1> SUFFICES ASSUME NEW t \in Strands, t # s
             PROVE  Exchange(t)'
  OBVIOUS
<1>1. pc'[t] = pc[t] /\ calls'[t] = calls[t] /\ conn'[t] = conn[t]
  BY DEF OthersKept
<1>2. conn[t] \in Conns => asked'[conn[t]] = asked[conn[t]] /\ replies'[conn[t]] = replies[conn[t]]
  OBVIOUS
<1>3. Exchange(t)
  BY DEF ExchangeInv
<1> QED
  BY <1>1, <1>2, <1>3, ExchangeKept

(* A strand that drops its connection leaves nothing behind.               *)
LEMMA ExchangeDropped ==
    ASSUME PoolAssumptions, Types, ControlInv, OneOwner, ExchangeInv, NEW s \in Strands,
           OthersKept(s),
           pc[s] \in {"write", "read", "release"}, Drop({conn[s]}), idle' = idle,
           pc'[s] \in {"idle", "redial"}
    PROVE  ExchangeInv'
<1>1. PICK d \in Conns : d = conn[s] /\ \A t \in Strands : t # s => conn[t] # d
  BY HeldAlone
<1>2. /\ \A c \in Conns : c # d => /\ asked'[c] = asked[c] /\ replies'[c] = replies[c]
                                   /\ peer'[c] = peer[c]
      /\ asked'[d] = <<>> /\ replies'[d] = <<>>
  BY <1>1 DEF Drop
<1>3. \A t \in Strands : t # s => Exchange(t)'
  BY <1>1, <1>2, ExchangeOfOthers
<1>4. Exchange(s)'
  BY DEF Exchange
<1>5. \A c \in Conns : peer'[c] = "unused" \/ c \in Pooled' => Quiet(c)'
  BY <1>2 DEF ExchangeInv, Quiet, Pooled
<1> QED
  BY <1>3, <1>4, <1>5 DEF ExchangeInv

LEMMA ExchangeStep ==
    ASSUME PoolAssumptions, IInv, [Next]_vars
    PROVE  ExchangeInv'
<1> USE DEF pool, network, strand
<1>0. Types /\ ControlInv /\ OneOwner /\ ExchangeInv
  BY DEF IInv
<1>1. ASSUME NEW s \in Strands, NEW m \in Methods, NEW k \in Keys,
             NEW A \in SUBSET Addrs, NEW ct \in BOOLEAN, Request(s, m, k, A, ct)
      PROVE  ExchangeInv'
  <2>1. OthersKept(s)
    BY <1>0, <1>1, OthersStep
  <2>5. pc'[s] \in {"idle", "checkout"}
    BY <1>0, <1>1 DEF Request, Answer, Types
  <2>2. UNCHANGED <<idle, peer, asked, replies, conn>>
    BY <1>1 DEF Request
  <2>3. Exchange(s)'
    BY <2>5 DEF Exchange
  <2>4. ASSUME NEW t \in Strands, t # s
        PROVE  Exchange(t)'
    BY <1>0, <2>1, <2>2, <2>4, ExchangeKept DEF OthersKept, ExchangeInv
  <2> QED
    BY <1>0, <2>2, <2>3, <2>4 DEF ExchangeInv, Quiet, Pooled
<1>2. ASSUME NEW s \in Strands, Checkout(s)
      PROVE  ExchangeInv'
  <2>1. PICK k \in Keys : k = req[s].key
    BY <1>0, <1>2, CheckoutFacts
  <2>2. PICK n \in Nat, c \in Conns \cup {None}, G \in SUBSET Conns : CheckoutTo(s, n, c, G)
    BY <1>0, <1>2, CheckoutFacts
  <2>3. PICK q \in Seq(Conns) : q = idle[k]
    BY <1>0 DEF Types
  <2>4. FrontGone(k, q, n)
    BY <1>0, <2>1, <2>2, <2>3, CheckoutPool
  <2>5. /\ conn'[s] = c /\ pc'[s] = IF c # None THEN "write" ELSE "dial"
        /\ c # None => n \in 1..n /\ c = q[n]
        /\ \A d : d \in G <=> d # c /\ \E i \in 1..n : q[i] = d
        /\ Drop(G)
    BY <1>0, <2>1, <2>2, <2>3 DEF CheckoutTo, Types
  <2>6. \A d \in Conns : /\ asked'[d] = IF d \in G THEN <<>> ELSE asked[d]
                         /\ replies'[d] = IF d \in G THEN <<>> ELSE replies[d]
                         /\ peer'[d] = IF d \in G THEN "unused" ELSE peer[d]
    BY <2>5 DEF Drop
  <2>7. OthersKept(s)
    BY <1>0, <1>2, OthersStep
  <2>8. G \subseteq Pooled /\ Pooled' \subseteq Pooled /\ (c # None => c \in Pooled /\ c \notin G)
    BY <2>4, <2>5 DEF FrontGone
  <2>9. \A d \in Conns : peer'[d] = "unused" \/ d \in Pooled' => Quiet(d)'
    BY <1>0, <2>6, <2>8 DEF ExchangeInv, Quiet
  <2>10. Exchange(s)'
    <3>1. c # None => c \in Conns /\ Quiet(c)
      BY <1>0, <2>8 DEF ExchangeInv
    <3>2. c # None => asked'[c] = <<>> /\ replies'[c] = <<>>
      BY <2>6, <2>8, <3>1 DEF Quiet
    <3> QED
      BY <2>5, <3>2 DEF Exchange, Quiet
  <2>11. ASSUME NEW t \in Strands, t # s
         PROVE  Exchange(t)'
    <3>1. conn[t] \notin G
      BY <1>0, <2>8 DEF OneOwner
    <3>2. conn[t] \in Conns =>
              asked'[conn[t]] = asked[conn[t]] /\ replies'[conn[t]] = replies[conn[t]]
      BY <2>6, <3>1
    <3>3. pc'[t] = pc[t] /\ calls'[t] = calls[t] /\ conn'[t] = conn[t]
      BY <2>7, <2>11 DEF OthersKept
    <3> QED
      BY <1>0, <3>2, <3>3, ExchangeKept DEF ExchangeInv
  <2> QED
    BY <2>9, <2>10, <2>11 DEF ExchangeInv
<1>3. ASSUME NEW s \in Strands, Dial(s)
      PROVE  ExchangeInv'
  <2>0. OthersKept(s)
    BY <1>0, <1>3, OthersStep
  <2>1. ASSUME NEW c \in Conns, NEW a \in req[s].addrs, DialTo(s, c, a)
        PROVE  ExchangeInv'
    <3>1. /\ asked' = asked /\ replies' = replies /\ Pooled' = Pooled
          /\ conn'[s] = c /\ pc'[s] = "write" /\ peer[c] = "unused"
          /\ \A d \in Conns : peer'[d] = "unused" => peer[d] = "unused"
      BY <1>0, <2>1 DEF DialTo, Types, Pooled
    <3>2. Exchange(s)'
      BY <1>0, <3>1 DEF Exchange, Quiet, ExchangeInv
    <3>3. ASSUME NEW t \in Strands, t # s
          PROVE  Exchange(t)'
      BY <1>0, <2>0, <3>1, <3>3, ExchangeKept DEF OthersKept, ExchangeInv
    <3> QED
      BY <1>0, <3>1, <3>2, <3>3 DEF ExchangeInv, Quiet
  <2>2. CASE DialFails(s)
    <3>1. UNCHANGED <<idle, peer, asked, replies>> /\ pc'[s] = "idle"
      BY <1>0, <2>2 DEF DialFails, Types
    <3>2. Exchange(s)'
      BY <3>1 DEF Exchange
    <3>3. ASSUME NEW t \in Strands, t # s
          PROVE  Exchange(t)'
      BY <1>0, <2>0, <3>1, <3>3, ExchangeKept DEF OthersKept, ExchangeInv
    <3> QED
      BY <1>0, <3>1, <3>2, <3>3 DEF ExchangeInv, Quiet, Pooled
  <2> QED
    BY <1>3, <2>1, <2>2, DialFacts
<1>4. ASSUME NEW s \in Strands, Write(s)
      PROVE  ExchangeInv'
  <2>0. OthersKept(s)
    BY <1>0, <1>4, OthersStep
  <2>1. PICK d \in Conns : /\ d = conn[s] /\ d \notin Pooled /\ peer[d] # "unused"
                           /\ \A t \in Strands : t # s => conn[t] # d
    BY <1>0, <1>4, HeldAlone DEF Write
  <2>2. asked[d] = <<>> /\ replies[d] = <<>>
    BY <1>0, <1>4, <2>1 DEF Write, ExchangeInv, Exchange, Quiet
  <2>3. /\ \A c \in Conns : c # d => asked'[c] = asked[c] /\ replies'[c] = replies[c]
        /\ asked'[d] = <<Tag(s)>> /\ replies'[d] = <<>>
        /\ pc'[s] = "read" /\ conn'[s] = d /\ calls' = calls /\ peer' = peer /\ Pooled' = Pooled
    BY <1>0, <1>4, <2>1, <2>2 DEF Write, Types, Pooled
  <2>4. Exchange(s)'
    BY <2>3 DEF Exchange, Tag
  <2>5. \A t \in Strands : t # s => Exchange(t)'
    BY <1>0, <2>0, <2>1, <2>3, ExchangeOfOthers
  <2> QED
    BY <1>0, <2>1, <2>3, <2>4, <2>5 DEF ExchangeInv, Quiet
<1>5. ASSUME NEW s \in Strands, WriteFails(s)
      PROVE  ExchangeInv'
  <2>1. OthersKept(s)
    BY <1>0, <1>5, OthersStep
  <2>2. pc[s] \in {"write", "read"} /\ Failed(s) /\ idle' = idle
    BY <1>5 DEF WriteFails
  <2>3. Drop({conn[s]}) /\ pc'[s] \in {"idle", "redial"}
    BY <1>0, <2>2, FailedAt, Zenon
  <2> QED
    BY <1>0, <2>1, <2>2, <2>3, ExchangeDropped
<1>6. ASSUME NEW s \in Strands, ReadFails(s)
      PROVE  ExchangeInv'
  <2>1. OthersKept(s)
    BY <1>0, <1>6, OthersStep
  <2>2. pc[s] \in {"write", "read"} /\ Failed(s) /\ idle' = idle
    BY <1>6 DEF ReadFails
  <2>3. Drop({conn[s]}) /\ pc'[s] \in {"idle", "redial"}
    BY <1>0, <2>2, FailedAt, Zenon
  <2> QED
    BY <1>0, <2>1, <2>2, <2>3, ExchangeDropped
<1>7. ASSUME NEW s \in Strands, NEW h \in Headers, ReadOk(s, h)
      PROVE  ExchangeInv'
  <2>0. OthersKept(s)
    BY <1>0, <1>7, OthersStep
  <2>1. PICK d \in Conns : /\ d = conn[s] /\ d \notin Pooled /\ peer[d] # "unused"
                           /\ \A t \in Strands : t # s => conn[t] # d
    BY <1>0, <1>7, HeldAlone DEF ReadOk
  <2>2. asked[d] = <<>> /\ replies[d] = <<Tag(s)>>
    BY <1>0, <1>7, <2>1 DEF ReadOk, ExchangeInv, Exchange
  <2>3. /\ \A c \in Conns : c # d => asked'[c] = asked[c] /\ replies'[c] = replies[c]
        /\ asked'[d] = <<>> /\ replies'[d] = <<>>
        /\ pc'[s] = "release" /\ conn'[s] = d /\ peer' = peer /\ Pooled' = Pooled
    BY <1>0, <1>7, <2>1, <2>2 DEF ReadOk, Types, Pooled
  <2>4. Exchange(s)'
    BY <2>3 DEF Exchange, Quiet
  <2>5. \A t \in Strands : t # s => Exchange(t)'
    BY <1>0, <2>0, <2>1, <2>3, ExchangeOfOthers
  <2> QED
    BY <1>0, <2>1, <2>3, <2>4, <2>5 DEF ExchangeInv, Quiet
<1>8. ASSUME NEW s \in Strands, Release(s)
      PROVE  ExchangeInv'
  <2>0. OthersKept(s) /\ pc[s] = "release"
    BY <1>0, <1>8, OthersStep DEF Release, ReleaseIf
  <2>1. PICK d \in Conns : d = conn[s]
    BY <1>0, <2>0, HeldAlone
  <2>2. PICK k \in Keys : k = req[s].key
    BY <1>0, <2>0 DEF ControlInv, Requests
  <2>3. CASE Pools(s, k, d)
    <3>1. PICK q \in Seq(Conns) : q = idle[k]
      BY <1>0 DEF Types
    <3>2. InFront(k, q, d)
      BY <1>0, <2>3, <3>1, PoolsSeq DEF Pools
    <3>3. \A c \in Pooled' : c \in Pooled \/ c = d
      BY <3>2 DEF InFront
    <3>4. UNCHANGED <<peer, asked, replies>> /\ pc'[s] = "idle"
      BY <1>0, <2>3 DEF Pools, ReleaseRest, Types
    <3>5. Quiet(d)
      BY <1>0, <2>0, <2>1 DEF ExchangeInv, Exchange
    <3>6. Exchange(s)'
      BY <3>4 DEF Exchange
    <3>7. ASSUME NEW t \in Strands, t # s
          PROVE  Exchange(t)'
      BY <1>0, <2>0, <3>4, <3>7, ExchangeKept DEF OthersKept, ExchangeInv
    <3>8. \A c \in Conns : peer'[c] = "unused" \/ c \in Pooled' => Quiet(c)'
      BY <1>0, <3>3, <3>4, <3>5 DEF ExchangeInv, Quiet
    <3> QED
      BY <3>6, <3>7, <3>8 DEF ExchangeInv
  <2>4. CASE Closes(s, d)
    <3>1. Drop({conn[s]}) /\ idle' = idle /\ pc'[s] = "idle"
      BY <1>0, <2>1, <2>4 DEF Closes, ReleaseRest, Types
    <3> QED
      BY <1>0, <2>0, <3>1, ExchangeDropped
  <2> QED
    BY <1>8, <2>1, <2>2, <2>3, <2>4, ReleaseFacts
<1>9. ASSUME NEW c \in Conns, Serve(c)
      PROVE  ExchangeInv'
  <2>1. UNCHANGED <<idle, peer, pc, conn, calls>> /\ asked[c] # <<>>
    BY <1>9 DEF Serve
  <2>2. /\ asked'[c] = Tail(asked[c]) /\ replies'[c] = Append(replies[c], Head(asked[c]))
        /\ \A d \in Conns : d # c => asked'[d] = asked[d] /\ replies'[d] = replies[d]
    BY <1>0, <1>9 DEF Serve, Types
  <2>3. peer[c] # "unused" /\ c \notin Pooled
    BY <1>0, <2>1 DEF ExchangeInv, Quiet
  <2>4. \A d \in Conns : peer'[d] = "unused" \/ d \in Pooled' => Quiet(d)'
    BY <1>0, <2>1, <2>2, <2>3 DEF ExchangeInv, Quiet, Pooled
  <2>5. ASSUME NEW t \in Strands, conn[t] # c
        PROVE  Exchange(t)'
    BY <1>0, <2>1, <2>2, <2>5, ExchangeKept DEF ExchangeInv
  <2>6. ASSUME NEW t \in Strands, conn[t] = c
        PROVE  Exchange(t)'
    <3>1. pc[t] = "read"
      BY <1>0, <2>1, <2>6 DEF ControlInv, Types, ExchangeInv, Exchange, Quiet, PoolAssumptions
    <3>2. asked[c] = <<Tag(t)>> /\ replies[c] = <<>>
      BY <1>0, <2>1, <2>6, <3>1 DEF ExchangeInv, Exchange
    <3>3. asked'[c] = <<>> /\ replies'[c] = <<Tag(t)>> /\ Tag(t)' = Tag(t)
      BY <2>1, <2>2, <3>2 DEF Tag
    <3> QED
      BY <2>1, <2>6, <3>1, <3>3 DEF Exchange
  <2> QED
    BY <2>4, <2>5, <2>6 DEF ExchangeInv
<1>10. ASSUME NEW c \in Conns, PeerCloses(c)
      PROVE  ExchangeInv'
  <2>1. /\ UNCHANGED <<idle, asked, replies, pc, conn, calls>>
        /\ \A d \in Conns : peer'[d] = "unused" => peer[d] = "unused"
    BY <1>0, <1>10 DEF PeerCloses, Types
  <2> QED
    BY <1>0, <2>1 DEF ExchangeInv, Exchange, Quiet, Pooled, Tag
<1>11. ASSUME NEW c \in Conns, CloseArrives(c)
      PROVE  ExchangeInv'
  <2>1. /\ UNCHANGED <<idle, asked, replies, pc, conn, calls>>
        /\ \A d \in Conns : peer'[d] = "unused" => peer[d] = "unused"
    BY <1>0, <1>11 DEF CloseArrives, Types
  <2> QED
    BY <1>0, <2>1 DEF ExchangeInv, Exchange, Quiet, Pooled, Tag
<1>12. CASE TimePasses
  <2>1. UNCHANGED <<idle, peer, asked, replies, pc, conn, calls>>
    BY <1>12 DEF TimePasses
  <2> QED
    BY <1>0, <2>1 DEF ExchangeInv, Exchange, Quiet, Pooled, Tag
<1>13. CASE UNCHANGED vars
  <2>1. UNCHANGED <<idle, peer, asked, replies, pc, conn, calls>>
    BY <1>13 DEF vars
  <2> QED
    BY <1>0, <2>1 DEF ExchangeInv, Exchange, Quiet, Pooled, Tag
<1> HIDE DEF pool, network, strand
<1> QED
  BY <1>1, <1>2, <1>3, <1>4, <1>5, <1>6, <1>7, <1>8,
     <1>9, <1>10, <1>11, <1>12, <1>13 DEF Next

-----------------------------------------------------------------------------
LEMMA InitHolds ==
    ASSUME PoolAssumptions, Init
    PROVE  IInv
<1>1. idle \in [Keys -> Seq(Conns)] /\ \A k \in Keys : idle[k] = <<>>
  BY DEF Init
<1>2. Pooled = {}
  <2>1. \A k \in Keys : 1..Len(idle[k]) = {}
    BY <1>1
  <2>2. \A c : c \in Pooled <=> \E k \in Keys : \E i \in 1..Len(idle[k]) : idle[k][i] = c
    BY <1>1, PoolOf DEF Pooled
  <2> QED
    BY <2>1, <2>2
<1>3. Types
  BY DEF Init, Types, NoReq, PoolAssumptions
<1>4. ControlInv
  BY DEF Init, ControlInv
<1>5. OneOwner
  BY <1>1, <1>2 DEF Init, OneOwner, PoolAssumptions
<1>6. PoolBounded
  BY <1>1, <1>2, FS_EmptySet DEF Init, PoolBounded, PoolAssumptions
<1>7. OnlyApproved
  BY DEF Init, OnlyApproved
<1>8. ExchangeInv
  BY DEF Init, ExchangeInv, Exchange, Quiet
<1>9. AttemptInv
  BY DEF Init, AttemptInv, Attempt
<1>10. AnswerInv
  BY DEF Init, AnswerInv, Answered, NoAnswer, Error
<1> QED
  BY <1>3, <1>4, <1>5, <1>6, <1>7, <1>8, <1>9, <1>10 DEF IInv

(* Every step of a strand, a server, the network or the clock preserves    *)
(* the invariant.                                                          *)
LEMMA StepHolds ==
    ASSUME PoolAssumptions
    PROVE  IInv /\ [Next]_vars => IInv'
BY TypeStep, ControlStep, OwnerStep, CountStep, ApprovedStep, ExchangeStep, AttemptStep,
   AnswerStep DEF IInv

LEMMA PoolFollows ==
    ASSUME PoolAssumptions
    PROVE  IInv => PoolSound
<1> SUFFICES ASSUME IInv PROVE PoolSound
  OBVIOUS
<1>1. TypeOK
  <2>1. \A s \in Strands : sends[s] \in 0..2 /\ dials[s] \in 0..1
    BY DEF IInv, Types, AttemptInv, Attempt
  <2>2. sends \in [Strands -> 0..2] /\ dials \in [Strands -> 0..1]
    BY <2>1 DEF IInv, Types
  <2> QED
    BY <2>2 DEF IInv, Types, ControlInv, TypeOK
<1>2. AnswerIsOwn
  BY DEF IInv, AnswerInv, Answered, AnswerIsOwn
<1> QED
  BY <1>1, <1>2 DEF IInv, PoolSound

LEMMA ReplayFollows ==
    ASSUME PoolAssumptions
    PROVE  IInv => ReplaySafe
BY DEF IInv, AttemptInv, Attempt, Again, AnswerInv, Answered, ReplaySafe, SentOnce,
       StaleIsInvisible

(* IInv is inductive: it holds when the client starts and every step of a  *)
(* strand, a server, the network or the clock preserves it.                *)
THEOREM Invariance ==
    ASSUME PoolAssumptions
    PROVE  Spec => []IInv
BY InitHolds, StepHolds, PTL DEF Spec

(* The pool of pool.rs keeps to its caps and its count is exact, a         *)
(* connection is never shared, leaked or handed on with a response still   *)
(* to come, and only approved addresses are dialled, for any number of     *)
(* strands and whatever the servers do.                                    *)
THEOREM PoolKept ==
    ASSUME PoolAssumptions
    PROVE  Spec => []PoolSound
BY Invariance, PoolFollows, PTL

(* The retry of perform_validated writes a request twice only if its       *)
(* method allows it and its first connection was a pooled one, and lets no *)
(* idempotent request fail without a fresh dial.                           *)
THEOREM RetrySafe ==
    ASSUME PoolAssumptions
    PROVE  Spec => []ReplaySafe
BY Invariance, ReplayFollows, PTL

-----------------------------------------------------------------------------
(***************************************************************************)
(* The client and the UDP registry side by side.  What is proved of Udp is *)
(* taken over by instantiating its proofs as MCHttpClient instantiates it; *)
(* the two instances are the same formulas under two names.                *)
(***************************************************************************)
Facts == INSTANCE UdpProofs WITH
    Sockets <- Conns, Ports <- Keys \cup {"any"}, pc <- upc, answer <- result

LEMMA SameAssumptions == Facts!UdpAssumptions
BY UdpAssumption DEF Datagrams!UdpAssumptions, Facts!UdpAssumptions,
                     Datagrams!IsFiniteSet, Facts!IsFiniteSet

LEMMA SameInit == Datagrams!Init => Facts!Init
BY Zenon DEF Datagrams!Init, Facts!Init, Datagrams!NoJob, Facts!NoJob, Datagrams!Fail, Facts!Fail

LEMMA SameNext == Datagrams!Next => Facts!Next
BY Zenon DEF Datagrams!Next, Facts!Next, Datagrams!BindPort, Facts!BindPort,
       Datagrams!Allocate, Facts!Allocate, Datagrams!SendTo, Facts!SendTo,
       Datagrams!ReceiveFrom, Facts!ReceiveFrom, Datagrams!Close, Facts!Close,
       Datagrams!Resolve, Facts!Resolve, Datagrams!Send, Facts!Send,
       Datagrams!SendRefused, Facts!SendRefused, Datagrams!Receive, Facts!Receive,
       Datagrams!ReceiveFails, Facts!ReceiveFails,
       Datagrams!DropHand, Facts!DropHand, Datagrams!vars, Facts!vars,
       Datagrams!registry, Facts!registry, Datagrams!kernel, Facts!kernel,
       Datagrams!strand, Facts!strand, Datagrams!Ids, Facts!Ids,
       Datagrams!Open, Facts!Open, Datagrams!NoJob, Facts!NoJob,
       Datagrams!Idle, Facts!Idle, Datagrams!Fail, Facts!Fail,
       Datagrams!Ok, Facts!Ok, Datagrams!Got, Facts!Got,
       Datagrams!Acquire, Facts!Acquire, Datagrams!DropArc, Facts!DropArc,
       Datagrams!Become, Facts!Become, Datagrams!Return, Facts!Return,
       Datagrams!TopFree, Facts!TopFree, Datagrams!Given, Facts!Given,
       Datagrams!Reuse, Facts!Reuse, Datagrams!Grow, Facts!Grow,
       Datagrams!Full, Facts!Full, Datagrams!Checkout, Facts!Checkout,
       Datagrams!Datagram, Facts!Datagram, Datagrams!Closing, Facts!Closing

LEMMA SameSound == Facts!DatagramsSound => DatagramsSound
BY DEF DatagramsSound,
       Datagrams!DatagramsSound, Facts!DatagramsSound,
       Datagrams!TypeOK, Facts!TypeOK, Datagrams!IdsAccounted, Facts!IdsAccounted,
       Datagrams!CountsExact, Facts!CountsExact,
       Datagrams!InFlightKept, Facts!InFlightKept,
       Datagrams!ReceivedOnce, Facts!ReceivedOnce, Datagrams!Range, Facts!Range,
       Datagrams!Cardinality, Facts!Cardinality, Datagrams!Ids, Facts!Ids,
       Datagrams!Open, Facts!Open, Datagrams!Labels, Facts!Labels,
       Datagrams!Handles, Facts!Handles, Datagrams!Jobs, Facts!Jobs,
       Datagrams!Answers, Facts!Answers, Datagrams!Datagrams, Facts!Datagrams

(* A step of either part is a step of its own or leaves it alone.          *)
LEMMA StepOfParts ==
    ASSUME [PartNext]_<<part, vars, udpVars>>
    PROVE  [Next]_vars /\ [Facts!Next]_(Facts!vars)
<1>1. CASE UNCHANGED <<part, vars, udpVars>>
  BY <1>1 DEF udpVars, Facts!vars, Facts!registry, Facts!kernel, Facts!strand
<1>2. CASE part = "http" /\ Next /\ UNCHANGED udpVars
  BY <1>2 DEF udpVars, Facts!vars, Facts!registry, Facts!kernel, Facts!strand
<1>3. CASE part = "udp" /\ Datagrams!Next /\ UNCHANGED vars
  BY <1>3, SameNext
<1> QED
  BY <1>1, <1>2, <1>3 DEF PartNext

(* The registry of udp.rs and the sockets in use agree beside the client:  *)
(* a socket stays open while its slot or an operation in flight holds it,  *)
(* its id is free or in use and never both, and a datagram is received     *)
(* once, for any number of strands, sockets, ports, slots and datagrams.   *)
THEOREM DatagramsKept == PartSpec => []DatagramsSound
<1>1. PartInit => Facts!IInv
  BY SameAssumptions, SameInit, Facts!InitHolds DEF PartInit
<1>2. Facts!IInv /\ [PartNext]_<<part, vars, udpVars>> => Facts!IInv'
  BY SameAssumptions, StepOfParts, Facts!StepHolds
<1>3. Facts!IInv => DatagramsSound
  BY SameAssumptions, SameSound, Facts!InvariantIsSound
<1> QED
  BY <1>1, <1>2, <1>3, PTL DEF PartSpec

(* The pool and the retry of the client are sound beside the registry.     *)
THEOREM ClientKept == PartSpec => [](PoolSound /\ ReplaySafe)
<1>1. PartInit => IInv
  BY HttpAssumption, InitHolds DEF PartInit
<1>2. IInv /\ [PartNext]_<<part, vars, udpVars>> => IInv'
  BY HttpAssumption, StepOfParts, StepHolds
<1>3. IInv => PoolSound /\ ReplaySafe
  BY HttpAssumption, PoolFollows, ReplayFollows
<1> QED
  BY <1>1, <1>2, <1>3, PTL DEF PartSpec
=============================================================================
