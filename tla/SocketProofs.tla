----------------------------- MODULE SocketProofs -----------------------------
(***************************************************************************)
(* Proofs about SocketRegistry, for any number of strands, sockets and     *)
(* slots.                                                                  *)
(*                                                                         *)
(* IdsAccounted is inductive together with HandInv, which says who has a   *)
(* socket in hand: what an operation puts back must be a socket, or the    *)
(* slot would be lost.                                                     *)
(*                                                                         *)
(* Sequences are dealt with once: the first lemmas reduce every change of  *)
(* a registry to an effect on its set of ids, the contents of its slots    *)
(* and the set of its free ids.  The invariants are then shown to survive  *)
(* each combination of effects that occurs.                                *)
(***************************************************************************)
EXTENDS SocketRegistry, SequenceTheorems, TLAPS

FreeSet(r) == Range(free_ids[r])
Distinct(r) == \A m, n \in DOMAIN free_ids[r] : free_ids[r][m] = free_ids[r][n] => m = n
Reserves(s, r) == pc[s] \in Reserving[r]

(* Who has a socket in hand.                                               *)
HandInv ==
    \A s \in Strands : pc[s] \in {"accept", "store", "io", "handshake"}
                          <=> hand[s] \in Sockets

(* IdsAccounted for one registry, in the form in which it is preserved.    *)
IdsInv(r) ==
    /\ Distinct(r)
    /\ FreeSet(r) \subseteq Ids(r)
    /\ \A i \in FreeSet(r) : sockets[r][i] = None
    /\ \A s \in Strands : Reserves(s, r) =>
           /\ id[s] \in Ids(r)
           /\ id[s] \notin FreeSet(r)
           /\ sockets[r][id[s]] = None
           /\ \A t \in Strands : Reserves(t, r) /\ id[t] = id[s] => t = s
    /\ \A i \in Ids(r) : sockets[r][i] = None =>
           i \in FreeSet(r) \/ \E s \in Strands : Reserves(s, r) /\ id[s] = i

AllIdsInv == \A r \in Registries : IdsInv(r)

IInv == TypeOK /\ HandInv /\ AllIdsInv

-----------------------------------------------------------------------------
(* Effects on a registry.                                                  *)

SocketsElsewhere(r) == \A q \in Registries \ {r} : sockets'[q] = sockets[q]
FreeElsewhere(r)    == \A q \in Registries \ {r} : free_ids'[q] = free_ids[q]

(* Slot i of r becomes c.                                                  *)
Filled(r, i, c) ==
    /\ Ids(r)' = Ids(r)
    /\ \A j \in Ids(r) : sockets'[r][j] = IF j = i THEN c ELSE sockets[r][j]
    /\ SocketsElsewhere(r)

(* r gets one more slot, with c in it.                                     *)
Grown(r, c) ==
    /\ \E n : /\ n \notin Ids(r)
              /\ Ids(r)' = Ids(r) \cup {n}
              /\ sockets'[r][n] = c
    /\ \A j \in Ids(r) : sockets'[r][j] = sockets[r][j]
    /\ SocketsElsewhere(r)

Pushed(r, i) ==
    /\ FreeSet(r)' = FreeSet(r) \cup {i}
    /\ Distinct(r) /\ i \notin FreeSet(r) => Distinct(r)'
    /\ FreeElsewhere(r)

Popped(r, i) ==
    /\ i \in FreeSet(r)
    /\ Distinct(r) => Distinct(r)' /\ FreeSet(r)' = FreeSet(r) \ {i}
    /\ FreeElsewhere(r)

SeqTypes ==
    /\ sockets \in [Registries -> Seq(Sockets \cup {None})]
    /\ free_ids \in [Registries -> Seq(Nat)]
    /\ \A r \in Registries : Len(sockets[r]) \in Nat /\ Len(free_ids[r]) \in Nat

LEMMA TypesOfSeqs == TypeOK => SeqTypes
  BY LenProperties DEF TypeOK, SeqTypes

LEMMA FillFacts ==
    ASSUME SeqTypes, NEW r \in Registries, NEW i \in Ids(r),
           NEW c \in Sockets \cup {None}, sockets' = Fill(r, i, c)
    PROVE  /\ sockets' \in [Registries -> Seq(Sockets \cup {None})]
           /\ \A q \in Registries : Len(sockets'[q]) = Len(sockets[q])
           /\ Filled(r, i, c)
<1> DEFINE old == sockets[r]
<1> DEFINE new == [old EXCEPT ![i] = c]
<1>1. old \in Seq(Sockets \cup {None})
  BY DEF SeqTypes
<1>2. /\ new \in Seq(Sockets \cup {None})
      /\ Len(new) = Len(old)
      /\ \A j \in 1..Len(old) : new[j] = IF j = i THEN c ELSE old[j]
  BY <1>1, ExceptSeq DEF Ids
<1>3. sockets' = [sockets EXCEPT ![r] = new]
  BY DEF Fill
<1> HIDE DEF new
<1>4. sockets' \in [Registries -> Seq(Sockets \cup {None})]
  BY <1>2, <1>3 DEF SeqTypes
<1>5. sockets'[r] = new /\ \A q \in Registries \ {r} : sockets'[q] = sockets[q]
  BY <1>3 DEF SeqTypes
<1> QED
  BY <1>2, <1>4, <1>5 DEF Filled, Ids, SocketsElsewhere

LEMMA GrowFacts ==
    ASSUME SeqTypes, NEW r \in Registries, NEW c \in Sockets,
           sockets' = [sockets EXCEPT ![r] = Append(@, c)]
    PROVE  /\ sockets' \in [Registries -> Seq(Sockets \cup {None})]
           /\ Len(sockets'[r]) = Len(sockets[r]) + 1
           /\ Grown(r, c)
<1> DEFINE new == Append(sockets[r], c)
<1> DEFINE n == Len(sockets[r])
<1>1. sockets[r] \in Seq(Sockets \cup {None}) /\ n \in Nat
  BY DEF SeqTypes
<1>2. /\ new \in Seq(Sockets \cup {None})
      /\ Len(new) = n + 1
      /\ \A j \in 1..n : new[j] = sockets[r][j]
      /\ new[n + 1] = c
  BY <1>1, AppendProperties
<1> HIDE DEF new
<1>3. sockets' = [sockets EXCEPT ![r] = new]
  BY DEF new
<1>4. sockets'[r] = new /\ SocketsElsewhere(r)
  BY <1>3 DEF SeqTypes, SocketsElsewhere
<1>5. n + 1 \notin Ids(r) /\ Ids(r)' = Ids(r) \cup {n + 1}
  BY <1>1, <1>2, <1>4 DEF Ids
<1> HIDE DEF n
<1>6. Grown(r, c)
  BY <1>2, <1>4, <1>5 DEF Grown, Ids, n
<1> QED
  BY <1>2, <1>3, <1>4, <1>6 DEF SeqTypes, n

(* The elements of a sequence, by position.                                *)
LEMMA ElementsOf ==
    ASSUME NEW S, NEW q \in Seq(S), NEW m
    PROVE  m \in Range(q) <=> \E i \in 1..Len(q) : q[i] = m
<1>1. DOMAIN q = 1..Len(q)
  BY LenProperties
<1>2. Range(q) = {q[i] : i \in 1..Len(q)}
  BY <1>1 DEF Range
<1> QED
  BY <1>2, Zenon

LEMMA PushFacts ==
    ASSUME SeqTypes, NEW r \in Registries, NEW i \in Nat,
           free_ids' = [free_ids EXCEPT ![r] = Append(@, i)]
    PROVE  /\ free_ids' \in [Registries -> Seq(Nat)]
           /\ Pushed(r, i)
<1> DEFINE old == free_ids[r]
<1> DEFINE new == Append(old, i)
<1> DEFINE n == Len(old)
<1>1. old \in Seq(Nat) /\ n \in Nat
  BY DEF SeqTypes
<1>2. /\ new \in Seq(Nat)
      /\ Len(new) = n + 1
      /\ \A j \in 1..n : new[j] = old[j]
      /\ new[n + 1] = i
  BY <1>1, AppendProperties
<1> HIDE DEF new
<1>3. free_ids' = [free_ids EXCEPT ![r] = new]
  BY DEF new
<1>4. free_ids'[r] = new /\ FreeElsewhere(r) /\ free_ids' \in [Registries -> Seq(Nat)]
  BY <1>2, <1>3 DEF SeqTypes, FreeElsewhere
<1>5. /\ DOMAIN old = 1..n
      /\ \A m : m \in Range(old) <=> \E j \in 1..n : old[j] = m
  <2>1. DOMAIN old = 1..n
    BY <1>1, LenProperties
  <2>2. \A m : m \in Range(old) <=> \E j \in 1..n : old[j] = m
    BY <1>1, ElementsOf, Zenon
  <2> QED
    BY <2>1, <2>2
<1>6. /\ DOMAIN new = 1..Len(new)
      /\ \A m : m \in Range(new) <=> \E j \in 1..Len(new) : new[j] = m
  <2>1. DOMAIN new = 1..Len(new)
    BY <1>2, LenProperties
  <2>2. \A m : m \in Range(new) <=> \E j \in 1..Len(new) : new[j] = m
    BY <1>2, ElementsOf, Zenon
  <2> QED
    BY <2>1, <2>2
<1> HIDE DEF n, old
<1>7. \A j : j \in 1..(n + 1) <=> j \in 1..n \/ j = n + 1
  BY <1>1
<1>8. \A m : m \in Range(new) <=> m \in Range(old) \cup {i}
  BY <1>2, <1>5, <1>6, <1>7
<1>9. Range(new) = Range(old) \cup {i}
  BY <1>8
<1>10. ASSUME Distinct(r), i \notin Range(old) PROVE Distinct(r)'
  BY <1>1, <1>2, <1>4, <1>5, <1>6, <1>7, <1>10 DEF Distinct, old
<1> QED
  BY <1>4, <1>9, <1>10 DEF Pushed, FreeSet, old

LEMMA PopFacts ==
    ASSUME SeqTypes, NEW r \in Registries, free_ids[r] # <<>>,
           free_ids' = [free_ids EXCEPT ![r] = SubSeq(@, 1, Len(@) - 1)]
    PROVE  /\ free_ids' \in [Registries -> Seq(Nat)]
           /\ Popped(r, free_ids[r][Len(free_ids[r])])
<1> DEFINE old == free_ids[r]
<1> DEFINE n == Len(old)
<1> DEFINE new == SubSeq(old, 1, n - 1)
<1>1. old \in Seq(Nat) /\ n \in Nat /\ n >= 1
  BY EmptySeq DEF SeqTypes
<1>2. \A j \in 1..(n - 1) : old[j] \in Nat
  BY <1>1, ElementOfSeq
<1>3. /\ new \in Seq(Nat)
      /\ Len(new) = n - 1
      /\ \A j \in 1..(n - 1) : new[j] = old[j]
  BY <1>1, <1>2, SubSeqProperties
<1>4. free_ids' = [free_ids EXCEPT ![r] = new]
  OBVIOUS
<1> HIDE DEF new
<1>5. free_ids'[r] = new /\ FreeElsewhere(r) /\ free_ids' \in [Registries -> Seq(Nat)]
  BY <1>3, <1>4 DEF SeqTypes, FreeElsewhere
<1>6. /\ DOMAIN old = 1..n
      /\ \A m : m \in Range(old) <=> \E j \in 1..n : old[j] = m
  <2>1. DOMAIN old = 1..n
    BY <1>1, LenProperties
  <2>2. \A m : m \in Range(old) <=> \E j \in 1..n : old[j] = m
    BY <1>1, ElementsOf, Zenon
  <2> QED
    BY <2>1, <2>2
<1>7. /\ DOMAIN new = 1..Len(new)
      /\ \A m : m \in Range(new) <=> \E j \in 1..Len(new) : new[j] = m
  <2>1. DOMAIN new = 1..Len(new)
    BY <1>3, LenProperties
  <2>2. \A m : m \in Range(new) <=> \E j \in 1..Len(new) : new[j] = m
    BY <1>3, ElementsOf, Zenon
  <2> QED
    BY <2>1, <2>2
<1> HIDE DEF n, old
<1>8. /\ \A j : j \in 1..n <=> j \in 1..(n - 1) \/ j = n
      /\ n \notin 1..(n - 1)
  BY <1>1
<1>9. old[n] \in Range(old)
  BY <1>6, <1>8
<1>10. ASSUME Distinct(r)
       PROVE  Distinct(r)' /\ Range(new) = Range(old) \ {old[n]}
  <2>1. \A j, k \in 1..n : old[j] = old[k] => j = k
    BY <1>6, <1>10 DEF Distinct, old
  <2>2. Distinct(r)'
    <3>1. \A j, k \in 1..(n - 1) : new[j] = new[k] => j = k
      BY <1>3, <1>8, <2>1
    <3> QED
      <4>1. \A j, k \in DOMAIN new : new[j] = new[k] => j = k
        BY <1>3, <1>7, <3>1
      <4> QED
        BY <1>5, <4>1, Zenon DEF Distinct
  <2>3. \A m : m \in Range(new) <=> m \in Range(old) \ {old[n]}
    BY <1>3, <1>6, <1>7, <1>8, <2>1, SMTT(60)
  <2> QED
    BY <2>2, <2>3
<1> QED
  BY <1>5, <1>9, <1>10 DEF Popped, FreeSet, old, n

-----------------------------------------------------------------------------
(* Effects on the strands.                                                 *)

SameReservation(t, q) ==
    (Reserves(t, q)' <=> Reserves(t, q)) /\ (Reserves(t, q) => id'[t] = id[t])

(* s reserves slot i of r, having reserved none; it gives up the slot of r *)
(* it has reserved; no reservation changes.                                *)
Enters(s, r, i) ==
    /\ \A t \in Strands, q \in Registries : t # s \/ q # r => SameReservation(t, q)
    /\ ~Reserves(s, r) /\ Reserves(s, r)' /\ id'[s] = i

Leaves(s, r) ==
    /\ \A t \in Strands, q \in Registries : t # s \/ q # r => SameReservation(t, q)
    /\ Reserves(s, r) /\ ~Reserves(s, r)'

Keeps == \A t \in Strands, q \in Registries : SameReservation(t, q)

(* A registry that is not touched.                                         *)
LEMMA IdsFrame ==
    ASSUME NEW q \in Registries, IdsInv(q), sockets'[q] = sockets[q],
           free_ids'[q] = free_ids[q], \A t \in Strands : SameReservation(t, q)
    PROVE  IdsInv(q)'
  BY DEF IdsInv, Distinct, FreeSet, Ids, SameReservation

(* IdsInv survives each combination of effects that occurs.                *)

LEMMA IdsTake ==
    ASSUME AllIdsInv, NEW r \in Registries, NEW i \in Ids(r), NEW s \in Strands,
           sockets[r][i] # None, Filled(r, i, None), free_ids' = free_ids,
           Enters(s, r, i)
    PROVE  AllIdsInv'
<1>1. \A q \in Registries \ {r} : IdsInv(q)'
  BY IdsFrame DEF AllIdsInv, Filled, SocketsElsewhere, Enters
<1>2. FreeSet(r)' = FreeSet(r) /\ (Distinct(r) => Distinct(r)')
  BY DEF FreeSet, Distinct
<1>3. IdsInv(r)'
  BY <1>2 DEF AllIdsInv, IdsInv, Filled, Enters, SameReservation
<1> QED
  BY <1>1, <1>3 DEF AllIdsInv

LEMMA IdsPut ==
    ASSUME AllIdsInv, NEW r \in Registries, NEW s \in Strands,
           NEW c \in Sockets, None \notin Sockets,
           Filled(r, id[s], c), free_ids' = free_ids, Leaves(s, r)
    PROVE  AllIdsInv'
<1>1. \A q \in Registries \ {r} : IdsInv(q)'
  BY IdsFrame DEF AllIdsInv, Filled, SocketsElsewhere, Leaves
<1>2. FreeSet(r)' = FreeSet(r) /\ (Distinct(r) => Distinct(r)')
  BY DEF FreeSet, Distinct
<1>3. IdsInv(r)'
  BY <1>2 DEF AllIdsInv, IdsInv, Filled, Leaves, SameReservation
<1> QED
  BY <1>1, <1>3 DEF AllIdsInv

LEMMA IdsReuse ==
    ASSUME AllIdsInv, NEW r \in Registries, NEW i, NEW c \in Sockets,
           None \notin Sockets, Popped(r, i), Filled(r, i, c), Keeps
    PROVE  AllIdsInv'
<1>1. \A q \in Registries \ {r} : IdsInv(q)'
  BY IdsFrame DEF AllIdsInv, Filled, SocketsElsewhere, Popped, FreeElsewhere, Keeps
<1>2. IdsInv(r)'
  BY DEF AllIdsInv, IdsInv, Filled, Popped, Keeps, SameReservation
<1> QED
  BY <1>1, <1>2 DEF AllIdsInv

LEMMA IdsGrow ==
    ASSUME AllIdsInv, NEW r \in Registries, NEW c \in Sockets,
           None \notin Sockets, Grown(r, c), free_ids' = free_ids, Keeps
    PROVE  AllIdsInv'
<1>1. \A q \in Registries \ {r} : IdsInv(q)'
  BY IdsFrame DEF AllIdsInv, Grown, SocketsElsewhere, Keeps
<1>2. FreeSet(r)' = FreeSet(r) /\ (Distinct(r) => Distinct(r)')
  BY DEF FreeSet, Distinct
<1>3. IdsInv(r)'
  BY <1>2 DEF AllIdsInv, IdsInv, Grown, Keeps, SameReservation
<1> QED
  BY <1>1, <1>3 DEF AllIdsInv

LEMMA IdsFree ==
    ASSUME AllIdsInv, NEW r \in Registries, NEW i \in Ids(r),
           sockets[r][i] # None, Filled(r, i, None), Pushed(r, i), Keeps
    PROVE  AllIdsInv'
<1>1. \A q \in Registries \ {r} : IdsInv(q)'
  BY IdsFrame DEF AllIdsInv, Filled, SocketsElsewhere, Pushed, FreeElsewhere, Keeps
<1>2. IdsInv(r)'
  BY DEF AllIdsInv, IdsInv, Filled, Pushed, Keeps, SameReservation
<1> QED
  BY <1>1, <1>2 DEF AllIdsInv

LEMMA IdsRelease ==
    ASSUME AllIdsInv, NEW r \in Registries, NEW s \in Strands,
           sockets' = sockets, Pushed(r, id[s]), Leaves(s, r)
    PROVE  AllIdsInv'
<1>1. \A q \in Registries \ {r} : IdsInv(q)'
  BY IdsFrame DEF AllIdsInv, Pushed, FreeElsewhere, Leaves
<1>2. Ids(r)' = Ids(r)
  BY DEF Ids
<1>3. IdsInv(r)'
  BY <1>2 DEF AllIdsInv, IdsInv, Pushed, Leaves, SameReservation
<1> QED
  BY <1>1, <1>3 DEF AllIdsInv

LEMMA IdsKeep ==
    ASSUME AllIdsInv, sockets' = sockets, free_ids' = free_ids, Keeps
    PROVE  AllIdsInv'
  BY IdsFrame DEF AllIdsInv, Keeps

-----------------------------------------------------------------------------
(* The critical sections, on the registries.                               *)

RegTypes ==
    /\ sockets \in [Registries -> Seq(Sockets \cup {None})]
    /\ free_ids \in [Registries -> Seq(Nat)]
    /\ \A r \in Registries : Len(sockets[r]) <= MAX_SOCKETS

KindTypes == kind \in [Sockets -> {"new", "listener", "tcp", "tls", "closed"}]

StrandTypes ==
    /\ pc \in [Strands -> Labels]
    /\ id \in [Strands -> Nat]
    /\ hand \in [Strands -> Sockets \cup {None}]

(* NoClobber, of one step.                                                 *)
Unclobbered ==
    \A r \in Registries : \A i \in Ids(r) :
        sockets[r][i] # None => sockets'[r][i] \in {None, sockets[r][i]}

(* What a step must give for the registries.                               *)
RegistryKept == RegTypes' /\ AllIdsInv' /\ Unclobbered

LEMMA KeepSection ==
    ASSUME IInv, UNCHANGED registry, Keeps
    PROVE  RegistryKept
<1>1. sockets' = sockets /\ free_ids' = free_ids
  BY DEF registry
<1>2. AllIdsInv'
  BY <1>1, IdsKeep DEF IInv
<1> QED
  BY <1>1, <1>2 DEF RegistryKept, RegTypes, Unclobbered, IInv, TypeOK

LEMMA TakeSection ==
    ASSUME IInv, NEW r \in Registries, NEW i \in Ids(r), NEW s \in Strands,
           sockets[r][i] # None, sockets' = Fill(r, i, None),
           free_ids' = free_ids, Enters(s, r, i)
    PROVE  RegistryKept
<1>1. SeqTypes
  BY TypesOfSeqs DEF IInv
<1>2. /\ sockets' \in [Registries -> Seq(Sockets \cup {None})]
      /\ \A q \in Registries : Len(sockets'[q]) = Len(sockets[q])
      /\ Filled(r, i, None)
  BY <1>1, FillFacts
<1>3. AllIdsInv'
  BY <1>2, IdsTake DEF IInv
<1>4. RegTypes'
  BY <1>2 DEF RegTypes, IInv, TypeOK
<1>5. Unclobbered
  BY <1>2 DEF Unclobbered, Filled, SocketsElsewhere
<1> QED
  BY <1>3, <1>4, <1>5 DEF RegistryKept

LEMMA PutSection ==
    ASSUME IInv, NEW r \in Registries, NEW s \in Strands,
           hand[s] \in Sockets, sockets' = Fill(r, id[s], hand[s]),
           free_ids' = free_ids, Leaves(s, r)
    PROVE  RegistryKept
<1>1. SeqTypes
  BY TypesOfSeqs DEF IInv
<1>2. id[s] \in Ids(r) /\ sockets[r][id[s]] = None
  BY DEF IInv, AllIdsInv, IdsInv, Leaves
<1>3. /\ sockets' \in [Registries -> Seq(Sockets \cup {None})]
      /\ \A q \in Registries : Len(sockets'[q]) = Len(sockets[q])
      /\ Filled(r, id[s], hand[s])
  BY <1>1, <1>2, FillFacts
<1>4. AllIdsInv'
  BY <1>3, IdsPut, SocketConstants DEF IInv
<1>5. RegTypes'
  BY <1>3 DEF RegTypes, IInv, TypeOK
<1>6. Unclobbered
  BY <1>2, <1>3 DEF Unclobbered, Filled, SocketsElsewhere
<1> QED
  BY <1>4, <1>5, <1>6 DEF RegistryKept

LEMMA FreeSection ==
    ASSUME IInv, NEW r \in Registries, NEW i \in Ids(r),
           sockets[r][i] # None, Free(r, i), Keeps
    PROVE  RegistryKept /\ KindTypes'
<1>1. SeqTypes
  BY TypesOfSeqs DEF IInv
<1>2. i \in Nat
  BY <1>1 DEF Ids, SeqTypes
<1>3. /\ sockets' \in [Registries -> Seq(Sockets \cup {None})]
      /\ \A q \in Registries : Len(sockets'[q]) = Len(sockets[q])
      /\ Filled(r, i, None)
  BY <1>1, FillFacts DEF Free
<1>4. free_ids' \in [Registries -> Seq(Nat)] /\ Pushed(r, i)
  BY <1>1, <1>2, PushFacts DEF Free
<1>5. AllIdsInv'
  BY <1>3, <1>4, IdsFree DEF IInv
<1>6. RegTypes'
  BY <1>3, <1>4 DEF RegTypes, IInv, TypeOK
<1>7. Unclobbered
  BY <1>3 DEF Unclobbered, Filled, SocketsElsewhere
<1>8. KindTypes'
  BY DEF Free, KindTypes, IInv, TypeOK
<1> QED
  BY <1>5, <1>6, <1>7, <1>8 DEF RegistryKept

LEMMA ReleaseSection ==
    ASSUME IInv, NEW r \in Registries, NEW s \in Strands,
           sockets' = sockets, free_ids' = [free_ids EXCEPT ![r] = Append(@, id[s])],
           Leaves(s, r)
    PROVE  RegistryKept
<1>1. SeqTypes /\ id[s] \in Nat
  BY TypesOfSeqs DEF IInv, TypeOK
<1>2. free_ids' \in [Registries -> Seq(Nat)] /\ Pushed(r, id[s])
  BY <1>1, PushFacts
<1>3. AllIdsInv'
  BY <1>2, IdsRelease DEF IInv
<1> QED
  BY <1>2, <1>3 DEF RegistryKept, RegTypes, Unclobbered, IInv, TypeOK

LEMMA AllocateSection ==
    ASSUME IInv, NEW r \in Registries, NEW c \in Sockets,
           NEW k \in {"listener", "tcp"}, Allocate(r, c, k), Keeps
    PROVE  RegistryKept /\ KindTypes'
<1>1. SeqTypes
  BY TypesOfSeqs DEF IInv
<1>2. KindTypes'
  BY DEF Allocate, KindTypes, IInv, TypeOK
<1>3. CASE /\ free_ids[r] # <<>>
           /\ sockets' = Fill(r, free_ids[r][Len(free_ids[r])], c)
           /\ free_ids' = [free_ids EXCEPT ![r] = SubSeq(@, 1, Len(@) - 1)]
  <2> DEFINE i == free_ids[r][Len(free_ids[r])]
  <2>1. free_ids' \in [Registries -> Seq(Nat)] /\ Popped(r, i)
    BY <1>1, <1>3, PopFacts
  <2> HIDE DEF i
  <2>2. i \in Ids(r) /\ sockets[r][i] = None
    BY <2>1 DEF IInv, AllIdsInv, IdsInv, Popped
  <2>3. /\ sockets' \in [Registries -> Seq(Sockets \cup {None})]
        /\ \A q \in Registries : Len(sockets'[q]) = Len(sockets[q])
        /\ Filled(r, i, c)
    BY <1>1, <1>3, <2>2, FillFacts DEF i
  <2>4. AllIdsInv'
    BY <2>1, <2>3, IdsReuse, SocketConstants DEF IInv
  <2>5. RegTypes'
    BY <2>1, <2>3 DEF RegTypes, IInv, TypeOK
  <2>6. Unclobbered
    BY <2>2, <2>3 DEF Unclobbered, Filled, SocketsElsewhere
  <2> QED
    BY <1>2, <2>4, <2>5, <2>6 DEF RegistryKept
<1>4. CASE /\ Len(sockets[r]) < MAX_SOCKETS
           /\ sockets' = [sockets EXCEPT ![r] = Append(@, c)]
           /\ free_ids' = free_ids
  <2>1. /\ sockets' \in [Registries -> Seq(Sockets \cup {None})]
        /\ Len(sockets'[r]) = Len(sockets[r]) + 1
        /\ Grown(r, c)
    BY <1>1, <1>4, GrowFacts
  <2>2. AllIdsInv'
    BY <1>4, <2>1, IdsGrow, SocketConstants DEF IInv
  <2>3. RegTypes'
    BY <1>1, <1>4, <2>1, SocketConstants
       DEF RegTypes, IInv, TypeOK, Grown, SocketsElsewhere, SeqTypes
  <2>4. Unclobbered
    BY <2>1 DEF Unclobbered, Grown, SocketsElsewhere
  <2> QED
    BY <1>2, <2>2, <2>3, <2>4 DEF RegistryKept
<1>5. CASE UNCHANGED registry
  BY <1>2, <1>5, KeepSection
<1> QED
  BY <1>3, <1>4, <1>5 DEF Allocate

-----------------------------------------------------------------------------
(* The critical sections, on the strand that runs them.                    *)

StrandKept == StrandTypes' /\ HandInv'

(* Strand s moves to p, works on i and has c in hand.                      *)
LEMMA StrandMoves ==
    ASSUME IInv, NEW s \in Strands, NEW p \in Labels, NEW i \in Nat,
           NEW c \in Sockets \cup {None},
           pc' = [pc EXCEPT ![s] = p], id' = [id EXCEPT ![s] = i],
           hand' = [hand EXCEPT ![s] = c],
           p \in {"accept", "store", "io", "handshake"} <=> c \in Sockets
    PROVE  /\ StrandKept
           /\ pc'[s] = p /\ id'[s] = i
           /\ \A t \in Strands \ {s}, q \in Registries : SameReservation(t, q)
<1>1. /\ pc'[s] = p /\ id'[s] = i /\ hand'[s] = c
      /\ \A t \in Strands \ {s} :
            pc'[t] = pc[t] /\ id'[t] = id[t] /\ hand'[t] = hand[t]
  BY DEF IInv, TypeOK
<1>2. StrandTypes'
  BY DEF StrandTypes, IInv, TypeOK
<1>3. HandInv'
  BY <1>1 DEF HandInv, IInv
<1>4. \A t \in Strands \ {s}, q \in Registries : SameReservation(t, q)
  BY <1>1 DEF SameReservation, Reserves
<1> QED
  BY <1>1, <1>2, <1>3, <1>4 DEF StrandKept

LEMMA StrandStays ==
    ASSUME IInv, UNCHANGED strand
    PROVE  StrandKept /\ Keeps
  BY DEF strand, StrandKept, StrandTypes, HandInv, Keeps, SameReservation, Reserves,
         IInv, TypeOK

LEMMA HandOf ==
    ASSUME IInv, NEW s \in Strands, pc[s] \in {"accept", "store", "io", "handshake"}
    PROVE  hand[s] \in Sockets
  BY DEF IInv, HandInv

(* Taking the socket out of slot i reserves the slot.                      *)
LEMMA TakeStep ==
    ASSUME IInv, NEW s \in Strands, NEW r \in Registries, NEW i,
           NEW next \in Reserving[r] \ {"release"},
           Take(s, r, i, next), UNCHANGED <<free_ids, kind>>
    PROVE  RegistryKept /\ StrandKept
<1>1. i \in Ids(r) /\ i \in Nat /\ sockets[r][i] \in Sockets
  <2>1. SeqTypes
    BY TypesOfSeqs DEF IInv
  <2>2. sockets[r] \in Seq(Sockets \cup {None}) /\ i \in 1..Len(sockets[r])
    BY <2>1 DEF SeqTypes, Take, Ids
  <2>3. sockets[r][i] \in Sockets \cup {None}
    BY <2>2, ElementOfSeq
  <2> QED
    BY <2>2, <2>3 DEF Take, Ids
<1>2. next \in {"accept", "io", "handshake"} /\ next \in Labels
  BY DEF Reserving, Registries, Labels
<1>3. /\ StrandKept
      /\ pc'[s] = next /\ id'[s] = i
      /\ \A t \in Strands \ {s}, q \in Registries : SameReservation(t, q)
  BY <1>1, <1>2, StrandMoves DEF Take
<1>4. Enters(s, r, i)
  BY <1>3 DEF Enters, SameReservation, Reserves, Reserving, Registries, Take
<1>5. RegistryKept
  BY <1>1, <1>4, TakeSection DEF Take
<1> QED
  BY <1>3, <1>5

(* Going idle, whatever the strand was doing.                              *)
LEMMA Returns ==
    ASSUME IInv, NEW s \in Strands, Return(s)
    PROVE  /\ StrandKept
           /\ \A t \in Strands \ {s}, q \in Registries : SameReservation(t, q)
           /\ \A q \in Registries : ~Reserves(s, q)'
<1>1. /\ StrandKept
      /\ pc'[s] = "idle"
      /\ \A t \in Strands \ {s}, q \in Registries : SameReservation(t, q)
  BY StrandMoves, SocketConstants DEF Return, Labels
<1> QED
  BY <1>1 DEF Reserves, Reserving, Registries

LEMMA PutStep ==
    ASSUME IInv, NEW s \in Strands, NEW r \in Registries,
           pc[s] \in Reserving[r] \ {"release"},
           sockets' = Fill(r, id[s], hand[s]), free_ids' = free_ids, Return(s)
    PROVE  RegistryKept /\ StrandKept
<1>1. Leaves(s, r)
  BY Returns DEF Leaves, SameReservation, Reserves, Reserving, Registries
<1>2. hand[s] \in Sockets
  BY HandOf DEF Reserving, Registries
<1>3. RegistryKept
  BY <1>1, <1>2, PutSection
<1> QED
  BY <1>3, Returns

-----------------------------------------------------------------------------
LEMMA InitIInv == Init => IInv
<1> SUFFICES ASSUME Init PROVE IInv
  OBVIOUS
<1>1. /\ \A r \in Registries : sockets[r] = <<>> /\ free_ids[r] = <<>>
      /\ \A s \in Strands : pc[s] = "idle" /\ id[s] = 0 /\ hand[s] = None
  BY DEF Init
<1>2. TypeOK
  BY <1>1, SocketConstants DEF Init, TypeOK, Labels, Registries
<1>3. HandInv
  BY <1>1, SocketConstants DEF HandInv
<1>4. ASSUME NEW r \in Registries PROVE IdsInv(r)
  <2>1. FreeSet(r) = {} /\ Distinct(r) /\ Ids(r) = {}
    BY <1>1 DEF FreeSet, Distinct, Ids, Range
  <2> QED
    BY <1>1, <2>1 DEF IdsInv, Reserves, Reserving, Registries
<1> QED
  BY <1>2, <1>3, <1>4 DEF IInv, AllIdsInv

(* One step of one strand.                                                 *)
LEMMA StepKeeps ==
    ASSUME IInv, Next
    PROVE  RegistryKept /\ KindTypes' /\ StrandKept
<1>1. PICK s \in Strands :
        \/ \E c \in Sockets : Listen(s, c) \/ Connect(s, c) \/ AcceptReturns(s, c)
        \/ \E i \in Ids("listeners") : AcceptTake(s, i)
        \/ \E i \in Ids("streams") : IoTake(s, i) \/ UpgradeTake(s, i)
        \/ \E i \in Ids("streams") \cup Ids("listeners") : CloseStreams(s, i)
        \/ AcceptFails(s) \/ AcceptStore(s) \/ IoReturns(s)
        \/ UpgradeOk(s) \/ UpgradeFails(s) \/ ReleaseReserved(s)
        \/ CloseListeners(s)
  BY DEF Next
<1>2. "listeners" \in Registries /\ "streams" \in Registries
  BY DEF Registries
<1>3. KindTypes /\ (kind' = kind => KindTypes')
  BY DEF KindTypes, IInv, TypeOK
<1>4. ASSUME NEW c \in Sockets, Listen(s, c)
      PROVE  RegistryKept /\ KindTypes' /\ StrandKept
  BY <1>2, <1>4, StrandStays, AllocateSection DEF Listen
<1>5. ASSUME NEW c \in Sockets, Connect(s, c)
      PROVE  RegistryKept /\ KindTypes' /\ StrandKept
  BY <1>2, <1>5, StrandStays, AllocateSection DEF Connect
<1>6. ASSUME NEW c \in Sockets, AcceptReturns(s, c)
      PROVE  RegistryKept /\ KindTypes' /\ StrandKept
  <2>1. /\ StrandKept
        /\ pc'[s] = "store"
        /\ \A t \in Strands \ {s}, q \in Registries : SameReservation(t, q)
    BY <1>6, StrandMoves DEF AcceptReturns, Labels
  <2>2. Leaves(s, "listeners")
    BY <1>2, <1>6, <2>1
       DEF AcceptReturns, Leaves, SameReservation, Reserves, Reserving, Registries
  <2>3. RegistryKept
    BY <1>2, <1>6, <2>2, HandOf, PutSection DEF AcceptReturns
  <2>4. KindTypes'
    BY <1>3, <1>6 DEF AcceptReturns, KindTypes
  <2> QED
    BY <2>1, <2>3, <2>4
<1>7. ASSUME NEW i, AcceptTake(s, i)
      PROVE  RegistryKept /\ KindTypes' /\ StrandKept
  <2>1. "accept" \in Reserving["listeners"] \ {"release"}
    BY DEF Reserving
  <2> QED
    BY <1>2, <1>3, <1>7, <2>1, TakeStep DEF AcceptTake
<1>8. ASSUME NEW i, IoTake(s, i)
      PROVE  RegistryKept /\ KindTypes' /\ StrandKept
  <2>1. "io" \in Reserving["streams"] \ {"release"}
    BY DEF Reserving
  <2> QED
    BY <1>2, <1>3, <1>8, <2>1, TakeStep DEF IoTake
<1>9. ASSUME NEW i, UpgradeTake(s, i)
      PROVE  RegistryKept /\ KindTypes' /\ StrandKept
  <2>1. "handshake" \in Reserving["streams"] \ {"release"}
    BY DEF Reserving
  <2> QED
    BY <1>2, <1>3, <1>9, <2>1, TakeStep DEF UpgradeTake
<1>10. ASSUME NEW i \in Ids("streams") \cup Ids("listeners"), CloseStreams(s, i)
       PROVE  RegistryKept /\ KindTypes' /\ StrandKept
  <2>1. CASE /\ i \in Ids("streams") /\ sockets["streams"][i] # None
             /\ Free("streams", i)
             /\ UNCHANGED strand
    BY <1>2, <2>1, StrandStays, FreeSection
  <2>2. CASE /\ pc' = [pc EXCEPT ![s] = "close"]
             /\ id' = [id EXCEPT ![s] = i]
             /\ UNCHANGED <<registry, kind, hand>>
    <3>1. pc[s] = "idle" /\ hand[s] = None /\ hand' = [hand EXCEPT ![s] = None]
      BY <1>10, <2>2 DEF CloseStreams, IInv, HandInv, TypeOK
    <3>2. i \in Nat
      BY TypesOfSeqs DEF IInv, SeqTypes, Ids, Registries
    <3>3. /\ StrandKept
          /\ pc'[s] = "close"
          /\ \A t \in Strands \ {s}, q \in Registries : SameReservation(t, q)
      BY <2>2, <3>1, <3>2, StrandMoves, SocketConstants DEF Labels
    <3>4. Keeps
      BY <3>1, <3>3 DEF Keeps, SameReservation, Reserves, Reserving, Registries
    <3> QED
      BY <1>3, <2>2, <3>3, <3>4, KeepSection
  <2> QED
    BY <1>10, <2>1, <2>2 DEF CloseStreams
<1>11. ASSUME AcceptFails(s)
       PROVE  RegistryKept /\ KindTypes' /\ StrandKept
  <2>1. pc[s] \in Reserving["listeners"] \ {"release"}
    BY <1>11 DEF AcceptFails, Reserving
  <2> QED
    BY <1>2, <1>3, <1>11, <2>1, PutStep DEF AcceptFails
<1>12. ASSUME AcceptStore(s)
       PROVE  RegistryKept /\ KindTypes' /\ StrandKept
  <2>1. Keeps
    BY <1>12, Returns
       DEF AcceptStore, Keeps, SameReservation, Reserves, Reserving, Registries
  <2> QED
    BY <1>2, <1>12, <2>1, HandOf, Returns, AllocateSection DEF AcceptStore
<1>13. ASSUME IoReturns(s)
       PROVE  RegistryKept /\ KindTypes' /\ StrandKept
  <2>1. pc[s] \in Reserving["streams"] \ {"release"}
    BY <1>13 DEF IoReturns, Reserving
  <2> QED
    BY <1>2, <1>3, <1>13, <2>1, PutStep DEF IoReturns
<1>14. ASSUME UpgradeOk(s)
       PROVE  RegistryKept /\ KindTypes' /\ StrandKept
  <2>1. pc[s] \in Reserving["streams"] \ {"release"}
    BY <1>14 DEF UpgradeOk, Reserving
  <2>2. KindTypes'
    BY <1>3, <1>14 DEF UpgradeOk, KindTypes
  <2> QED
    BY <1>2, <1>14, <2>1, <2>2, PutStep DEF UpgradeOk
<1>15. ASSUME UpgradeFails(s)
       PROVE  RegistryKept /\ KindTypes' /\ StrandKept
  <2>1. id[s] \in Nat /\ id' = [id EXCEPT ![s] = id[s]]
    BY <1>15 DEF UpgradeFails, IInv, TypeOK
  <2>2. /\ StrandKept
        /\ pc'[s] = "release" /\ id'[s] = id[s]
        /\ \A t \in Strands \ {s}, q \in Registries : SameReservation(t, q)
    BY <1>15, <2>1, StrandMoves, SocketConstants DEF UpgradeFails, Labels
  <2>3. Keeps
    BY <1>15, <2>2 DEF UpgradeFails, Keeps, SameReservation, Reserves, Reserving, Registries
  <2>4. KindTypes'
    BY <1>3, <1>15 DEF UpgradeFails, KindTypes
  <2> QED
    BY <1>15, <2>2, <2>3, <2>4, KeepSection DEF UpgradeFails
<1>16. ASSUME ReleaseReserved(s)
       PROVE  RegistryKept /\ KindTypes' /\ StrandKept
  <2>1. Leaves(s, "streams")
    BY <1>2, <1>16, Returns
       DEF ReleaseReserved, Leaves, SameReservation, Reserves, Reserving, Registries
  <2>2. sockets["streams"][id[s]] = None /\ id[s] \notin Range(free_ids["streams"])
    BY <1>2, <2>1 DEF Leaves, IInv, AllIdsInv, IdsInv, FreeSet
  <2>3. RegistryKept
    BY <1>2, <1>16, <2>1, <2>2, ReleaseSection DEF ReleaseReserved
  <2> QED
    BY <1>3, <1>16, <2>3, Returns DEF ReleaseReserved
<1>17. ASSUME CloseListeners(s)
       PROVE  RegistryKept /\ KindTypes' /\ StrandKept
  <2>1. Keeps /\ StrandKept
    BY <1>17, Returns
       DEF CloseListeners, Keeps, SameReservation, Reserves, Reserving, Registries
  <2>2. CASE /\ id[s] \in Ids("listeners") /\ sockets["listeners"][id[s]] # None
             /\ Free("listeners", id[s])
    BY <1>2, <2>1, <2>2, FreeSection
  <2>3. CASE UNCHANGED <<registry, kind>>
    BY <1>3, <2>1, <2>3, KeepSection
  <2> QED
    BY <1>17, <2>2, <2>3 DEF CloseListeners
<1> QED
  BY <1>1, <1>4, <1>5, <1>6, <1>7, <1>8, <1>9, <1>10, <1>11, <1>12, <1>13, <1>14,
     <1>15, <1>16, <1>17

LEMMA StutterKeeps ==
    ASSUME IInv, UNCHANGED vars
    PROVE  RegistryKept /\ KindTypes' /\ StrandKept
<1>1. UNCHANGED registry /\ UNCHANGED strand /\ kind' = kind
  BY DEF vars
<1>2. KindTypes'
  BY <1>1 DEF KindTypes, IInv, TypeOK
<1> QED
  BY <1>1, <1>2, StrandStays, KeepSection

LEMMA StepIInv == IInv /\ [Next]_vars => IInv' /\ Unclobbered
<1> SUFFICES ASSUME IInv, [Next]_vars PROVE IInv' /\ Unclobbered
  OBVIOUS
<1>1. RegistryKept /\ KindTypes' /\ StrandKept
  BY StepKeeps, StutterKeeps
<1> QED
  BY <1>1 DEF RegistryKept, RegTypes, KindTypes, StrandKept, StrandTypes, IInv, TypeOK

-----------------------------------------------------------------------------
(* Places.  What OnePlace says of a socket depends on that socket's slots, *)
(* hands and kind only, so a step is judged socket by socket: each socket  *)
(* stays where it is, moves to one slot or one hand, or is dropped.        *)

Live == {"listener", "tcp", "tls"}

OnePlaceFor(c) ==
    /\ \A r, q \in Registries : \A i, j :
          InSlot(c, r, i) /\ InSlot(c, q, j) => r = q /\ i = j
    /\ \A s, t \in Strands : InHand(c, s) /\ InHand(c, t) => s = t
    /\ \A s \in Strands, r \in Registries : \A i : ~(InHand(c, s) /\ InSlot(c, r, i))
    /\ kind[c] \in Live <=> \/ \E r \in Registries : \E i : InSlot(c, r, i)
                            \/ \E s \in Strands : InHand(c, s)

PlacesInv == \A c \in Sockets : OnePlaceFor(c)

LEMMA PlacesMean == PlacesInv <=> OnePlace
<1>1. \A c, r, i : InSlot(c, r, i) => i \in Ids(r)
  BY DEF InSlot
<1>2. ASSUME NEW c \in Sockets
      PROVE  OnePlaceFor(c) <=>
                /\ \A r, q \in Registries : \A i \in Ids(r), j \in Ids(q) :
                      InSlot(c, r, i) /\ InSlot(c, q, j) => r = q /\ i = j
                /\ \A s, t \in Strands : InHand(c, s) /\ InHand(c, t) => s = t
                /\ \A s \in Strands : InHand(c, s) =>
                      \A r \in Registries : \A i \in Ids(r) : ~InSlot(c, r, i)
                /\ Reachable(c) <=> kind[c] \in {"listener", "tcp", "tls"}
  BY <1>1, Zenon DEF OnePlaceFor, Reachable, Live
<1> QED
  BY <1>2, Zenon DEF PlacesInv, OnePlace

(* What a step may do with socket c.                                       *)
Stays(c) ==
    /\ \A r \in Registries : \A i : InSlot(c, r, i)' <=> InSlot(c, r, i)
    /\ \A s \in Strands : InHand(c, s)' <=> InHand(c, s)
    /\ kind'[c] \in Live <=> kind[c] \in Live

ToSlot(c, r, i) ==
    /\ \A q \in Registries : \A j : InSlot(c, q, j)' <=> q = r /\ j = i
    /\ \A s \in Strands : ~InHand(c, s)'
    /\ kind'[c] \in Live

ToHand(c, s) ==
    /\ \A r \in Registries : \A i : ~InSlot(c, r, i)'
    /\ \A t \in Strands : InHand(c, t)' <=> t = s
    /\ kind'[c] \in Live

Dropped(c) ==
    /\ \A r \in Registries : \A i : ~InSlot(c, r, i)'
    /\ \A s \in Strands : ~InHand(c, s)'
    /\ kind'[c] \notin Live

LEMMA StaysPlaced ==
    ASSUME NEW c, OnePlaceFor(c), Stays(c) PROVE OnePlaceFor(c)'
  BY ZenonT(60) DEF OnePlaceFor, Stays

LEMMA ToSlotPlaced ==
    ASSUME NEW c, NEW r \in Registries, NEW i, ToSlot(c, r, i) PROVE OnePlaceFor(c)'
  BY DEF OnePlaceFor, ToSlot

LEMMA ToHandPlaced ==
    ASSUME NEW c, NEW s \in Strands, ToHand(c, s) PROVE OnePlaceFor(c)'
  BY Zenon DEF OnePlaceFor, ToHand

LEMMA DroppedPlaced ==
    ASSUME NEW c, Dropped(c) PROVE OnePlaceFor(c)'
  BY Zenon DEF OnePlaceFor, Dropped

(* The registries, socket by socket: slot i of r gets c, or loses what it  *)
(* has, or nothing changes.                                                *)
Gains(r, i, c) ==
    \A d \in Sockets, q \in Registries : \A j :
        InSlot(d, q, j)' <=> InSlot(d, q, j) \/ (d = c /\ q = r /\ j = i)

Loses(r, i) ==
    \A d \in Sockets, q \in Registries : \A j :
        InSlot(d, q, j)' <=> InSlot(d, q, j) /\ ~(q = r /\ j = i)

SlotsKept ==
    \A d \in Sockets, q \in Registries : \A j : InSlot(d, q, j)' <=> InSlot(d, q, j)

LEMMA Untouched ==
    ASSUME NEW r \in Registries, SocketsElsewhere(r)
    PROVE  \A d, q, j : q \in Registries \ {r} => (InSlot(d, q, j)' <=> InSlot(d, q, j))
  BY DEF SocketsElsewhere, InSlot, Ids

LEMMA FilledGains ==
    ASSUME NEW r \in Registries, NEW i \in Ids(r), sockets[r][i] = None,
           NEW c \in Sockets, Filled(r, i, c)
    PROVE  Gains(r, i, c)
<1>1. ASSUME NEW d \in Sockets, NEW j
      PROVE  InSlot(d, r, j)' <=> InSlot(d, r, j) \/ (d = c /\ j = i)
  BY SocketConstants DEF InSlot, Filled
<1> QED
  BY <1>1, Untouched DEF Gains, Filled

LEMMA GrownGains ==
    ASSUME NEW r \in Registries, NEW c \in Sockets, Grown(r, c)
    PROVE  \E i : Gains(r, i, c)
<1>1. PICK n : /\ n \notin Ids(r)
               /\ Ids(r)' = Ids(r) \cup {n}
               /\ sockets'[r][n] = c
  BY DEF Grown
<1>2. ASSUME NEW d \in Sockets, NEW j
      PROVE  InSlot(d, r, j)' <=> InSlot(d, r, j) \/ (d = c /\ j = n)
  BY <1>1 DEF InSlot, Grown
<1>3. Gains(r, n, c)
  BY <1>2, Untouched DEF Gains, Grown
<1> QED
  BY <1>3

LEMMA FilledLoses ==
    ASSUME NEW r \in Registries, NEW i \in Ids(r), Filled(r, i, None)
    PROVE  Loses(r, i)
<1>1. ASSUME NEW d \in Sockets, NEW j
      PROVE  InSlot(d, r, j)' <=> InSlot(d, r, j) /\ j # i
  BY SocketConstants DEF InSlot, Filled
<1> QED
  BY <1>1, Untouched DEF Loses, Filled

LEMMA SameSlots ==
    ASSUME sockets' = sockets PROVE SlotsKept
  BY DEF SlotsKept, InSlot, Ids

(* Allocation puts the socket in a slot, or drops it.                      *)
LEMMA AllocatePlaces ==
    ASSUME IInv, NEW r \in Registries, NEW c \in Sockets, NEW k, Allocate(r, c, k)
    PROVE  \/ (\E i : Gains(r, i, c)) /\ kind' = [kind EXCEPT ![c] = k]
           \/ SlotsKept /\ kind' = [kind EXCEPT ![c] = "closed"]
<1>1. SeqTypes
  BY TypesOfSeqs DEF IInv
<1>2. CASE /\ free_ids[r] # <<>>
           /\ sockets' = Fill(r, free_ids[r][Len(free_ids[r])], c)
           /\ free_ids' = [free_ids EXCEPT ![r] = SubSeq(@, 1, Len(@) - 1)]
           /\ kind' = [kind EXCEPT ![c] = k]
  <2> DEFINE i == free_ids[r][Len(free_ids[r])]
  <2>1. Popped(r, i)
    BY <1>1, <1>2, PopFacts
  <2> HIDE DEF i
  <2>2. i \in Ids(r) /\ sockets[r][i] = None
    BY <2>1 DEF IInv, AllIdsInv, IdsInv, Popped
  <2>3. Filled(r, i, c)
    BY <1>1, <1>2, <2>2, FillFacts DEF i
  <2> QED
    BY <1>2, <2>2, <2>3, FilledGains
<1>3. CASE /\ sockets' = [sockets EXCEPT ![r] = Append(@, c)]
           /\ kind' = [kind EXCEPT ![c] = k]
  <2>1. Grown(r, c)
    BY <1>1, <1>3, GrowFacts
  <2> QED
    BY <1>3, <2>1, GrownGains
<1>4. CASE UNCHANGED registry /\ kind' = [kind EXCEPT ![c] = "closed"]
  BY <1>4, SameSlots DEF registry
<1> QED
  BY <1>2, <1>3, <1>4 DEF Allocate

(* Putting back what s holds fills the slot it reserves.                   *)
LEMMA PutPlaces ==
    ASSUME IInv, NEW r \in Registries, NEW s \in Strands, Reserves(s, r),
           hand[s] \in Sockets, sockets' = Fill(r, id[s], hand[s])
    PROVE  Gains(r, id[s], hand[s])
<1>1. SeqTypes
  BY TypesOfSeqs DEF IInv
<1>2. id[s] \in Ids(r) /\ sockets[r][id[s]] = None
  BY DEF IInv, AllIdsInv, IdsInv
<1>3. Filled(r, id[s], hand[s])
  BY <1>1, <1>2, FillFacts
<1> QED
  BY <1>2, <1>3, FilledGains

LEMMA EmptiedPlaces ==
    ASSUME IInv, NEW r \in Registries, NEW i \in Ids(r), sockets[r][i] # None,
           sockets' = Fill(r, i, None)
    PROVE  /\ Loses(r, i)
           /\ sockets[r][i] \in Sockets
           /\ InSlot(sockets[r][i], r, i)
<1>1. SeqTypes
  BY TypesOfSeqs DEF IInv
<1>2. Filled(r, i, None)
  BY <1>1, FillFacts
<1>3. sockets[r][i] \in Sockets \cup {None}
  BY <1>1, ElementOfSeq DEF SeqTypes, Ids
<1> QED
  BY <1>2, <1>3, FilledLoses DEF InSlot

(* The hand of s alone changes, to c.                                      *)
Handed(s, c) ==
    \A d \in Sockets, t \in Strands : InHand(d, t)' <=> IF t = s THEN d = c ELSE InHand(d, t)

LEMMA HandTo ==
    ASSUME IInv, NEW s \in Strands, NEW c, hand' = [hand EXCEPT ![s] = c]
    PROVE  Handed(s, c)
<1>1. hand'[s] = c /\ \A t \in Strands \ {s} : hand'[t] = hand[t]
  BY DEF IInv, TypeOK
<1> QED
  BY <1>1 DEF Handed, InHand

KindTo(c, k) == \A d \in Sockets : kind'[d] = IF d = c THEN k ELSE kind[d]

LEMMA KindSet ==
    ASSUME IInv, NEW c \in Sockets, NEW k, kind' = [kind EXCEPT ![c] = k]
    PROVE  KindTo(c, k)
  BY DEF KindTo, IInv, TypeOK

(* Step by step: where each socket goes.                                   *)

LEMMA OpenPlaces ==
    ASSUME IInv, PlacesInv, NEW r \in Registries, NEW c \in Sockets,
           NEW k \in Live, kind[c] = "new", Allocate(r, c, k), UNCHANGED strand
    PROVE  PlacesInv'
<1>1. \A d \in Sockets, t \in Strands : InHand(d, t)' <=> InHand(d, t)
  BY DEF strand, InHand
<1>2. /\ \A q \in Registries : \A j : ~InSlot(c, q, j)
      /\ \A t \in Strands : ~InHand(c, t)
  BY DEF PlacesInv, OnePlaceFor, Live
<1>3. ASSUME NEW d \in Sockets PROVE OnePlaceFor(d)'
  <2>1. OnePlaceFor(d)
    BY DEF PlacesInv
  <2>2. CASE (\E i : Gains(r, i, c)) /\ kind' = [kind EXCEPT ![c] = k]
    <3>1. PICK i : Gains(r, i, c)
      BY <2>2
    <3>2. KindTo(c, k)
      BY <2>2, KindSet
    <3>3. CASE d = c
      <4>1. ToSlot(c, r, i)
        BY <1>1, <1>2, <3>1, <3>2 DEF ToSlot, Gains, KindTo
      <4> QED
        BY <3>3, <4>1, ToSlotPlaced
    <3>4. CASE d # c
      <4>1. Stays(d)
        BY <1>1, <3>1, <3>2, <3>4 DEF Stays, Gains, KindTo
      <4> QED
        BY <2>1, <4>1, StaysPlaced
    <3> QED
      BY <3>3, <3>4
  <2>3. CASE SlotsKept /\ kind' = [kind EXCEPT ![c] = "closed"]
    <3>1. KindTo(c, "closed")
      BY <2>3, KindSet
    <3>2. Stays(d)
      BY <1>1, <2>3, <3>1 DEF Stays, SlotsKept, KindTo, Live
    <3> QED
      BY <2>1, <3>2, StaysPlaced
  <2> QED
    BY <2>2, <2>3, AllocatePlaces
<1> QED
  BY <1>3 DEF PlacesInv

LEMMA StorePlaces ==
    ASSUME IInv, PlacesInv, NEW s \in Strands, AcceptStore(s)
    PROVE  PlacesInv'
<1>0. PICK c : c = hand[s]
  OBVIOUS
<1>1. c \in Sockets /\ InHand(c, s) /\ "streams" \in Registries
  BY <1>0, HandOf DEF AcceptStore, InHand, Registries
<1>2. Handed(s, None) /\ None \notin Sockets
  BY HandTo, SocketConstants DEF AcceptStore, Return
<1>3. /\ \A q \in Registries : \A j : ~InSlot(c, q, j)
      /\ \A t \in Strands : InHand(c, t) => t = s
  BY <1>1 DEF PlacesInv, OnePlaceFor
<1>4. \A d \in Sockets \ {c} : ~InHand(d, s)
  BY <1>0 DEF InHand
<1>5. ASSUME NEW d \in Sockets PROVE OnePlaceFor(d)'
  <2>1. OnePlaceFor(d)
    BY DEF PlacesInv
  <2>2. CASE (\E i : Gains("streams", i, c)) /\ kind' = [kind EXCEPT ![c] = "tcp"]
    <3>1. PICK i : Gains("streams", i, c)
      BY <2>2
    <3>2. KindTo(c, "tcp")
      BY <1>1, <2>2, KindSet
    <3>3. CASE d = c
      <4>1. ToSlot(c, "streams", i)
        BY <1>1, <1>2, <1>3, <3>1, <3>2 DEF ToSlot, Gains, KindTo, Handed, Live
      <4> QED
        BY <1>1, <3>3, <4>1, ToSlotPlaced
    <3>4. CASE d # c
      <4>1. Stays(d)
        BY <1>2, <1>4, <3>1, <3>2, <3>4 DEF Stays, Gains, KindTo, Handed
      <4> QED
        BY <2>1, <4>1, StaysPlaced
    <3> QED
      BY <3>3, <3>4
  <2>3. CASE SlotsKept /\ kind' = [kind EXCEPT ![c] = "closed"]
    <3>1. KindTo(c, "closed")
      BY <1>1, <2>3, KindSet
    <3>2. CASE d = c
      <4>1. Dropped(c)
        BY <1>1, <1>2, <1>3, <2>3, <3>1 DEF Dropped, SlotsKept, KindTo, Handed, Live
      <4> QED
        BY <3>2, <4>1, DroppedPlaced
    <3>3. CASE d # c
      <4>1. Stays(d)
        BY <1>2, <1>4, <2>3, <3>1, <3>3 DEF Stays, SlotsKept, KindTo, Handed
      <4> QED
        BY <2>1, <4>1, StaysPlaced
    <3> QED
      BY <3>2, <3>3
  <2>4. Allocate("streams", c, "tcp")
    BY <1>0 DEF AcceptStore
  <2> QED
    BY <1>1, <2>2, <2>3, <2>4, AllocatePlaces
<1> QED
  BY <1>5 DEF PlacesInv

(* A socket out of its slot and into the hand of s.                        *)
LEMMA TakePlaces ==
    ASSUME IInv, PlacesInv, NEW s \in Strands, NEW r \in Registries, NEW i,
           NEW next, Take(s, r, i, next), kind' = kind
    PROVE  PlacesInv'
<1>0. PICK c : c = sockets[r][i]
  OBVIOUS
<1>1. i \in Ids(r) /\ c # None
  BY <1>0 DEF Take
<1>2. Loses(r, i) /\ c \in Sockets /\ InSlot(c, r, i)
  BY <1>0, <1>1, EmptiedPlaces DEF Take
<1>3. \A d \in Sockets : InSlot(d, r, i) => d = c
  BY <1>0 DEF InSlot
<1>4. Handed(s, c)
  BY <1>0, HandTo DEF Take
<1>5. \A d \in Sockets : ~InHand(d, s)
  BY DEF Take, IInv, HandInv, InHand
<1>6. /\ \A q \in Registries : \A j : InSlot(c, q, j) => q = r /\ j = i
      /\ \A t \in Strands : ~InHand(c, t)
      /\ kind[c] \in Live
  BY <1>2 DEF PlacesInv, OnePlaceFor
<1>7. ASSUME NEW d \in Sockets PROVE OnePlaceFor(d)'
  <2>1. CASE d = c
    <3>1. ToHand(c, s)
      BY <1>2, <1>4, <1>6 DEF ToHand, Loses, Handed
    <3> QED
      BY <2>1, <3>1, ToHandPlaced
  <2>2. CASE d # c
    <3>1. Stays(d)
      BY <1>2, <1>3, <1>4, <1>5, <2>2 DEF Stays, Loses, Handed
    <3> QED
      BY <3>1, StaysPlaced DEF PlacesInv
  <2> QED
    BY <2>1, <2>2
<1> QED
  BY <1>7 DEF PlacesInv

(* What s holds, back into the slot s reserves; s may hold b afterwards,   *)
(* a connection that was nowhere before.  The kinds that change stay live, *)
(* but for b's, which becomes so.                                          *)
LEMMA PutPlaced ==
    ASSUME IInv, PlacesInv, NEW s \in Strands, NEW r \in Registries, NEW b,
           Reserves(s, r), hand[s] \in Sockets,
           sockets' = Fill(r, id[s], hand[s]), Handed(s, b),
           b \in Sockets => kind[b] = "new" /\ kind'[b] \in Live,
           \A d \in Sockets : d # b => (kind'[d] \in Live <=> kind[d] \in Live)
    PROVE  PlacesInv'
<1>0. PICK c : c = hand[s]
  OBVIOUS
<1>1. Gains(r, id[s], c)
  BY <1>0, PutPlaces
<1>2. c \in Sockets /\ InHand(c, s) /\ \A d \in Sockets : InHand(d, s) => d = c
  BY <1>0 DEF InHand
<1>3. /\ \A q \in Registries : \A j : ~InSlot(c, q, j)
      /\ \A t \in Strands : InHand(c, t) => t = s
      /\ kind[c] \in Live
  BY <1>2 DEF PlacesInv, OnePlaceFor
<1>4. b \in Sockets => /\ \A q \in Registries : \A j : ~InSlot(b, q, j)
                       /\ \A t \in Strands : ~InHand(b, t)
  BY DEF PlacesInv, OnePlaceFor, Live
<1>5. b # c
  BY <1>2, <1>3 DEF Live
<1>6. ASSUME NEW d \in Sockets PROVE OnePlaceFor(d)'
  <2>1. CASE d = c
    <3>1. ToSlot(c, r, id[s])
      BY <1>1, <1>2, <1>3, <1>5 DEF ToSlot, Gains, Handed
    <3> QED
      BY <2>1, <3>1, ToSlotPlaced
  <2>2. CASE d = b
    <3>1. ToHand(b, s)
      BY <1>1, <1>4, <1>5, <2>2 DEF ToHand, Gains, Handed
    <3> QED
      BY <2>2, <3>1, ToHandPlaced
  <2>3. CASE d # c /\ d # b
    <3>1. Stays(d)
      BY <1>1, <1>2, <2>3 DEF Stays, Gains, Handed
    <3> QED
      BY <3>1, StaysPlaced DEF PlacesInv
  <2> QED
    BY <2>1, <2>2, <2>3
<1> QED
  BY <1>6 DEF PlacesInv

(* The socket in slot i, dropped.                                          *)
LEMMA FreePlaces ==
    ASSUME IInv, PlacesInv, NEW r \in Registries, NEW i \in Ids(r),
           sockets[r][i] # None, Free(r, i),
           \A d \in Sockets, t \in Strands : InHand(d, t)' <=> InHand(d, t)
    PROVE  PlacesInv'
<1>0. PICK c : c = sockets[r][i]
  OBVIOUS
<1>1. Loses(r, i) /\ c \in Sockets /\ InSlot(c, r, i)
  BY <1>0, EmptiedPlaces DEF Free
<1>2. \A d \in Sockets : InSlot(d, r, i) => d = c
  BY <1>0 DEF InSlot
<1>3. KindTo(c, "closed")
  BY <1>0, <1>1, KindSet DEF Free
<1>4. /\ \A q \in Registries : \A j : InSlot(c, q, j) => q = r /\ j = i
      /\ \A t \in Strands : ~InHand(c, t)
  BY <1>1 DEF PlacesInv, OnePlaceFor
<1>5. ASSUME NEW d \in Sockets PROVE OnePlaceFor(d)'
  <2>1. CASE d = c
    <3>1. Dropped(c)
      BY <1>1, <1>3, <1>4 DEF Dropped, Loses, KindTo, Live
    <3> QED
      BY <2>1, <3>1, DroppedPlaced
  <2>2. CASE d # c
    <3>1. Stays(d)
      BY <1>1, <1>2, <1>3, <2>2 DEF Stays, Loses, KindTo
    <3> QED
      BY <3>1, StaysPlaced DEF PlacesInv
  <2> QED
    BY <2>1, <2>2
<1> QED
  BY <1>5 DEF PlacesInv

(* The connection whose handshake failed, dropped from the hand of s.      *)
LEMMA FailedPlaces ==
    ASSUME IInv, PlacesInv, NEW s \in Strands, UpgradeFails(s)
    PROVE  PlacesInv'
<1>0. PICK c : c = hand[s]
  OBVIOUS
<1>1. c \in Sockets /\ InHand(c, s) /\ \A d \in Sockets : InHand(d, s) => d = c
  BY <1>0, HandOf DEF UpgradeFails, InHand
<1>2. Handed(s, None) /\ SlotsKept /\ None \notin Sockets
  BY HandTo, SameSlots, SocketConstants DEF UpgradeFails, registry
<1>3. KindTo(c, "closed")
  BY <1>0, <1>1, KindSet DEF UpgradeFails
<1>4. /\ \A q \in Registries : \A j : ~InSlot(c, q, j)
      /\ \A t \in Strands : InHand(c, t) => t = s
  BY <1>1 DEF PlacesInv, OnePlaceFor
<1>5. ASSUME NEW d \in Sockets PROVE OnePlaceFor(d)'
  <2>1. CASE d = c
    <3>1. Dropped(c)
      BY <1>1, <1>2, <1>3, <1>4 DEF Dropped, SlotsKept, Handed, KindTo, Live
    <3> QED
      BY <2>1, <3>1, DroppedPlaced
  <2>2. CASE d # c
    <3>1. Stays(d)
      BY <1>1, <1>2, <1>3, <2>2 DEF Stays, SlotsKept, Handed, KindTo
    <3> QED
      BY <3>1, StaysPlaced DEF PlacesInv
  <2> QED
    BY <2>1, <2>2
<1> QED
  BY <1>5 DEF PlacesInv

(* Nothing that OnePlace speaks of changes.                                *)
LEMMA KeptPlaces ==
    ASSUME PlacesInv, sockets' = sockets, kind' = kind,
           \A d \in Sockets, t \in Strands : InHand(d, t)' <=> InHand(d, t)
    PROVE  PlacesInv'
<1>1. SlotsKept
  BY SameSlots
<1>2. ASSUME NEW d \in Sockets PROVE Stays(d)
  BY <1>1 DEF Stays, SlotsKept
<1> QED
  BY <1>2, StaysPlaced DEF PlacesInv

(* A strand that holds nothing goes idle: nobody's hand changes.           *)
LEMMA EmptyHanded ==
    ASSUME IInv, NEW s \in Strands, Return(s),
           pc[s] \notin {"accept", "store", "io", "handshake"}
    PROVE  \A d \in Sockets, t \in Strands : InHand(d, t)' <=> InHand(d, t)
<1>1. Handed(s, None) /\ None \notin Sockets
  BY HandTo, SocketConstants DEF Return
<1>2. \A d \in Sockets : ~InHand(d, s)
  BY DEF IInv, HandInv, InHand
<1> QED
  BY <1>1, <1>2 DEF Handed

LEMMA StepPlaces ==
    ASSUME IInv, PlacesInv, Next
    PROVE  PlacesInv'
<1>1. PICK s \in Strands :
        \/ \E c \in Sockets : Listen(s, c) \/ Connect(s, c) \/ AcceptReturns(s, c)
        \/ \E i \in Ids("listeners") : AcceptTake(s, i)
        \/ \E i \in Ids("streams") : IoTake(s, i) \/ UpgradeTake(s, i)
        \/ \E i \in Ids("streams") \cup Ids("listeners") : CloseStreams(s, i)
        \/ AcceptFails(s) \/ AcceptStore(s) \/ IoReturns(s)
        \/ UpgradeOk(s) \/ UpgradeFails(s) \/ ReleaseReserved(s)
        \/ CloseListeners(s)
  BY DEF Next
<1>2. "listeners" \in Registries /\ "streams" \in Registries
  BY DEF Registries
<1>3. ASSUME NEW c \in Sockets, Listen(s, c) PROVE PlacesInv'
  BY <1>2, <1>3, OpenPlaces DEF Listen, Live
<1>4. ASSUME NEW c \in Sockets, Connect(s, c) PROVE PlacesInv'
  BY <1>2, <1>4, OpenPlaces DEF Connect, Live
<1>5. ASSUME NEW c \in Sockets, AcceptReturns(s, c) PROVE PlacesInv'
  <2>1. KindTo(c, "tcp") /\ Handed(s, c) /\ hand[s] \in Sockets
    BY <1>5, KindSet, HandTo, HandOf DEF AcceptReturns
  <2>2. Reserves(s, "listeners")
    BY <1>5 DEF AcceptReturns, Reserves, Reserving
  <2>3. /\ c \in Sockets => kind[c] = "new" /\ kind'[c] \in Live
        /\ \A d \in Sockets : d # c => (kind'[d] \in Live <=> kind[d] \in Live)
    BY <1>5, <2>1 DEF AcceptReturns, KindTo, Live
  <2> QED
    BY <1>2, <1>5, <2>1, <2>2, <2>3, PutPlaced DEF AcceptReturns
<1>6. ASSUME NEW i, AcceptTake(s, i) PROVE PlacesInv'
  BY <1>2, <1>6, TakePlaces DEF AcceptTake
<1>7. ASSUME NEW i, IoTake(s, i) PROVE PlacesInv'
  BY <1>2, <1>7, TakePlaces DEF IoTake
<1>8. ASSUME NEW i, UpgradeTake(s, i) PROVE PlacesInv'
  BY <1>2, <1>8, TakePlaces DEF UpgradeTake
<1>9. ASSUME NEW i \in Ids("streams") \cup Ids("listeners"), CloseStreams(s, i)
      PROVE  PlacesInv'
  <2>1. CASE /\ i \in Ids("streams") /\ sockets["streams"][i] # None
             /\ Free("streams", i)
             /\ UNCHANGED strand
    <3>1. \A d \in Sockets, t \in Strands : InHand(d, t)' <=> InHand(d, t)
      BY <2>1 DEF strand, InHand
    <3> QED
      BY <1>2, <2>1, <3>1, FreePlaces
  <2>2. CASE UNCHANGED <<registry, kind, hand>>
    <3>1. \A d \in Sockets, t \in Strands : InHand(d, t)' <=> InHand(d, t)
      BY <2>2 DEF InHand
    <3> QED
      BY <2>2, <3>1, KeptPlaces DEF registry
  <2> QED
    BY <1>9, <2>1, <2>2 DEF CloseStreams
<1>10. ASSUME NEW r \in Registries, Reserves(s, r), hand[s] \in Sockets,
              sockets' = Fill(r, id[s], hand[s]), Return(s),
              \A d \in Sockets : kind'[d] \in Live <=> kind[d] \in Live
       PROVE  PlacesInv'
  <2>1. Handed(s, None)
    BY <1>10, HandTo DEF Return
  <2> QED
    BY <1>10, <2>1, PutPlaced, SocketConstants
<1>11. ASSUME AcceptFails(s) PROVE PlacesInv'
  <2>1. Reserves(s, "listeners") /\ hand[s] \in Sockets
    BY <1>11, HandOf DEF AcceptFails, Reserves, Reserving
  <2> QED
    BY <1>2, <1>10, <1>11, <2>1 DEF AcceptFails
<1>12. ASSUME IoReturns(s) PROVE PlacesInv'
  <2>1. Reserves(s, "streams") /\ hand[s] \in Sockets
    BY <1>12, HandOf DEF IoReturns, Reserves, Reserving
  <2> QED
    BY <1>2, <1>10, <1>12, <2>1 DEF IoReturns
<1>13. ASSUME UpgradeOk(s) PROVE PlacesInv'
  <2>1. Reserves(s, "streams") /\ hand[s] \in Sockets
    BY <1>13, HandOf DEF UpgradeOk, Reserves, Reserving
  <2>2. KindTo(hand[s], "tls")
    BY <1>13, <2>1, KindSet DEF UpgradeOk
  <2>3. kind[hand[s]] \in Live
    BY <2>1 DEF PlacesInv, OnePlaceFor, InHand
  <2>4. \A d \in Sockets : kind'[d] \in Live <=> kind[d] \in Live
    BY <2>2, <2>3 DEF KindTo, Live
  <2> QED
    BY <1>2, <1>10, <1>13, <2>1, <2>4 DEF UpgradeOk
<1>14. ASSUME ReleaseReserved(s) PROVE PlacesInv'
  BY <1>14, EmptyHanded, KeptPlaces DEF ReleaseReserved
<1>15. ASSUME CloseListeners(s) PROVE PlacesInv'
  <2>1. \A d \in Sockets, t \in Strands : InHand(d, t)' <=> InHand(d, t)
    BY <1>15, EmptyHanded DEF CloseListeners
  <2>2. CASE /\ id[s] \in Ids("listeners") /\ sockets["listeners"][id[s]] # None
             /\ Free("listeners", id[s])
    BY <1>2, <2>1, <2>2, FreePlaces
  <2>3. CASE UNCHANGED <<registry, kind>>
    BY <2>1, <2>3, KeptPlaces DEF registry
  <2> QED
    BY <1>15, <2>2, <2>3 DEF CloseListeners
<1> QED
  BY <1>1, <1>3, <1>4, <1>5, <1>6, <1>7, <1>8, <1>9, <1>11, <1>12, <1>13, <1>14, <1>15,
     StorePlaces, FailedPlaces

-----------------------------------------------------------------------------
(* Whatever the interleaving of opens, accepts, reads, upgrades and        *)
(* closes, slots hold sockets or None and no registry grows past           *)
(* MAX_SOCKETS (the limit test of SocketRegistry::allocate).               *)
THEOREM TypeCorrect == Spec => []TypeOK
<1>1. IInv => TypeOK
  BY DEF IInv
<1> QED
  BY InitIInv, StepIInv, <1>1, PTL DEF Spec

LEMMA IdsMean == IInv => IdsAccounted
<1> SUFFICES ASSUME IInv, NEW r \in Registries
             PROVE  /\ Distinct(r)
                    /\ FreeSet(r) \subseteq Ids(r)
                    /\ \A s \in Strands : Reserves(s, r) => id[s] \in Ids(r)
                    /\ \A i \in Ids(r) :
                          /\ sockets[r][i] # None => i \notin FreeSet(r)
                          /\ sockets[r][i] = None =>
                               (i \in FreeSet(r) <=> \A s \in Strands : ~Holds(s, r, i))
                          /\ \A s \in Strands : Holds(s, r, i) =>
                               /\ sockets[r][i] = None
                               /\ \A t \in Strands : Holds(t, r, i) => t = s
  BY Zenon DEF IdsAccounted, Distinct, FreeSet, Reserves
<1>1. IdsInv(r)
  BY DEF IInv, AllIdsInv
<1>2. \A s \in Strands : \A i : Holds(s, r, i) <=> Reserves(s, r) /\ id[s] = i
  BY DEF Holds, Reserves
<1> QED
  BY <1>1, <1>2 DEF IdsInv

(* Every id is free once, occupied, or reserved by exactly one operation:  *)
(* allocate, free, the take-and-put-back of accept, read and write, and    *)
(* release_reserved neither lose an id nor hand one out twice.             *)
THEOREM IdsSound == Spec => []IdsAccounted
  BY InitIInv, StepIInv, IdsMean, PTL DEF Spec

(* Every open socket is in exactly one slot or one operation's hands, a    *)
(* dropped one in none, and ids are neither lost nor handed out twice:     *)
(* take, put-back, upgrade, close and the drop of a full registry never    *)
(* leave a connection shared by two strands or open out of reach.          *)
THEOREM SocketsSound == Spec => []SocketsOwned
<1>1. Init => PlacesInv
  <2> SUFFICES ASSUME Init, NEW c \in Sockets PROVE OnePlaceFor(c)
    BY DEF PlacesInv
  <2>1. \A r \in Registries : Ids(r) = {}
    BY DEF Init, Ids
  <2>2. \A s \in Strands : hand[s] # c
    BY SocketConstants DEF Init
  <2>3. kind[c] \notin Live
    BY DEF Init, Live
  <2> QED
    BY <2>1, <2>2, <2>3 DEF OnePlaceFor, InSlot, InHand
<1>2. IInv /\ PlacesInv /\ [Next]_vars => PlacesInv'
  <2> SUFFICES ASSUME IInv, PlacesInv, [Next]_vars PROVE PlacesInv'
    OBVIOUS
  <2>1. CASE Next
    BY <2>1, StepPlaces
  <2>2. CASE UNCHANGED vars
    BY <2>2, KeptPlaces DEF vars, registry, strand, InHand
  <2> QED
    BY <2>1, <2>2
<1>3. IInv /\ PlacesInv => SocketsOwned
  BY PlacesMean, IdsMean DEF IInv, SocketsOwned
<1> QED
  BY InitIInv, StepIInv, <1>1, <1>2, <1>3, PTL DEF Spec

(* What a strand puts back after a blocking accept, read, write or         *)
(* handshake never lands in a slot that another strand filled meanwhile.   *)
THEOREM NotClobbered == Spec => NoClobber
<1>1. Unclobbered => \A r \in Registries : \A i \in Ids(r) :
          sockets[r][i] # None => sockets'[r][i] \in {None, sockets[r][i]}
  BY DEF Unclobbered
<1> QED
  BY InitIInv, StepIInv, <1>1, PTL DEF Spec, NoClobber
=============================================================================
