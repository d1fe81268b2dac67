------------------------- MODULE StrandRegistryProofs -------------------------
(***************************************************************************)
(* Proofs about StrandRegistry, for any number of strands and slots and    *)
(* any clock, and about the memory statistics and signals beside it.       *)
(*                                                                         *)
(* OwnInv follows a strand through register and unregister and says what   *)
(* its index means.  ScanInv relates the slots to a scan in progress:      *)
(* which strands it has passed, which it has yet to reach, and what the    *)
(* slot under it may have become between its two loads.                    *)
(***************************************************************************)
EXTENDS MCStrandRegistry, FiniteSetTheorems, WellFoundedInduction, TLAPS

(* A strand is in at most one slot, only while it runs or unregisters, and *)
(* its unregister has not gone past it.                                    *)
OwnInv ==
    /\ \A i, j \in Slots : strand_id[i] = strand_id[j] /\ strand_id[i] # Free => i = j
    /\ \A i \in Slots : strand_id[i] # Free =>
           /\ pc[strand_id[i]] \in {"run", "u_clear"}
           /\ idx[strand_id[i]] <= i
    /\ \A s \in Strands : pc[s] = "run" => idx[s] = 1
    /\ \A s \in Strands : pc[s] \in {"r_claim", "u_reset"} => idx[s] \in Slots

(* The strands that run without a slot.                                    *)
Untracked == {s \in Strands : pc[s] = "run" /\ \A i \in Slots : strand_id[i] # s}
OverflowInv == IsFiniteSet(Untracked) /\ Cardinality(Untracked) <= overflow_count

(* A strand that is not yet registered will be; one that is registered is  *)
(* listed by the scan exactly if its slot has been passed.                 *)
Coming == {"unborn", "r_store", "r_claim"}
ScanInv ==
    /\ wpc \in {"off", "sleep", "exited"} => widx = 1 /\ scanned = {} /\ through = {}
    /\ wpc = "load_time" =>
           /\ widx \in Slots /\ id \in Strands /\ pc[id] \notin Coming
           /\ \A p \in scanned : p[1] # id
           /\ \A i \in Slots : strand_id[i] = id => i = widx
           /\ strand_id[widx] \in through => strand_id[widx] = id
    /\ \A p \in scanned : pc[p[1]] \notin Coming
    /\ \A p \in scanned : \A i \in Slots : strand_id[i] = p[1] => i < widx
    /\ \A p, q \in scanned : p[1] = q[1] => p = q
    /\ \A s \in through : \E i \in Slots : strand_id[i] = s
    /\ \A i \in Slots : strand_id[i] \in through /\ i < widx =>
           \E p \in scanned : p[1] = strand_id[i]

(* The finding so far is the worst of what the scan has seen so far.       *)
Stuck(p) == p[2] # 0 /\ RunningSecs(p[2]) > config.threshold
WorstInv ==
    \/ worst = NoStrand /\ \A p \in scanned : ~Stuck(p)
    \/ \E p \in scanned :
           /\ Stuck(p) /\ worst = [strand |-> p[1], secs |-> RunningSecs(p[2])]
           /\ \A q \in scanned : Stuck(q) => RunningSecs(q[2]) <= worst.secs

IInv == TypeOK /\ OwnInv /\ OverflowInv /\ ScanInv /\ WorstInv

-----------------------------------------------------------------------------

LEMMA TimesNat == \A t \in Times \cup {0} : t \in Nat
  BY RegistryConstants

LEMMA TypeStep ==
    ASSUME IInv, [Next]_vars
    PROVE  TypeOK'
<1> USE RegistryConstants DEF IInv, TypeOK, StrandLabels, slots, strands, watchdog
<1>1. ASSUME Tick
      PROVE  TypeOK'
  BY <1>1 DEF Tick
<1>2. ASSUME NEW s \in Strands, RegisterCall(s)
      PROVE  TypeOK'
  BY <1>2 DEF RegisterCall
<1>3. ASSUME NEW s \in Strands, RegisterStore(s)
      PROVE  TypeOK'
  BY <1>3 DEF RegisterStore
<1>4. ASSUME NEW s \in Strands, RegisterClaim(s)
      PROVE  TypeOK'
  <2>1. idx[s] \in Slots
    BY <1>4 DEF RegisterClaim, OwnInv
  <2>2. CASE /\ strand_id' = [strand_id EXCEPT ![idx[s]] = s]
             /\ idx' = [idx EXCEPT ![s] = 1]
             /\ pc' = [pc EXCEPT ![s] = "run"]
    BY <1>4, <2>1, <2>2 DEF RegisterClaim
  <2>3. CASE /\ idx' = [idx EXCEPT ![s] = @ + 1]
             /\ pc' = [pc EXCEPT ![s] = "r_store"]
             /\ UNCHANGED strand_id
    BY <1>4, <2>1, <2>3 DEF RegisterClaim, Slots
  <2> QED
    BY <1>4, <2>2, <2>3 DEF RegisterClaim
<1>5. ASSUME NEW s \in Strands, RegisterOverflow(s)
      PROVE  TypeOK'
  BY <1>5 DEF RegisterOverflow
<1>6. ASSUME NEW s \in Strands, UnregisterCall(s)
      PROVE  TypeOK'
  BY <1>6 DEF UnregisterCall
<1>7. ASSUME NEW s \in Strands, UnregisterClear(s)
      PROVE  TypeOK'
  <2>1. CASE /\ strand_id' = [strand_id EXCEPT ![idx[s]] = Free] /\ through' = through \ {s}
             /\ pc' = [pc EXCEPT ![s] = "u_reset"] /\ UNCHANGED idx
    BY <1>7, <2>1 DEF UnregisterClear
  <2>2. CASE idx' = [idx EXCEPT ![s] = @ + 1] /\ UNCHANGED <<strand_id, pc, through>>
    BY <1>7, <2>2 DEF UnregisterClear, Slots
  <2> QED
    BY <1>7, <2>1, <2>2 DEF UnregisterClear
<1>8. ASSUME NEW s \in Strands, UnregisterReset(s)
      PROVE  TypeOK'
  <2>1. idx[s] \in Slots
    BY <1>8 DEF UnregisterReset, OwnInv
  <2> QED
    BY <1>8, <2>1 DEF UnregisterReset
<1>9. ASSUME NEW s \in Strands, UnregisterMiss(s)
      PROVE  TypeOK'
  BY <1>9 DEF UnregisterMiss
<1>10. ASSUME WatchBegin
      PROVE  TypeOK'
  BY <1>10 DEF WatchBegin
<1>11. ASSUME WatchLoadId
      PROVE  TypeOK'
  <2>1. CASE widx' = widx + 1 /\ UNCHANGED <<id, wpc>>
    BY <1>11, <2>1 DEF WatchLoadId, Slots
  <2>2. CASE id' = strand_id[widx] /\ wpc' = "load_time" /\ UNCHANGED widx
    BY <1>11, <2>2 DEF WatchLoadId
  <2> QED
    BY <1>11, <2>1, <2>2 DEF WatchLoadId
<1>12. ASSUME WatchLoadTime
      PROVE  TypeOK'
  <2>1. widx \in Slots /\ id \in Strands
    BY <1>12 DEF WatchLoadTime, ScanInv
  <2>2. spawn_time[widx] \in Times \cup {0}
    BY <2>1
  <2>3. RunningSecs(spawn_time[widx]) \in Nat
    <3>1. now \in Nat /\ spawn_time[widx] \in Nat
      BY <2>2, TimesNat
    <3> QED
      BY <3>1 DEF RunningSecs
  <2>4. worst' \in [strand : Strands \cup {Free}, secs : Nat]
    BY <1>12, <2>1, <2>3 DEF WatchLoadTime
  <2>5. scanned' \subseteq Strands \X (Times \cup {0})
    BY <1>12, <2>1, <2>2 DEF WatchLoadTime
  <2>6. widx' \in 1..(Capacity + 1)
    BY <1>12, <2>1 DEF WatchLoadTime, Slots
  <2> QED
    BY <1>12, <2>4, <2>5, <2>6 DEF WatchLoadTime
<1>13. ASSUME WatchEnd
      PROVE  TypeOK'
  <2>1. worst' \in [strand : Strands \cup {Free}, secs : Nat]
    BY <1>13 DEF WatchEnd, NoStrand
  <2>2. WATCHDOG_TRIGGERED_STRAND' \in Strands \cup {Free}
    BY <1>13 DEF WatchEnd
  <2>3. wpc' \in {"sleep", "exited"}
    BY <1>13 DEF WatchEnd
  <2> QED
    BY <1>13, <2>1, <2>2, <2>3 DEF WatchEnd
<1>14. ASSUME UNCHANGED vars
      PROVE  TypeOK'
  BY <1>14 DEF vars
<1> QED
  BY <1>1, <1>2, <1>3, <1>4, <1>5, <1>6, <1>7, <1>8, <1>9, <1>10, <1>11, <1>12, <1>13, <1>14
     DEF Next, Ended, StrandStep, Watch

(* The facts about types that the other parts need.                        *)
LEMMA Shapes ==
    ASSUME IInv
    PROVE  /\ strand_id \in [Slots -> Strands \cup {Free}] /\ Free \notin Strands
           /\ pc \in [Strands -> StrandLabels]
           /\ idx \in [Strands -> Slots \cup {Capacity + 1}]
           /\ \A i \in Slots : i \in Nat /\ i >= 1 /\ i <= Capacity
           /\ \A i \in Nat : i >= 1 /\ i <= Capacity => i \in Slots
           /\ Capacity \in Nat /\ Capacity + 1 \notin Slots
           /\ widx \in Slots \cup {Capacity + 1} /\ widx \in Nat
  BY RegistryConstants DEF IInv, TypeOK, Slots

LEMMA OwnStep ==
    ASSUME IInv, [Next]_vars
    PROVE  OwnInv'
<1> USE Shapes DEF OwnInv, StrandLabels, slots, strands, watchdog
<1>0. OwnInv
  BY DEF IInv
<1>1. ASSUME Tick
      PROVE  OwnInv'
  BY <1>0, <1>1 DEF Tick
<1>2. ASSUME NEW s \in Strands, RegisterCall(s)
      PROVE  OwnInv'
  BY <1>0, <1>2 DEF RegisterCall
<1>3. ASSUME NEW s \in Strands, RegisterStore(s)
      PROVE  OwnInv'
  BY <1>0, <1>3 DEF RegisterStore
<1>4. ASSUME NEW s \in Strands, RegisterClaim(s)
      PROVE  OwnInv'
  BY <1>0, <1>4 DEF RegisterClaim
<1>5. ASSUME NEW s \in Strands, RegisterOverflow(s)
      PROVE  OwnInv'
  BY <1>0, <1>5 DEF RegisterOverflow
<1>6. ASSUME NEW s \in Strands, UnregisterCall(s)
      PROVE  OwnInv'
  BY <1>0, <1>6 DEF UnregisterCall
<1>7. ASSUME NEW s \in Strands, UnregisterClear(s)
      PROVE  OwnInv'
  BY <1>0, <1>7 DEF UnregisterClear
<1>8. ASSUME NEW s \in Strands, UnregisterReset(s)
      PROVE  OwnInv'
  BY <1>0, <1>8 DEF UnregisterReset
<1>9. ASSUME NEW s \in Strands, UnregisterMiss(s)
      PROVE  OwnInv'
  BY <1>0, <1>9 DEF UnregisterMiss
<1>10. ASSUME WatchBegin
      PROVE  OwnInv'
  BY <1>0, <1>10 DEF WatchBegin
<1>11. ASSUME WatchLoadId
      PROVE  OwnInv'
  BY <1>0, <1>11 DEF WatchLoadId
<1>12. ASSUME WatchLoadTime
      PROVE  OwnInv'
  BY <1>0, <1>12 DEF WatchLoadTime
<1>13. ASSUME WatchEnd
      PROVE  OwnInv'
  BY <1>0, <1>13 DEF WatchEnd
<1>14. ASSUME UNCHANGED vars
      PROVE  OwnInv'
  BY <1>0, <1>14 DEF vars
<1> QED
  BY <1>1, <1>2, <1>3, <1>4, <1>5, <1>6, <1>7, <1>8, <1>9, <1>10, <1>11, <1>12, <1>13, <1>14
     DEF Next, Ended, StrandStep, Watch

LEMMA ScanStep ==
    ASSUME IInv, [Next]_vars
    PROVE  ScanInv'
<1> USE Shapes DEF ScanInv, Coming, StrandLabels, slots, strands, watchdog
<1>0. OwnInv /\ ScanInv
  BY DEF IInv
<1>1. ASSUME Tick
      PROVE  ScanInv'
  BY <1>0, <1>1 DEF Tick
<1>2. ASSUME NEW s \in Strands, RegisterCall(s)
      PROVE  ScanInv'
  BY <1>0, <1>2 DEF RegisterCall
<1>3. ASSUME NEW s \in Strands, RegisterStore(s)
      PROVE  ScanInv'
  BY <1>0, <1>3 DEF RegisterStore
<1>4. ASSUME NEW s \in Strands, RegisterClaim(s)
      PROVE  ScanInv'
  <2>1. pc[s] = "r_claim" /\ idx[s] \in Slots /\ UNCHANGED watchdog /\ UNCHANGED through
    BY <1>0, <1>4 DEF RegisterClaim, OwnInv
  <2>2. CASE /\ strand_id[idx[s]] = Free /\ strand_id' = [strand_id EXCEPT ![idx[s]] = s]
             /\ pc' = [pc EXCEPT ![s] = "run"]
    <3>1. s \notin through /\ \A i \in Slots : strand_id[i] # s
      BY <1>0, <2>1 DEF OwnInv
    <3>2. (\A p \in scanned : p[1] # s) /\ (wpc = "load_time" => id # s)
      BY <1>0, <2>1
    <3>3. \A p \in scanned : p[1] # Free
      BY DEF IInv, TypeOK
    <3>4. Free \notin through
      BY DEF IInv, TypeOK
    <3>5. \A i \in Slots :
              strand_id'[i] = strand_id[i] \/ (strand_id[i] = Free /\ strand_id'[i] = s)
      BY <2>1, <2>2
    <3>6. \A i \in Slots : strand_id[i] # Free => strand_id'[i] = strand_id[i]
      BY <2>1, <2>2
    <3> QED
      BY <1>0, <2>1, <2>2, <3>1, <3>2, <3>3, <3>4, <3>5, <3>6
  <2>3. CASE strand_id' = strand_id /\ pc' = [pc EXCEPT ![s] = "r_store"]
    BY <1>0, <2>1, <2>3
  <2> QED
    BY <1>4, <2>2, <2>3 DEF RegisterClaim
<1>5. ASSUME NEW s \in Strands, RegisterOverflow(s)
      PROVE  ScanInv'
  BY <1>0, <1>5 DEF RegisterOverflow
<1>6. ASSUME NEW s \in Strands, UnregisterCall(s)
      PROVE  ScanInv'
  BY <1>0, <1>6 DEF UnregisterCall
<1>7. ASSUME NEW s \in Strands, UnregisterClear(s)
      PROVE  ScanInv'
  <2>1. pc[s] = "u_clear" /\ idx[s] \in Slots /\ UNCHANGED watchdog
    BY <1>7 DEF UnregisterClear
  <2>2. CASE /\ strand_id[idx[s]] = s /\ strand_id' = [strand_id EXCEPT ![idx[s]] = Free]
             /\ pc' = [pc EXCEPT ![s] = "u_reset"] /\ through' = through \ {s}
    <3>1. \A i \in Slots : strand_id[i] = s => i = idx[s]
      BY <1>0, <2>1, <2>2 DEF OwnInv
    <3>2. \A p \in scanned : p[1] # Free
      BY DEF IInv, TypeOK
    <3>3. Free \notin through
      BY DEF IInv, TypeOK
    <3>4. \A i \in Slots : IF i = idx[s] THEN strand_id'[i] = Free
                           ELSE strand_id'[i] = strand_id[i]
      BY <2>1, <2>2
    <3>5. \A t \in Strands : pc'[t] \in Coming <=> pc[t] \in Coming
      BY <2>1, <2>2
    <3>6. \A p \in scanned : p[1] \in Strands
      BY DEF IInv, TypeOK
    <3>7. \A t \in through' : \E i \in Slots : strand_id'[i] = t
      BY <1>0, <2>1, <2>2, <3>1, <3>4
    <3>8. wpc' = "load_time" =>
             /\ widx' \in Slots /\ id' \in Strands /\ pc'[id'] \notin Coming
             /\ \A p \in scanned' : p[1] # id'
             /\ \A i \in Slots : strand_id'[i] = id' => i = widx'
             /\ strand_id'[widx'] \in through' => strand_id'[widx'] = id'
      BY <1>0, <2>1, <2>2, <3>3, <3>4, <3>5
    <3>9. /\ \A p \in scanned' : pc'[p[1]] \notin Coming
          /\ \A p \in scanned' : \A i \in Slots : strand_id'[i] = p[1] => i < widx'
          /\ \A p, q \in scanned' : p[1] = q[1] => p = q
      BY <1>0, <2>1, <3>2, <3>4, <3>5, <3>6
    <3>10. \A i \in Slots : strand_id'[i] \in through' /\ i < widx' =>
              \E p \in scanned' : p[1] = strand_id'[i]
      BY <1>0, <2>1, <2>2, <3>3, <3>4
    <3>11. wpc' \in {"off", "sleep", "exited"} => widx' = 1 /\ scanned' = {} /\ through' = {}
      BY <1>0, <2>1, <2>2
    <3> QED
      BY <3>7, <3>8, <3>9, <3>10, <3>11
  <2>3. CASE UNCHANGED <<strand_id, pc, through>>
    BY <1>0, <2>1, <2>3
  <2> QED
    BY <1>7, <2>2, <2>3 DEF UnregisterClear
<1>8. ASSUME NEW s \in Strands, UnregisterReset(s)
      PROVE  ScanInv'
  BY <1>0, <1>8 DEF UnregisterReset
<1>9. ASSUME NEW s \in Strands, UnregisterMiss(s)
      PROVE  ScanInv'
  BY <1>0, <1>9 DEF UnregisterMiss
<1>10. ASSUME WatchBegin
      PROVE  ScanInv'
  BY <1>0, <1>10 DEF WatchBegin
<1>11. ASSUME WatchLoadId
      PROVE  ScanInv'
  <2>1. wpc = "load_id" /\ widx \in Slots /\ UNCHANGED <<strand_id, pc, scanned, through>>
    BY <1>11 DEF WatchLoadId
  <2>2. Free \notin through
    BY DEF IInv, TypeOK
  <2>3. CASE strand_id[widx] = Free /\ widx' = widx + 1 /\ UNCHANGED <<id, wpc>>
    <3>1. \A i \in Slots : i < widx' => i < widx \/ i = widx
      BY <2>3
    <3>2. \A i \in Slots : i < widx => i < widx'
      BY <2>3
    <3> QED
      BY <1>0, <2>1, <2>2, <2>3, <3>1, <3>2
  <2>4. CASE /\ strand_id[widx] # Free /\ id' = strand_id[widx]
             /\ wpc' = "load_time" /\ UNCHANGED widx
    <3>1. /\ id' \in Strands /\ pc[id'] \notin Coming
          /\ \A i \in Slots : strand_id[i] = id' => i = widx
      BY <1>0, <2>1, <2>4 DEF OwnInv
    <3>2. \A p \in scanned : p[1] # id'
      BY <1>0, <2>1, <2>4
    <3> QED
      BY <1>0, <2>1, <2>4, <3>1, <3>2
  <2> QED
    BY <1>11, <2>3, <2>4 DEF WatchLoadId
<1>12. ASSUME WatchLoadTime
      PROVE  ScanInv'
  <2>1. /\ wpc = "load_time" /\ wpc' = "load_id" /\ widx' = widx + 1
        /\ UNCHANGED <<strand_id, pc, through>>
    BY <1>12 DEF WatchLoadTime
  <2>2. PICK r : r = <<id, spawn_time[widx]>>
    OBVIOUS
  <2>3. r[1] = id /\ scanned' = scanned \cup {r}
    BY <1>12, <2>2 DEF WatchLoadTime
  <2>4. \A i \in Slots : i < widx' <=> i < widx \/ i = widx
    BY <2>1
  <2>5. \A p \in scanned' : pc[p[1]] \notin Coming
    BY <1>0, <2>1, <2>3
  <2>6. \A p \in scanned' : \A i \in Slots : strand_id[i] = p[1] => i < widx'
    BY <1>0, <2>1, <2>3, <2>4
  <2>7. \A p, q \in scanned' : p[1] = q[1] => p = q
    BY <1>0, <2>1, <2>3
  <2>8. \A i \in Slots : strand_id[i] \in through /\ i < widx' =>
           \E p \in scanned' : p[1] = strand_id[i]
    BY <1>0, <2>1, <2>3, <2>4
  <2> QED
    BY <1>0, <2>1, <2>5, <2>6, <2>7, <2>8
<1>13. ASSUME WatchEnd
      PROVE  ScanInv'
  BY <1>0, <1>13 DEF WatchEnd
<1>14. ASSUME UNCHANGED vars
      PROVE  ScanInv'
  BY <1>0, <1>14 DEF vars
<1> QED
  BY <1>1, <1>2, <1>3, <1>4, <1>5, <1>6, <1>7, <1>8, <1>9, <1>10, <1>11, <1>12, <1>13, <1>14
     DEF Next, Ended, StrandStep, Watch

-----------------------------------------------------------------------------
(* The finding of a scan.                                                  *)
LEMMA SecsType ==
    ASSUME IInv
    PROVE  /\ \A p \in scanned : RunningSecs(p[2]) \in Nat
           /\ \A i \in Slots : RunningSecs(spawn_time[i]) \in Nat
           /\ config.threshold \in Nat
<1> USE TimesNat DEF IInv, TypeOK
<1>1. now \in Nat
  OBVIOUS
<1>2. \A t \in Nat : RunningSecs(t) \in Nat
  BY <1>1 DEF RunningSecs
<1>3. \A p \in scanned : p[2] \in Times \cup {0}
  OBVIOUS
<1>4. \A p \in scanned : p[2] \in Nat
  BY <1>3
<1>5. \A i \in Slots : spawn_time[i] \in Nat
  OBVIOUS
<1>6. config.threshold \in Nat
  BY RegistryConstants DEF Configs
<1> QED
  BY <1>2, <1>4, <1>5, <1>6

LEMMA WorstStep ==
    ASSUME IInv, [Next]_vars
    PROVE  WorstInv'
<1>0. WorstInv /\ ScanInv
  BY DEF IInv
<1>1. ASSUME UNCHANGED <<config, now, worst, scanned>>
      PROVE  WorstInv'
  BY <1>0, <1>1 DEF WorstInv, Stuck, RunningSecs
<1>2. CASE WatchBegin
  <2>1. scanned = {} /\ UNCHANGED <<worst, scanned>>
    BY <1>0, <1>2 DEF WatchBegin, ScanInv
  <2> QED
    BY <1>0, <2>1 DEF WorstInv
<1>3. CASE WatchEnd
  BY <1>3 DEF WatchEnd, WorstInv
<1>4. CASE WatchLoadTime
  <2> DEFINE t == spawn_time[widx]
             secs == RunningSecs(t)
             r == <<id, t>>
  <2>1. widx \in Slots
    BY <1>0, <1>4 DEF WatchLoadTime, ScanInv
  <2>2. /\ secs \in Nat /\ config.threshold \in Nat
        /\ \A p \in scanned : RunningSecs(p[2]) \in Nat
    BY <2>1, SecsType
  <2>3. /\ scanned' = scanned \cup {r} /\ UNCHANGED <<config, now>>
        /\ worst' = IF Worse(t) THEN [strand |-> id, secs |-> secs] ELSE worst
    BY <1>4 DEF WatchLoadTime
  <2>4. Stuck(r) <=> t # 0 /\ secs > config.threshold
    BY DEF Stuck
  <2>5. Worse(t) <=> Stuck(r) /\ (worst = NoStrand \/ secs > worst.secs)
    BY <2>4 DEF Worse
  <2>6. r[1] = id /\ RunningSecs(r[2]) = secs
    OBVIOUS
  <2>7. \A p : (Stuck(p)' <=> Stuck(p)) /\ RunningSecs(p[2])' = RunningSecs(p[2])
    BY <2>3 DEF Stuck, RunningSecs
  <2> HIDE DEF r, secs, t
  <2>8. ASSUME NEW p \in scanned, Stuck(p),
               worst = [strand |-> p[1], secs |-> RunningSecs(p[2])]
        PROVE  worst # NoStrand /\ worst.secs = RunningSecs(p[2]) /\ worst.secs \in Nat
    BY <2>2, <2>8 DEF Stuck, NoStrand
  <2>9. CASE Worse(t)
    <3>1. /\ Stuck(r) /\ worst' = [strand |-> r[1], secs |-> RunningSecs(r[2])]
          /\ worst'.secs = secs
      BY <2>3, <2>5, <2>6, <2>9
    <3>2. \A q \in scanned' : Stuck(q) => RunningSecs(q[2]) <= secs
      <4>1. CASE \A p \in scanned : ~Stuck(p)
        BY <2>2, <2>3, <2>6, <4>1
      <4>2. CASE \E p \in scanned :
                    /\ Stuck(p) /\ worst = [strand |-> p[1], secs |-> RunningSecs(p[2])]
                    /\ \A q \in scanned : Stuck(q) => RunningSecs(q[2]) <= worst.secs
        <5>1. worst.secs \in Nat /\ secs > worst.secs
          BY <2>5, <2>8, <2>9, <4>2
        <5> QED
          BY <2>2, <2>3, <2>6, <4>2, <5>1
      <4> QED
        BY <1>0, <4>1, <4>2 DEF WorstInv
    <3>3. r \in scanned'
      BY <2>3
    <3>4. PICK p \in scanned' : p = r
      BY <3>3
    <3>5. /\ Stuck(p)' /\ worst' = [strand |-> p[1], secs |-> RunningSecs(p[2])']
          /\ \A q \in scanned' : Stuck(q)' => RunningSecs(q[2])' <= worst'.secs
      BY <2>7, <3>1, <3>2, <3>4
    <3> QED
      BY <3>5 DEF WorstInv
  <2>10. CASE ~Worse(t)
    <3>1. worst' = worst
      BY <2>3, <2>10
    <3>2. CASE worst = NoStrand /\ \A p \in scanned : ~Stuck(p)
      <4>1. ~Stuck(r)
        BY <2>5, <2>10, <3>2
      <4>2. \A p \in scanned' : ~Stuck(p)'
        BY <2>3, <2>7, <3>2, <4>1
      <4> QED
        BY <3>1, <3>2, <4>2 DEF WorstInv
    <3>3. ASSUME NEW p \in scanned, Stuck(p),
                 worst = [strand |-> p[1], secs |-> RunningSecs(p[2])],
                 \A q \in scanned : Stuck(q) => RunningSecs(q[2]) <= worst.secs
          PROVE  WorstInv'
      <4>1. worst # NoStrand /\ worst.secs \in Nat
        BY <2>8, <3>3
      <4>2. Stuck(r) => secs <= worst.secs
        BY <2>2, <2>5, <2>10, <4>1
      <4>3. \A q \in scanned' : Stuck(q) => RunningSecs(q[2]) <= worst.secs
        BY <2>3, <2>6, <3>3, <4>2
      <4>4. /\ p \in scanned' /\ Stuck(p)'
            /\ worst' = [strand |-> p[1], secs |-> RunningSecs(p[2])']
            /\ \A q \in scanned' : Stuck(q)' => RunningSecs(q[2])' <= worst'.secs
        BY <2>3, <2>7, <3>1, <3>3, <4>3
      <4> QED
        BY <4>4 DEF WorstInv
    <3> QED
      BY <1>0, <3>2, <3>3 DEF WorstInv
  <2> QED
    BY <2>9, <2>10
<1>5. CASE Tick \/ WatchLoadId \/ (\E s \in Strands : StrandStep(s)) \/ UNCHANGED vars
  <2>1. UNCHANGED <<config, now, worst, scanned>>
    BY <1>5 DEF Tick, WatchLoadId, StrandStep, RegisterCall, RegisterStore,
       RegisterClaim, RegisterOverflow, UnregisterCall, UnregisterClear,
       UnregisterReset, UnregisterMiss, watchdog, vars
  <2> QED
    BY <1>1, <2>1
<1> QED
  BY <1>2, <1>3, <1>4, <1>5 DEF Next, Ended, Watch

-----------------------------------------------------------------------------
(* The strands that run without a slot were counted when they overflowed.  *)
LEMMA OverflowStep ==
    ASSUME IInv, [Next]_vars
    PROVE  OverflowInv'
<1> USE Shapes DEF Untracked, StrandLabels
<1>0. /\ OwnInv /\ overflow_count \in Nat
      /\ IsFiniteSet(Untracked) /\ Cardinality(Untracked) \in Nat
      /\ Cardinality(Untracked) <= overflow_count
  BY FS_CardinalityType DEF IInv, OverflowInv, TypeOK
<1>1. ASSUME Untracked' \subseteq Untracked, UNCHANGED overflow_count
      PROVE  OverflowInv'
  <2>1. IsFiniteSet(Untracked') /\ Cardinality(Untracked') <= Cardinality(Untracked)
    BY <1>0, <1>1, FS_Subset
  <2>2. Cardinality(Untracked') \in Nat
    BY <2>1, FS_CardinalityType
  <2> HIDE DEF Untracked
  <2> QED
    BY <1>0, <1>1, <2>1, <2>2 DEF OverflowInv
<1>2. ASSUME NEW s \in Strands, RegisterOverflow(s)
      PROVE  OverflowInv'
  <2>1. /\ overflow_count' = overflow_count + 1
        /\ Untracked' = Untracked \cup {s} /\ s \notin Untracked
    <3>1. /\ pc[s] = "r_store" /\ pc' = [pc EXCEPT ![s] = "run"]
          /\ overflow_count' = overflow_count + 1 /\ strand_id' = strand_id
      BY <1>2 DEF RegisterOverflow
    <3>2. \A i \in Slots : strand_id[i] # s
      BY <1>0, <3>1 DEF OwnInv
    <3> QED
      BY <3>1, <3>2
  <2> HIDE DEF Untracked
  <2>2. /\ IsFiniteSet(Untracked \cup {s})
        /\ Cardinality(Untracked \cup {s}) = Cardinality(Untracked) + 1
    BY <1>0, <2>1, FS_AddElement
  <2>3. IsFiniteSet(Untracked') /\ Cardinality(Untracked') <= overflow_count'
    BY <1>0, <2>1, <2>2
  <2> QED
    BY <2>3 DEF OverflowInv
<1>3. ASSUME NEW s \in Strands, RegisterClaim(s)
      PROVE  OverflowInv'
  <2>1. pc[s] = "r_claim" /\ idx[s] \in Slots /\ UNCHANGED overflow_count
    BY <1>0, <1>3 DEF RegisterClaim, OwnInv
  <2>2. CASE /\ strand_id[idx[s]] = Free /\ strand_id' = [strand_id EXCEPT ![idx[s]] = s]
             /\ pc' = [pc EXCEPT ![s] = "run"]
    <3>1. /\ strand_id'[idx[s]] = s
          /\ \A i \in Slots : strand_id[i] # Free => strand_id'[i] = strand_id[i]
      BY <2>1, <2>2
    <3>2. ASSUME NEW t \in Untracked' PROVE t \in Untracked
      <4>1. t # s
        BY <2>1, <3>1, <3>2
      <4> QED
        BY <2>2, <3>1, <3>2, <4>1
    <3> QED
      BY <1>1, <2>1, <3>2
  <2>3. CASE strand_id' = strand_id /\ pc' = [pc EXCEPT ![s] = "r_store"]
    <3>1. Untracked' \subseteq Untracked
      BY <2>1, <2>3
    <3> QED
      BY <1>1, <2>1, <3>1
  <2> QED
    BY <1>3, <2>2, <2>3 DEF RegisterClaim
<1>4. ASSUME NEW s \in Strands, UnregisterClear(s)
      PROVE  OverflowInv'
  <2>1. pc[s] = "u_clear" /\ idx[s] \in Slots /\ UNCHANGED overflow_count
    BY <1>4 DEF UnregisterClear
  <2>2. CASE /\ strand_id[idx[s]] = s /\ strand_id' = [strand_id EXCEPT ![idx[s]] = Free]
             /\ pc' = [pc EXCEPT ![s] = "u_reset"]
    <3>1. \A i \in Slots : strand_id[i] # s => strand_id'[i] = strand_id[i]
      BY <2>1, <2>2
    <3>2. ASSUME NEW t \in Untracked' PROVE t \in Untracked
      <4>1. t # s
        BY <2>1, <2>2, <3>2
      <4> QED
        BY <2>2, <3>1, <3>2, <4>1
    <3> QED
      BY <1>1, <2>1, <3>2
  <2>3. CASE UNCHANGED <<strand_id, pc>>
    BY <1>1, <2>1, <2>3
  <2> QED
    BY <1>4, <2>2, <2>3 DEF UnregisterClear
<1>5. ASSUME NEW s \in Strands, \/ RegisterCall(s) \/ RegisterStore(s) \/ UnregisterCall(s)
                                \/ UnregisterReset(s) \/ UnregisterMiss(s)
      PROVE  OverflowInv'
  <2>1. /\ UNCHANGED <<strand_id, overflow_count>>
        /\ \E l \in StrandLabels \ {"run"} : pc' = [pc EXCEPT ![s] = l]
    BY <1>5 DEF RegisterCall, RegisterStore, UnregisterCall, UnregisterReset,
       UnregisterMiss, slots
  <2>2. Untracked' \subseteq Untracked
    BY <2>1
  <2> QED
    BY <1>1, <2>1, <2>2
<1>6. CASE Tick \/ Watch \/ UNCHANGED vars
  <2>1. UNCHANGED <<strand_id, overflow_count, pc>>
    BY <1>6 DEF Tick, Watch, WatchBegin, WatchLoadId, WatchLoadTime, WatchEnd,
       slots, strands, vars
  <2> QED
    BY <1>1, <2>1
<1> QED
  BY <1>2, <1>3, <1>4, <1>5, <1>6 DEF Next, Ended, StrandStep

LEMMA InitInv == Init => IInv
<1> SUFFICES ASSUME Init PROVE IInv
  OBVIOUS
<1> USE RegistryConstants DEF Init
<1>1. TypeOK
  <2>1. worst \in [strand : Strands \cup {Free}, secs : Nat]
    BY DEF NoStrand
  <2>2. widx \in 1..(Capacity + 1)
    OBVIOUS
  <2>3. idx \in [Strands -> 1..(Capacity + 1)] /\ pc \in [Strands -> StrandLabels]
    BY DEF StrandLabels
  <2> QED
    BY <2>1, <2>2, <2>3 DEF TypeOK
<1>2. OwnInv
  BY DEF OwnInv
<1>3. OverflowInv
  <2>1. Untracked = {}
    BY DEF Untracked
  <2> QED
    BY <2>1, FS_EmptySet DEF OverflowInv
<1>4. ScanInv
  BY DEF ScanInv
<1>5. WorstInv
  BY DEF WorstInv
<1> QED
  BY <1>1, <1>2, <1>3, <1>4, <1>5 DEF IInv

LEMMA InvariantStep == IInv /\ [Next]_vars => IInv'
  BY TypeStep, OwnStep, OverflowStep, ScanStep, WorstStep DEF IInv

(* Every reachable state of the registry and its watchdog satisfies the    *)
(* inductive invariant.                                                    *)
THEOREM Invariance == Spec => []IInv
  BY InitInv, InvariantStep, PTL DEF Spec

LEMMA OwnedFollows == IInv => SlotsOwned
<1> SUFFICES ASSUME IInv PROVE SlotsOwned
  OBVIOUS
<1> USE Shapes
<1>0. OwnInv /\ TypeOK
  BY DEF IInv
<1>1. ASSUME NEW s \in Strands PROVE Cardinality(SlotsOf(s)) <= 1
  <2>1. CASE SlotsOf(s) = {}
    BY <2>1, FS_EmptySet
  <2>2. ASSUME NEW i \in SlotsOf(s) PROVE Cardinality(SlotsOf(s)) <= 1
    <3>1. SlotsOf(s) = {i}
      BY <1>0, <2>2 DEF SlotsOf, OwnInv
    <3>2. Cardinality(SlotsOf(s)) = 1
      BY <3>1, FS_Singleton, Zenon
    <3> QED
      BY <3>2
  <2> QED
    BY <2>1, <2>2
<1>2. \A s \in Tracked : pc[s] \in {"run", "u_clear"}
  BY <1>0 DEF OwnInv, Tracked, SlotsOf
<1>3. {s \in Strands : pc[s] = "run"} \ Tracked = Untracked
  BY DEF Untracked, Tracked, SlotsOf
<1>4. EntriesOwned
  BY <1>1, <1>2, <1>3 DEF IInv, OverflowInv, EntriesOwned
<1>5. UnregisterFinds
  BY <1>0 DEF OwnInv, UnregisterFinds, Tracked, SlotsOf
<1> QED
  BY <1>0, <1>4, <1>5 DEF SlotsOwned

(* However registrars, strands that end and scans interleave, a slot has   *)
(* one owner and an owner one slot, unregister does not walk past it, and  *)
(* a strand without a slot was counted as an overflow.                     *)
THEOREM OneOwner == Spec => []SlotsOwned
  BY OwnedFollows, Invariance, PTL

LEMMA ScanFollows == IInv => ScanTrue
<1> SUFFICES ASSUME IInv PROVE ScanTrue
  OBVIOUS
<1> USE Shapes
<1>0. ScanInv /\ WorstInv /\ TypeOK
  BY DEF IInv
<1>1. ASSUME wpc = "load_id", widx \notin Slots, NEW s \in through
      PROVE  s \in {p[1] : p \in scanned}
  <2>1. PICK i \in Slots : strand_id[i] = s
    BY <1>0 DEF ScanInv
  <2>2. i < widx
    BY <1>1
  <2>3. PICK p \in scanned : p[1] = s
    BY <1>0, <2>1, <2>2 DEF ScanInv
  <2> QED
    BY <2>3
<1>2. \A p, q \in scanned : p[1] = q[1] => p = q
  BY <1>0 DEF ScanInv
<1>3. SnapshotComplete
  BY <1>1, <1>2, Zenon DEF SnapshotComplete
<1> DEFINE stuck == {p \in scanned : p[2] # 0 /\ RunningSecs(p[2]) > config.threshold}
<1>4. \A p : p \in stuck <=> p \in scanned /\ Stuck(p)
  BY DEF Stuck
<1>5. IF stuck = {} THEN worst = NoStrand
      ELSE \E p \in stuck :
              /\ worst = [strand |-> p[1], secs |-> RunningSecs(p[2])]
              /\ \A q \in stuck : RunningSecs(q[2]) <= worst.secs
  <2> HIDE DEF stuck
  <2> QED
    BY <1>0, <1>4, Zenon DEF WorstInv
<1>6. LongestReported
  BY <1>5, Zenon DEF LongestReported
<1> QED
  BY <1>3, <1>6 DEF ScanTrue

(* A scan that races register and unregister lists every strand that is    *)
(* registered throughout, none twice, and the watchdog reports the         *)
(* longest-running stuck strand among them.                                *)
THEOREM ScansTrue == Spec => []ScanTrue
  BY ScanFollows, Invariance, PTL

-----------------------------------------------------------------------------
(* A set of natural numbers has a least member: the induction over slots.  *)
LEMMA LeastOf ==
    ASSUME NEW S \in SUBSET Nat, S # {}
    PROVE  \E m \in S : \A i \in S : m <= i
<1>1. \E m \in S : \A i \in S : ~(<<i, m>> \in OpToRel(<, Nat))
  BY NatLessThanWellFounded, WFMin
<1>2. \A i, m \in Nat : i < m => <<i, m>> \in OpToRel(<, Nat)
  BY DEF OpToRel
<1>3. PICK m \in S : \A i \in S : ~(<<i, m>> \in OpToRel(<, Nat))
  BY <1>1
<1>4. \A i \in S : ~(i < m)
  BY <1>2, <1>3
<1> QED
  BY <1>4

Counts == [Memory!Slots -> Nat]

(* g is the sequence of the sums of f up to n.                             *)
SumsUpTo(g, f, n) == g = [k \in 0..n |-> IF k = 0 THEN 0 ELSE g[k - 1] + f[k]]

LEMMA SumsExist ==
    ASSUME MAX_THREADS \in Nat, NEW f \in Counts, NEW n \in 0..MAX_THREADS
    PROVE  \E g : SumsUpTo(g, f, n)
<1> DEFINE Bad == {m \in 0..MAX_THREADS : ~\E g : SumsUpTo(g, f, m)}
<1> SUFFICES Bad = {}
  OBVIOUS
<1> SUFFICES ASSUME Bad # {} PROVE FALSE
  OBVIOUS
<1>1. PICK m \in Bad : \A i \in Bad : m <= i
  <2>1. Bad \in SUBSET Nat
    OBVIOUS
  <2> HIDE DEF Bad
  <2> QED
    BY <2>1, LeastOf
<1>2. CASE m = 0
  <2> DEFINE g == [k \in 0..0 |-> 0]
  <2>1. g = [k \in 0..0 |-> IF k = 0 THEN 0 ELSE g[k - 1] + f[k]]
    OBVIOUS
  <2>2. SumsUpTo(g, f, 0)
    BY <2>1 DEF SumsUpTo
  <2> QED
    BY <1>1, <1>2, <2>2
<1>3. CASE m > 0
  <2>1. m - 1 \in 0..MAX_THREADS /\ m - 1 \notin Bad
    BY <1>1, <1>3
  <2>2. PICK g : SumsUpTo(g, f, m - 1)
    BY <2>1
  <2> DEFINE h == [k \in 0..m |-> IF k = m THEN g[m - 1] + f[m] ELSE g[k]]
  <2>3. \A k \in 0..(m - 1) : g[k] = IF k = 0 THEN 0 ELSE g[k - 1] + f[k]
    BY <2>2 DEF SumsUpTo
  <2>4. \A k \in 0..m : h[k] = IF k = 0 THEN 0 ELSE h[k - 1] + f[k]
    BY <1>1, <1>3, <2>3
  <2>5. h = [k \in 0..m |-> IF k = 0 THEN 0 ELSE h[k - 1] + f[k]]
    <3>1. h = [k \in 0..m |-> h[k]]
      OBVIOUS
    <3> HIDE DEF h
    <3> QED
      BY <2>4, <3>1
  <2>6. SumsUpTo(h, f, m)
    BY <2>5 DEF SumsUpTo
  <2> QED
    BY <1>1, <2>6
<1> QED
  BY <1>1, <1>2, <1>3

LEMMA SumsStep ==
    ASSUME MAX_THREADS \in Nat, NEW f \in Counts
    PROVE  /\ Memory!Sums(f)[0] = 0
           /\ \A n \in 1..MAX_THREADS : Memory!Sums(f)[n] = Memory!Sums(f)[n - 1] + f[n]
<1> DEFINE g == Memory!Sums(f)
<1>1. \E h : SumsUpTo(h, f, MAX_THREADS)
  BY SumsExist
<1>2. SumsUpTo(g, f, MAX_THREADS)
  BY <1>1 DEF Memory!Sums, SumsUpTo
<1> HIDE DEF g
<1>3. \A n \in 0..MAX_THREADS : g[n] = IF n = 0 THEN 0 ELSE g[n - 1] + f[n]
  BY <1>2 DEF SumsUpTo
<1>4. g[0] = 0 /\ \A n \in 1..MAX_THREADS : g[n] = g[n - 1] + f[n]
  BY <1>3
<1> QED
  BY <1>4 DEF g

(* A larger count at any slot makes no sum smaller.                        *)
LEMMA SumsMonotone ==
    ASSUME MAX_THREADS \in Nat, NEW f \in Counts, NEW h \in Counts,
           \A i \in Memory!Slots : f[i] <= h[i], NEW n \in 0..MAX_THREADS
    PROVE  /\ Memory!Sums(f)[n] \in Nat /\ Memory!Sums(h)[n] \in Nat
           /\ Memory!Sums(f)[n] <= Memory!Sums(h)[n]
<1> DEFINE F == Memory!Sums(f)
           H == Memory!Sums(h)
           Bad == {m \in 0..MAX_THREADS : ~(F[m] \in Nat /\ H[m] \in Nat /\ F[m] <= H[m])}
<1>1. /\ F[0] = 0 /\ \A m \in 1..MAX_THREADS : F[m] = F[m - 1] + f[m]
      /\ H[0] = 0 /\ \A m \in 1..MAX_THREADS : H[m] = H[m - 1] + h[m]
  BY SumsStep
<1>2. \A m \in 1..MAX_THREADS : f[m] \in Nat /\ h[m] \in Nat /\ f[m] <= h[m]
  BY DEF Counts, Memory!Slots
<1> HIDE DEF F, H
<1> SUFFICES ASSUME Bad # {} PROVE FALSE
  BY DEF F, H
<1>3. PICK m \in Bad : \A i \in Bad : m <= i
  <2>1. Bad \in SUBSET Nat
    OBVIOUS
  <2> HIDE DEF Bad
  <2> QED
    BY <2>1, LeastOf
<1>4. m > 0
  BY <1>1, <1>3
<1>5. m - 1 \in 0..MAX_THREADS /\ m - 1 \notin Bad /\ m \in 1..MAX_THREADS
  BY <1>3, <1>4
<1> QED
  BY <1>1, <1>2, <1>3, <1>5

LEMMA MaxOfTwo ==
    ASSUME NEW a \in Nat, NEW b \in Nat
    PROVE  Memory!Max({a, b}) = IF a >= b THEN a ELSE b
<1> DEFINE m == IF a >= b THEN a ELSE b
<1>1. m \in {a, b} /\ \A y \in {a, b} : m >= y
  OBVIOUS
<1>2. \A x \in {a, b} : (\A y \in {a, b} : x >= y) => x = m
  OBVIOUS
<1> QED
  BY <1>1, <1>2 DEF Memory!Max

-----------------------------------------------------------------------------
(***************************************************************************)
(* The memory statistics.  ThreadInv follows a thread from its first use   *)
(* of an arena: the slots it has passed were taken, the one it has is its  *)
(* alone, and between its stores the slot lags behind as far as its label  *)
(* tells.  ReaderInv bounds what an aggregation in progress has added up   *)
(* by what was there when it began and by what is there now.               *)
(***************************************************************************)
MemoryLabels == {"new", "claim", "use", "store", "max", "check", "store0"}
Readers == [at : 0..(MAX_THREADS + 2), load : {"id", "bytes", "peak"}, active : Nat, bytes : Nat,
            peak : Nat, overflow : Nat, claimed : SUBSET Memory!Slots, marks : Counts]

MemoryTypes ==
    /\ thread_id \in [Memory!Slots -> Strands \cup {Free}]
    /\ arena_bytes \in Counts /\ peak_arena_bytes \in Counts /\ refused \in Nat
    /\ mpc \in [Strands -> MemoryLabels]
    /\ slot \in [Strands -> 0..(MAX_THREADS + 1)]
    /\ allocated \in [Strands -> Nat] /\ highest \in [Strands -> Nat]
    /\ reader \in Readers

(* The slots t has passed or owns.                                         *)
PlaceInv(t) ==
    /\ \A i \in Memory!Slots : thread_id[i] = t => mpc[t] \notin {"new", "claim"} /\ slot[t] = i
    /\ mpc[t] = "new" => slot[t] = 0
    /\ mpc[t] = "claim" => /\ slot[t] >= 1
                           /\ \A i \in Memory!Slots : i < slot[t] => thread_id[i] # Free
    /\ mpc[t] \notin {"new", "claim"} =>
         \/ slot[t] \in Memory!Slots /\ thread_id[slot[t]] = t
         \/ /\ slot[t] = 0 /\ mpc[t] \in {"use", "check"}
            /\ \A i \in Memory!Slots : thread_id[i] # Free

(* What t has allocated, and what its slot tells of it.                    *)
ValueInv(t) ==
    /\ mpc[t] \in {"new", "claim"} => allocated[t] = 0 /\ highest[t] = 0
    /\ mpc[t] = "store0" => allocated[t] = 0
    /\ mpc[t] = "use" => allocated[t] <= ARENA_RESET_THRESHOLD
    /\ allocated[t] <= ARENA_RESET_THRESHOLD + MaxUse
    /\ mpc[t] \notin {"new", "claim"} /\ slot[t] # 0 =>
         /\ mpc[t] \in {"use", "max", "check"} => arena_bytes[slot[t]] = allocated[t]
         /\ mpc[t] \in {"use", "check", "store0"} => peak_arena_bytes[slot[t]] = highest[t]
         /\ mpc[t] \in {"store", "max"} =>
              highest[t] = IF peak_arena_bytes[slot[t]] >= allocated[t]
                           THEN peak_arena_bytes[slot[t]] ELSE allocated[t]

ThreadInv == \A t \in Strands : PlaceInv(t) /\ ValueInv(t)
UnusedInv == \A i \in Memory!Slots :
    thread_id[i] = Free => arena_bytes[i] = 0 /\ peak_arena_bytes[i] = 0
RefusedInv == IsFiniteSet(Memory!Refused) /\ refused = Cardinality(Memory!Refused)

(* The slots an aggregation has passed, and whether it has counted the one *)
(* it is at.                                                               *)
Passed == IF reader.at = 0 THEN 0 ELSE IF reader.at <= MAX_THREADS THEN reader.at - 1 ELSE MAX_THREADS
Counting == IF reader.load = "id" THEN 0 ELSE 1

ReaderInv ==
    /\ reader.load # "id" => reader.at \in Memory!Slots /\ thread_id[reader.at] # Free
    /\ \A i \in reader.claimed : thread_id[i] # Free
    /\ \A i \in Memory!Slots : reader.marks[i] <= peak_arena_bytes[i]
    /\ Cardinality(reader.claimed \cap (1..Passed)) + Counting <= reader.active
    /\ reader.active <= Cardinality(Memory!Claimed \cap (1..Passed)) + Counting
    /\ Memory!Sums(reader.marks)[Passed] <= reader.peak
    /\ reader.peak <= Memory!Sums(peak_arena_bytes)[Passed]
    /\ reader.overflow <= refused

MemoryInv == MemoryTypes /\ ThreadInv /\ UnusedInv /\ RefusedInv /\ ReaderInv

ThreadStep(t) ==
    \/ Memory!FirstUse(t) \/ Memory!ClaimSlot(t) \/ Memory!RegistryFull(t)
    \/ \E n \in 0..MaxUse : Memory!WithArena(t, n)
    \/ Memory!StoreBytes(t) \/ Memory!AtomicMax(t) \/ Memory!ShouldReset(t) \/ Memory!StrandExit(t)

ReaderStep ==
    \/ Memory!BeginAggregate \/ Memory!LoadId \/ Memory!LoadBytes \/ Memory!LoadPeak
    \/ Memory!LoadOverflow

LEMMA MemoryConstants ==
    /\ Free \notin Strands /\ IsFiniteSet(Strands)
    /\ MAX_THREADS \in Nat /\ ARENA_RESET_THRESHOLD \in Nat /\ MaxUse \in Nat /\ MaxOps \in Nat
  BY MemoryAssumption DEF Memory!MemoryAssumptions, Memory!IsFiniteSet, IsFiniteSet

(* What a step of thread t leaves alone: the other threads, the slots that *)
(* are not its own, and the marks but to raise them.                       *)
ByThread(t) ==
    /\ reader' = reader /\ refused <= refused'
    /\ \A u \in Strands \ {t} : /\ mpc'[u] = mpc[u] /\ slot'[u] = slot[u]
                               /\ allocated'[u] = allocated[u] /\ highest'[u] = highest[u]
    /\ \A i \in Memory!Slots :
         /\ thread_id'[i] = thread_id[i] \/ (thread_id[i] = Free /\ thread_id'[i] = t)
         /\ thread_id[i] # t => arena_bytes'[i] = arena_bytes[i]
                                /\ peak_arena_bytes'[i] = peak_arena_bytes[i]
         /\ peak_arena_bytes[i] <= peak_arena_bytes'[i]

(* Every step of a thread keeps the types, leaves the others alone and     *)
(* keeps what is known of the thread itself.                               *)
LEMMA ThreadStepHolds ==
    ASSUME MemoryTypes, ThreadInv, UnusedInv, NEW t \in Strands, ThreadStep(t)
    PROVE  MemoryTypes' /\ ByThread(t) /\ PlaceInv(t)' /\ ValueInv(t)'
<1> USE MemoryConstants DEF Memory!Slots, MemoryLabels, Counts
<1>0. PlaceInv(t) /\ ValueInv(t)
  BY DEF ThreadInv
<1>1. CASE Memory!FirstUse(t)
  <2> USE <1>1 DEF Memory!FirstUse, Memory!registry, Memory!Go
  <2>1. MemoryTypes' /\ ByThread(t)
    BY SMTT(60) DEF MemoryTypes, ByThread
  <2>2. PlaceInv(t)' /\ ValueInv(t)'
    BY <1>0 DEF MemoryTypes, PlaceInv, ValueInv
  <2> QED
    BY <2>1, <2>2
<1>2. CASE Memory!ClaimSlot(t)
  <2> USE <1>2 DEF Memory!ClaimSlot, Memory!Go
  <2>1. CASE thread_id[slot[t]] = Free
    <3> USE <2>1
    <3>1. MemoryTypes'
      <4>1. thread_id' \in [Memory!Slots -> Strands \cup {Free}]
        BY ZenonT(60) DEF MemoryTypes
      <4>2. mpc' \in [Strands -> MemoryLabels]
        BY DEF MemoryTypes
      <4> QED
        BY <4>1, <4>2 DEF MemoryTypes
    <3>2. ByThread(t)
      BY SMTT(60) DEF MemoryTypes, ByThread
    <3>3. PlaceInv(t)'
      BY <1>0 DEF MemoryTypes, PlaceInv
    <3>4. ValueInv(t)'
      BY <1>0 DEF MemoryTypes, ValueInv, UnusedInv
    <3> QED
      BY <3>1, <3>2, <3>3, <3>4
  <2>2. CASE thread_id[slot[t]] # Free
    <3> USE <2>2
    <3>1. MemoryTypes' /\ ByThread(t)
      BY SMTT(60) DEF MemoryTypes, ByThread
    <3>2. slot'[t] = slot[t] + 1 /\ mpc'[t] = "claim" /\ thread_id' = thread_id
      BY DEF MemoryTypes
    <3>3. slot[t] \in Nat /\ slot[t] >= 1
      BY <1>0 DEF MemoryTypes, PlaceInv
    <3>4. \A i \in Memory!Slots : i < slot[t] + 1 => i < slot[t] \/ i = slot[t]
      BY <3>3
    <3>5. PlaceInv(t)'
      BY <1>0, <3>2, <3>3, <3>4 DEF PlaceInv
    <3>6. ValueInv(t)'
      BY <1>0 DEF MemoryTypes, ValueInv, UnusedInv
    <3> QED
      BY <3>1, <3>5, <3>6
  <2> QED
    BY <2>1, <2>2
<1>3. CASE Memory!RegistryFull(t)
  <2> USE <1>3 DEF Memory!RegistryFull, Memory!Go, Memory!NoSlot
  <2>1. MemoryTypes' /\ ByThread(t)
    BY DEF MemoryTypes, ByThread
  <2>2. PlaceInv(t)' /\ ValueInv(t)'
    BY <1>0 DEF MemoryTypes, PlaceInv, ValueInv
  <2> QED
    BY <2>1, <2>2
<1>4. ASSUME NEW n \in 0..MaxUse, Memory!WithArena(t, n)
      PROVE  MemoryTypes' /\ ByThread(t) /\ PlaceInv(t)' /\ ValueInv(t)'
  <2>1. allocated[t] \in Nat /\ highest[t] \in Nat /\ allocated[t] + n \in Nat
    BY DEF MemoryTypes
  <2>2. Memory!Max({highest[t], allocated[t] + n})
           = IF highest[t] >= allocated[t] + n THEN highest[t] ELSE allocated[t] + n
    BY <2>1, MaxOfTwo
  <2> USE <1>4, <2>1, <2>2 DEF Memory!WithArena, Memory!Go, Memory!NoSlot, Memory!registry
  <2>3. MemoryTypes'
    BY DEF MemoryTypes
  <2>4. ByThread(t)
    BY DEF MemoryTypes, ByThread
  <2>5. PlaceInv(t)' /\ ValueInv(t)'
    BY <1>0, SMTT(60) DEF MemoryTypes, PlaceInv, ValueInv
  <2> QED
    BY <2>3, <2>4, <2>5
<1>5. CASE Memory!StoreBytes(t)
  <2>1. slot[t] \in Memory!Slots /\ thread_id[slot[t]] = t
    BY <1>0, <1>5 DEF Memory!StoreBytes, PlaceInv
  <2> USE <1>5, <2>1 DEF Memory!StoreBytes, Memory!Go
  <2>2. MemoryTypes' /\ ByThread(t)
    BY SMTT(60) DEF MemoryTypes, ByThread
  <2>3. PlaceInv(t)' /\ ValueInv(t)'
    BY <1>0 DEF MemoryTypes, PlaceInv, ValueInv
  <2> QED
    BY <2>2, <2>3
<1>6. CASE Memory!AtomicMax(t)
  <2>1. slot[t] \in Memory!Slots /\ thread_id[slot[t]] = t
    BY <1>0, <1>6 DEF Memory!AtomicMax, PlaceInv
  <2>2. allocated[t] \in Nat /\ peak_arena_bytes[slot[t]] \in Nat
    BY <2>1 DEF MemoryTypes
  <2>3. Memory!Max({peak_arena_bytes[slot[t]], allocated[t]})
           = IF peak_arena_bytes[slot[t]] >= allocated[t]
             THEN peak_arena_bytes[slot[t]] ELSE allocated[t]
    BY <2>2, MaxOfTwo
  <2> USE <1>6, <2>1, <2>2, <2>3 DEF Memory!AtomicMax, Memory!Go
  <2>4. MemoryTypes'
    BY DEF MemoryTypes
  <2>5. ByThread(t)
    BY DEF MemoryTypes, ByThread
  <2>6. PlaceInv(t)' /\ ValueInv(t)'
    BY <1>0 DEF MemoryTypes, PlaceInv, ValueInv
  <2> QED
    BY <2>4, <2>5, <2>6
<1>7. ASSUME mpc[t] \in {"use", "check"}, Memory!ArenaReset(t)
      PROVE  MemoryTypes' /\ ByThread(t) /\ PlaceInv(t)' /\ ValueInv(t)'
  <2> USE <1>7 DEF Memory!ArenaReset, Memory!Go, Memory!NoSlot, Memory!registry
  <2>1. MemoryTypes'
    BY DEF MemoryTypes
  <2>2. ByThread(t)
    BY DEF MemoryTypes, ByThread
  <2>3. PlaceInv(t)' /\ ValueInv(t)'
    BY <1>0 DEF MemoryTypes, PlaceInv, ValueInv
  <2> QED
    BY <2>1, <2>2, <2>3
<1>8. CASE Memory!StrandExit(t)
  BY <1>7, <1>8 DEF Memory!StrandExit
<1>9. CASE Memory!ShouldReset(t)
  <2>1. CASE allocated[t] > ARENA_RESET_THRESHOLD /\ Memory!ArenaReset(t)
    BY <1>7, <1>9, <2>1 DEF Memory!ShouldReset
  <2>2. CASE allocated[t] <= ARENA_RESET_THRESHOLD /\ ~Memory!ArenaReset(t)
    <3> USE <1>9, <2>2 DEF Memory!ShouldReset, Memory!Go, Memory!registry
    <3>1. MemoryTypes'
      BY DEF MemoryTypes
    <3>2. ByThread(t)
      BY DEF MemoryTypes, ByThread
    <3>3. PlaceInv(t)' /\ ValueInv(t)'
      BY <1>0 DEF MemoryTypes, PlaceInv, ValueInv
    <3> QED
      BY <3>1, <3>2, <3>3
  <2> QED
    BY <1>7, <1>9, <2>1, <2>2 DEF Memory!ShouldReset
<1> QED
  BY <1>1, <1>2, <1>3, <1>4, <1>5, <1>6, <1>8, <1>9 DEF ThreadStep

(* A thread the step is not of keeps its place and its values: no one else *)
(* writes its slot, and a slot that was taken stays taken.                 *)
LEMMA OthersKept ==
    ASSUME MemoryTypes, ThreadInv, NEW t \in Strands, ByThread(t), NEW u \in Strands, u # t
    PROVE  PlaceInv(u)' /\ ValueInv(u)'
<1>0. PlaceInv(u) /\ ValueInv(u)
  BY DEF ThreadInv
<1>1. /\ mpc'[u] = mpc[u] /\ slot'[u] = slot[u]
      /\ allocated'[u] = allocated[u] /\ highest'[u] = highest[u]
  BY DEF ByThread
<1>2. \A i \in Memory!Slots : /\ thread_id'[i] = u <=> thread_id[i] = u
                              /\ thread_id[i] # Free => thread_id'[i] # Free
  BY MemoryConstants DEF ByThread, MemoryTypes
<1>3. PlaceInv(u)'
  BY <1>0, <1>1, <1>2 DEF PlaceInv, Memory!Slots
<1>4. \A i \in Memory!Slots : thread_id[i] = u =>
          arena_bytes'[i] = arena_bytes[i] /\ peak_arena_bytes'[i] = peak_arena_bytes[i]
  BY DEF ByThread
<1>5. mpc[u] \notin {"new", "claim"} /\ slot[u] # 0 =>
          slot[u] \in Memory!Slots /\ thread_id[slot[u]] = u
  BY <1>0 DEF PlaceInv
<1>6. ValueInv(u)'
  BY <1>0, <1>1, <1>4, <1>5 DEF ValueInv
<1> QED
  BY <1>3, <1>6

LEMMA SameCardinality == ASSUME NEW S PROVE Memory!Cardinality(S) = Cardinality(S)
  BY DEF Memory!Cardinality, Cardinality

LEMMA UnusedStep ==
    ASSUME MemoryTypes, UnusedInv, NEW t \in Strands, ByThread(t)
    PROVE  UnusedInv'
<1> SUFFICES ASSUME NEW i \in Memory!Slots, thread_id'[i] = Free
             PROVE  arena_bytes'[i] = 0 /\ peak_arena_bytes'[i] = 0
  BY DEF UnusedInv, Memory!Slots
<1>1. t # Free
  BY MemoryConstants
<1>2. thread_id[i] = Free
  BY <1>1 DEF ByThread
<1>3. arena_bytes'[i] = arena_bytes[i] /\ peak_arena_bytes'[i] = peak_arena_bytes[i]
  BY <1>1, <1>2 DEF ByThread
<1> QED
  BY <1>2, <1>3 DEF UnusedInv

(* A thread is counted as refused in the step in which it is refused.      *)
LEMMA RefusedStep ==
    ASSUME MemoryTypes, ThreadInv, RefusedInv, NEW t \in Strands, ThreadStep(t)
    PROVE  RefusedInv'
<1> USE MemoryConstants DEF Memory!Slots, MemoryLabels
<1>0. PlaceInv(t)
  BY DEF ThreadInv
<1>1. CASE Memory!RegistryFull(t)
  <2>1. t \notin Memory!Refused
    BY <1>0, <1>1 DEF Memory!RegistryFull, Memory!Refused, Memory!NoSlot, PlaceInv
  <2>2. Memory!Refused' = Memory!Refused \cup {t}
    BY <1>0, <1>1 DEF Memory!RegistryFull, Memory!Go, Memory!Refused, Memory!NoSlot, MemoryTypes
  <2>3. refused' = refused + 1
    BY <1>1 DEF Memory!RegistryFull
  <2> QED
    BY <2>1, <2>2, <2>3, FS_AddElement DEF RefusedInv
<1>2. ASSUME ~Memory!RegistryFull(t)
      PROVE  /\ refused' = refused
             /\ \A u \in Strands : u \in Memory!Refused' <=> u \in Memory!Refused
  <2> USE DEF Memory!Refused, Memory!NoSlot, Memory!Go, MemoryTypes
  <2>1. CASE Memory!FirstUse(t)
    BY <1>0, <2>1 DEF Memory!FirstUse, Memory!registry, PlaceInv
  <2>2. CASE Memory!ClaimSlot(t)
    BY <1>0, <2>2 DEF Memory!ClaimSlot, PlaceInv
  <2>3. CASE \E n \in 0..MaxUse : Memory!WithArena(t, n)
    BY <2>3 DEF Memory!WithArena, Memory!registry
  <2>4. CASE Memory!StoreBytes(t)
    BY <2>4 DEF Memory!StoreBytes
  <2>5. CASE Memory!AtomicMax(t)
    BY <2>5 DEF Memory!AtomicMax
  <2>6. CASE Memory!ShouldReset(t)
    BY <2>6 DEF Memory!ShouldReset, Memory!ArenaReset, Memory!registry
  <2>7. CASE Memory!StrandExit(t)
    BY <2>7 DEF Memory!StrandExit, Memory!ArenaReset, Memory!registry
  <2> QED
    BY <1>2, <2>1, <2>2, <2>3, <2>4, <2>5, <2>6, <2>7 DEF ThreadStep
<1>3. CASE ~Memory!RegistryFull(t)
  <2>1. Memory!Refused' = Memory!Refused
    BY <1>2, <1>3 DEF Memory!Refused
  <2> QED
    BY <1>2, <1>3, <2>1 DEF RefusedInv
<1> QED
  BY <1>1, <1>3

-----------------------------------------------------------------------------
(* Slots up to n: finite, and one more when the next is in the set.        *)
LEMMA UpTo ==
    ASSUME NEW S, NEW n \in Nat
    PROVE  /\ IsFiniteSet(S \cap (1..n)) /\ Cardinality(S \cap (1..n)) \in Nat
           /\ n + 1 \in S =>
                Cardinality(S \cap (1..(n + 1))) = Cardinality(S \cap (1..n)) + 1
           /\ n + 1 \notin S => S \cap (1..(n + 1)) = S \cap (1..n)
           /\ \A T : S \subseteq T =>
                Cardinality(S \cap (1..n)) <= Cardinality(T \cap (1..n))
<1>1. IsFiniteSet(1..n)
  BY FS_Interval
<1>2. \A T : IsFiniteSet(T \cap (1..n)) /\ Cardinality(T \cap (1..n)) \in Nat
  <2> SUFFICES ASSUME NEW T PROVE IsFiniteSet(T \cap (1..n)) /\ Cardinality(T \cap (1..n)) \in Nat
    OBVIOUS
  <2>1. T \cap (1..n) \in SUBSET (1..n)
    OBVIOUS
  <2>2. IsFiniteSet(T \cap (1..n))
    BY <1>1, <2>1, FS_Subset
  <2> QED
    BY <2>2, FS_CardinalityType
<1>3. ASSUME n + 1 \in S
      PROVE  Cardinality(S \cap (1..(n + 1))) = Cardinality(S \cap (1..n)) + 1
  <2>1. S \cap (1..(n + 1)) = (S \cap (1..n)) \cup {n + 1} /\ n + 1 \notin S \cap (1..n)
    BY <1>3
  <2> QED
    BY <1>2, <2>1, FS_AddElement
<1>4. n + 1 \notin S => S \cap (1..(n + 1)) = S \cap (1..n)
  OBVIOUS
<1>5. ASSUME NEW T, S \subseteq T
      PROVE  Cardinality(S \cap (1..n)) <= Cardinality(T \cap (1..n))
  <2>1. S \cap (1..n) \in SUBSET (T \cap (1..n))
    BY <1>5
  <2> QED
    BY <1>2, <2>1, FS_Subset
<1> QED
  BY <1>2, <1>3, <1>4, <1>5

(* While the threads go on, the claimed slots and the marks only grow.     *)
LEMMA ReaderKept ==
    ASSUME MemoryTypes, MemoryTypes', ReaderInv, NEW t \in Strands, ByThread(t)
    PROVE  ReaderInv'
<1>1. reader' = reader /\ refused <= refused'
  BY DEF ByThread
<1>2. \A i \in Memory!Slots : /\ thread_id[i] # Free => thread_id'[i] # Free
                              /\ peak_arena_bytes[i] <= peak_arena_bytes'[i]
  BY MemoryConstants DEF ByThread
<1>3. Passed' = Passed /\ Counting' = Counting /\ Passed \in 0..MAX_THREADS /\ Counting \in {0, 1}
  BY <1>1, MemoryConstants DEF Passed, Counting, MemoryTypes, Readers
<1>4. Memory!Claimed \subseteq Memory!Claimed'
  BY <1>2 DEF Memory!Claimed
<1>5. /\ Cardinality(Memory!Claimed \cap (1..Passed)) \in Nat
      /\ Cardinality(Memory!Claimed' \cap (1..Passed)) \in Nat
      /\ Cardinality(Memory!Claimed \cap (1..Passed)) <= Cardinality(Memory!Claimed' \cap (1..Passed))
  <2>1. Passed \in Nat
    BY <1>3
  <2> QED
    BY <1>4, <2>1, UpTo
<1>6. /\ Memory!Sums(peak_arena_bytes)[Passed] \in Nat
      /\ Memory!Sums(peak_arena_bytes')[Passed] \in Nat
      /\ Memory!Sums(peak_arena_bytes)[Passed] <= Memory!Sums(peak_arena_bytes')[Passed]
  BY <1>2, <1>3, MemoryConstants, SumsMonotone DEF MemoryTypes
<1>7. reader.active \in Nat /\ reader.peak \in Nat /\ reader.overflow \in Nat
      /\ refused \in Nat /\ refused' \in Nat
      /\ reader.claimed \in SUBSET Memory!Slots
      /\ \A i \in Memory!Slots : reader.marks[i] \in Nat /\ peak_arena_bytes[i] \in Nat
                                 /\ peak_arena_bytes'[i] \in Nat
  BY DEF MemoryTypes, Readers, Counts
<1>8. reader.active <= Cardinality(Memory!Claimed' \cap (1..Passed)) + Counting
  BY <1>3, <1>5, <1>7 DEF ReaderInv
<1>9. reader.peak <= Memory!Sums(peak_arena_bytes')[Passed]
  BY <1>6, <1>7 DEF ReaderInv
<1>10. reader.overflow <= refused'
  BY <1>1, <1>7 DEF ReaderInv
<1>11. \A i \in Memory!Slots : reader.marks[i] <= peak_arena_bytes'[i]
  BY <1>2, <1>7 DEF ReaderInv
<1>12. /\ reader.load # "id" => reader.at \in Memory!Slots /\ thread_id'[reader.at] # Free
       /\ \A i \in reader.claimed : thread_id'[i] # Free
  BY <1>2, <1>7 DEF ReaderInv
<1> QED
  BY <1>1, <1>3, <1>8, <1>9, <1>10, <1>11, <1>12 DEF ReaderInv, Memory!Slots

(* A step of the aggregation.  What it passes is counted if it was claimed *)
(* when it began, and only if it is claimed now.                           *)
LEMMA ReaderStepHolds ==
    ASSUME MemoryTypes, UnusedInv, ReaderInv, ReaderStep
    PROVE  /\ UNCHANGED <<thread_id, arena_bytes, peak_arena_bytes, refused>>
           /\ UNCHANGED <<mpc, slot, allocated, ops, highest>>
           /\ reader' \in Readers /\ ReaderInv'
<1> USE MemoryConstants
<1>1. /\ UNCHANGED <<thread_id, arena_bytes, peak_arena_bytes, refused>>
      /\ UNCHANGED <<mpc, slot, allocated, ops, highest>>
  BY DEF ReaderStep, Memory!BeginAggregate, Memory!LoadId, Memory!LoadBytes, Memory!LoadPeak,
         Memory!LoadOverflow, Memory!registry, Memory!thread
<1>2. /\ reader \in Readers /\ refused \in Nat
      /\ arena_bytes \in Counts /\ peak_arena_bytes \in Counts
  BY DEF MemoryTypes
<1>3. /\ Memory!Claimed' = Memory!Claimed /\ Memory!Claimed \in SUBSET Memory!Slots
      /\ \A i \in Memory!Slots : i \in Memory!Claimed <=> thread_id[i] # Free
  BY <1>1 DEF Memory!Claimed, Memory!Slots
<1> DEFINE C(n) == Cardinality(Memory!Claimed \cap (1..n))
           D(n) == Cardinality(reader.claimed \cap (1..n))
           M(n) == Memory!Sums(reader.marks)[n]
           P(n) == Memory!Sums(peak_arena_bytes)[n]
<1>4. CASE Memory!BeginAggregate
  <2>1. PICK q \in Readers : /\ q = Memory!Quiet /\ q.load = "id" /\ q.active = 0 /\ q.bytes = 0
                              /\ q.peak = 0 /\ q.overflow = 0
    <3>1. /\ Memory!Quiet \in Readers /\ Memory!Quiet.load = "id" /\ Memory!Quiet.active = 0
          /\ Memory!Quiet.bytes = 0 /\ Memory!Quiet.peak = 0 /\ Memory!Quiet.overflow = 0
      BY DEF Memory!Quiet, Memory!Slots, Readers, Counts
    <3> QED
      BY <3>1, Zenon
  <2>2. reader' = [at |-> 1, load |-> "id", active |-> 0, bytes |-> 0, peak |-> 0, overflow |-> 0,
                   claimed |-> Memory!Claimed, marks |-> peak_arena_bytes]
    BY <1>4, <2>1 DEF Memory!BeginAggregate, Readers
  <2>3. reader' \in Readers
    BY <1>2, <1>3, <2>2 DEF Readers
  <2>4. Passed' = 0 /\ Counting' = 0
    BY <2>2 DEF Passed, Counting
  <2>5. Memory!Sums(peak_arena_bytes)[0] = 0
    BY <1>2, SumsStep
  <2>6. Memory!Claimed \cap (1..0) = {} /\ Cardinality({}) = 0
    BY FS_EmptySet
  <2>7. \A i \in Memory!Slots : peak_arena_bytes[i] <= peak_arena_bytes[i]
    BY <1>2 DEF Counts
  <2>8. ReaderInv'
    BY <1>1, <1>2, <1>3, <2>2, <2>4, <2>5, <2>6, <2>7 DEF ReaderInv
  <2> QED
    BY <1>1, <2>3, <2>8
<1>5. ASSUME reader.at \in Memory!Slots
      PROVE  /\ Passed = reader.at - 1 /\ Passed \in Nat /\ reader.at = Passed + 1
             /\ D(reader.at) \in Nat /\ D(Passed) \in Nat
             /\ C(reader.at) \in Nat /\ C(Passed) \in Nat
             /\ reader.at \in reader.claimed => D(reader.at) = D(Passed) + 1
             /\ reader.at \notin reader.claimed => D(reader.at) = D(Passed)
             /\ reader.at \in Memory!Claimed => C(reader.at) = C(Passed) + 1
             /\ reader.at \notin Memory!Claimed => C(reader.at) = C(Passed)
             /\ M(Passed) \in Nat /\ P(Passed) \in Nat
             /\ reader.marks[reader.at] \in Nat /\ peak_arena_bytes[reader.at] \in Nat
             /\ reader.marks[reader.at] <= peak_arena_bytes[reader.at]
             /\ M(reader.at) = M(Passed) + reader.marks[reader.at]
             /\ P(reader.at) = P(Passed) + peak_arena_bytes[reader.at]
  <2>1. Passed = reader.at - 1 /\ Passed \in Nat /\ reader.at = Passed + 1
        /\ Passed \in 0..MAX_THREADS /\ reader.at \in 1..MAX_THREADS /\ reader.at \in Nat
    BY <1>2, <1>5 DEF Passed, Memory!Slots
  <2>2. /\ D(reader.at) \in Nat /\ D(Passed) \in Nat
        /\ C(reader.at) \in Nat /\ C(Passed) \in Nat
    BY <2>1, UpTo
  <2>3. /\ reader.at \in reader.claimed => D(reader.at) = D(Passed) + 1
        /\ reader.at \notin reader.claimed => D(reader.at) = D(Passed)
        /\ reader.at \in Memory!Claimed => C(reader.at) = C(Passed) + 1
        /\ reader.at \notin Memory!Claimed => C(reader.at) = C(Passed)
    <3>1. \A S : /\ Passed + 1 \in S => Cardinality(S \cap (1..(Passed + 1)))
                                            = Cardinality(S \cap (1..Passed)) + 1
                 /\ Passed + 1 \notin S => S \cap (1..(Passed + 1)) = S \cap (1..Passed)
      BY <2>1, UpTo
    <3>2. \A S : /\ reader.at \in S => Cardinality(S \cap (1..reader.at))
                                          = Cardinality(S \cap (1..Passed)) + 1
                 /\ reader.at \notin S => S \cap (1..reader.at) = S \cap (1..Passed)
      BY <2>1, <3>1, Zenon
    <3> QED
      BY <3>2, Zenon
  <2>4. /\ reader.marks \in Counts
        /\ \A i \in Memory!Slots : reader.marks[i] \in Nat /\ peak_arena_bytes[i] \in Nat
                                   /\ reader.marks[i] <= peak_arena_bytes[i]
    BY <1>2 DEF Readers, Counts, ReaderInv
  <2>5. M(Passed) \in Nat /\ P(Passed) \in Nat
    BY <1>2, <2>1, <2>4, SumsMonotone
  <2>6. /\ M(reader.at) = M(Passed) + reader.marks[reader.at]
        /\ P(reader.at) = P(Passed) + peak_arena_bytes[reader.at]
    BY <1>2, <2>1, <2>4, SumsStep
  <2> QED
    BY <1>5, <2>1, <2>2, <2>3, <2>4, <2>5, <2>6
<1>6. /\ Counting <= 1 /\ Counting \in Nat /\ reader.active \in Nat /\ reader.peak \in Nat
      /\ reader.bytes \in Nat
      /\ D(Passed) + Counting <= reader.active /\ reader.active <= C(Passed) + Counting
      /\ M(Passed) <= reader.peak /\ reader.peak <= P(Passed)
  BY <1>2 DEF Counting, ReaderInv, Readers
<1>7. \A i \in reader.claimed : i \in Memory!Slots /\ i \in Memory!Claimed
  BY <1>2, <1>3 DEF Readers, ReaderInv
<1> USE DEF Memory!Slots
<1>8. CASE Memory!LoadId /\ thread_id[reader.at] = Free
  <2>0. reader.at \in Memory!Slots /\ reader.load = "id" /\ reader' = [reader EXCEPT !.at = @ + 1]
    BY <1>8 DEF Memory!LoadId
  <2>1. /\ reader' \in Readers /\ reader'.at = reader.at + 1 /\ reader'.load = reader.load
        /\ reader'.active = reader.active /\ reader'.peak = reader.peak
        /\ reader'.overflow = reader.overflow
        /\ reader'.claimed = reader.claimed /\ reader'.marks = reader.marks
    BY <1>2, <2>0 DEF Readers
  <2>2. Passed' = reader.at /\ Counting' = 0 /\ Counting = 0
    BY <1>2, <2>0, <2>1 DEF Passed, Counting, Readers
  <2>3. /\ reader.at \notin reader.claimed /\ reader.at \notin Memory!Claimed
        /\ peak_arena_bytes[reader.at] = 0 /\ reader.marks[reader.at] = 0
    BY <1>3, <1>5, <1>7, <1>8, <2>0 DEF UnusedInv
  <2>4. /\ D(reader.at) <= reader.active /\ reader.active <= C(reader.at)
        /\ M(reader.at) <= reader.peak /\ reader.peak <= P(reader.at)
    BY <1>5, <1>6, <2>0, <2>2, <2>3
  <2>5. ReaderInv'
    BY <1>1, <1>3, <1>5, <1>6, <2>0, <2>1, <2>2, <2>4 DEF ReaderInv
  <2> QED
    BY <1>1, <2>1, <2>5
<1>9. CASE Memory!LoadId /\ thread_id[reader.at] # Free
  <2>0. /\ reader.at \in Memory!Slots /\ reader.load = "id"
        /\ reader' = [reader EXCEPT !.load = "bytes", !.active = @ + 1]
    BY <1>9 DEF Memory!LoadId
  <2>1. reader' = [at |-> reader.at, load |-> "bytes", active |-> reader.active + 1, bytes |-> reader.bytes,
                   peak |-> reader.peak, overflow |-> reader.overflow,
                   claimed |-> reader.claimed, marks |-> reader.marks]
    BY <1>2, <2>0 DEF Readers
  <2>2. /\ reader' \in Readers /\ reader'.at = reader.at /\ reader'.load = "bytes"
        /\ reader'.active = reader.active + 1 /\ reader'.peak = reader.peak
        /\ reader'.overflow = reader.overflow
        /\ reader'.claimed = reader.claimed /\ reader'.marks = reader.marks
    BY <1>2, <2>0, <2>1 DEF Readers
  <2>3. Passed' = Passed /\ Counting' = 1 /\ Counting = 0
    BY <2>0, <2>2 DEF Passed, Counting
  <2>4. D(Passed) + 1 <= reader.active + 1 /\ reader.active + 1 <= C(Passed) + 1
    BY <1>5, <1>6, <2>0, <2>3
  <2>5. ReaderInv'
    BY <1>1, <1>3, <1>9, <2>0, <2>2, <2>3, <2>4 DEF ReaderInv
  <2> QED
    BY <1>1, <2>2, <2>5
<1>10. CASE Memory!LoadBytes
  <2>0. /\ reader.at \in Memory!Slots /\ reader.load = "bytes"
        /\ reader' = [reader EXCEPT !.load = "peak", !.bytes = @ + arena_bytes[reader.at]]
        /\ arena_bytes[reader.at] \in Nat
    BY <1>2, <1>10 DEF Memory!LoadBytes, Counts
  <2>1. reader' = [at |-> reader.at, load |-> "peak", active |-> reader.active, bytes |-> reader.bytes + arena_bytes[reader.at],
                   peak |-> reader.peak, overflow |-> reader.overflow,
                   claimed |-> reader.claimed, marks |-> reader.marks]
    BY <1>2, <2>0 DEF Readers
  <2>2. /\ reader' \in Readers /\ reader'.at = reader.at /\ reader'.load = "peak"
        /\ reader'.active = reader.active /\ reader'.peak = reader.peak
        /\ reader'.overflow = reader.overflow
        /\ reader'.claimed = reader.claimed /\ reader'.marks = reader.marks
    BY <1>2, <2>0, <2>1 DEF Readers
  <2>3. Passed' = Passed /\ Counting' = Counting
    BY <2>0, <2>2 DEF Passed, Counting
  <2>4. ReaderInv'
    BY <1>1, <1>3, <2>0, <2>2, <2>3 DEF ReaderInv
  <2> QED
    BY <1>1, <2>2, <2>4
<1>11. CASE Memory!LoadPeak
  <2>0. /\ reader.at \in Memory!Slots /\ reader.load = "peak"
        /\ reader' = [reader EXCEPT !.load = "id", !.at = @ + 1,
                                    !.peak = @ + peak_arena_bytes[reader.at]]
    BY <1>11 DEF Memory!LoadPeak
  <2>1. reader' = [at |-> reader.at + 1, load |-> "id", active |-> reader.active, bytes |-> reader.bytes,
                   peak |-> reader.peak + peak_arena_bytes[reader.at], overflow |-> reader.overflow,
                   claimed |-> reader.claimed, marks |-> reader.marks]
    BY <1>2, <2>0 DEF Readers
  <2>2. /\ reader' \in Readers /\ reader'.at = reader.at + 1 /\ reader'.load = "id"
        /\ reader'.active = reader.active
        /\ reader'.peak = reader.peak + peak_arena_bytes[reader.at]
        /\ reader'.overflow = reader.overflow
        /\ reader'.claimed = reader.claimed /\ reader'.marks = reader.marks
    BY <1>2, <1>5, <2>0, <2>1 DEF Readers
  <2>3. Passed' = reader.at /\ Counting' = 0 /\ Counting = 1
    BY <1>2, <2>0, <2>2 DEF Passed, Counting, Readers
  <2>4. reader.at \in Memory!Claimed
    BY <1>3, <2>0 DEF ReaderInv
  <2>5. D(reader.at) <= reader.active /\ reader.active <= C(reader.at)
    BY <1>5, <1>6, <2>0, <2>3, <2>4
  <2>6. /\ M(reader.at) <= reader.peak + peak_arena_bytes[reader.at]
        /\ reader.peak + peak_arena_bytes[reader.at] <= P(reader.at)
    BY <1>5, <1>6, <2>0
  <2>7. ReaderInv'
    BY <1>1, <1>3, <1>5, <1>6, <2>0, <2>2, <2>3, <2>5, <2>6 DEF ReaderInv
  <2> QED
    BY <1>1, <2>2, <2>7
<1>12. CASE Memory!LoadOverflow
  <2>0. /\ reader.at = MAX_THREADS + 1 /\ reader.load = "id"
        /\ reader' = [reader EXCEPT !.at = MAX_THREADS + 2, !.overflow = refused]
    BY <1>2, <1>12 DEF Memory!LoadOverflow, ReaderInv, Readers
  <2>1. reader' = [at |-> MAX_THREADS + 2, load |-> reader.load, active |-> reader.active, bytes |-> reader.bytes,
                   peak |-> reader.peak, overflow |-> refused,
                   claimed |-> reader.claimed, marks |-> reader.marks]
    BY <1>2, <2>0 DEF Readers
  <2>2. /\ reader' \in Readers /\ reader'.at = MAX_THREADS + 2 /\ reader'.load = reader.load
        /\ reader'.active = reader.active /\ reader'.peak = reader.peak
        /\ reader'.overflow = refused
        /\ reader'.claimed = reader.claimed /\ reader'.marks = reader.marks
    BY <1>2, <2>0, <2>1 DEF Readers
  <2>3. Passed' = Passed /\ Counting' = Counting
    BY <2>0, <2>2 DEF Passed, Counting
  <2>4. ReaderInv'
    BY <1>1, <1>2, <1>3, <2>0, <2>2, <2>3 DEF ReaderInv
  <2> QED
    BY <1>1, <2>2, <2>4
<1> QED
  BY <1>4, <1>8, <1>9, <1>10, <1>11, <1>12 DEF ReaderStep

LEMMA MemoryInit == Memory!Init => MemoryInv
<1> SUFFICES ASSUME Memory!Init PROVE MemoryInv
  OBVIOUS
<1> USE MemoryConstants DEF Memory!Init
<1>1. MemoryTypes
  BY DEF MemoryTypes, Memory!Slots, Memory!NoSlot, Memory!Quiet, MemoryLabels, Counts, Readers
<1>2. ThreadInv
  BY DEF ThreadInv, PlaceInv, ValueInv, Memory!NoSlot
<1>3. UnusedInv
  BY DEF UnusedInv
<1>4. RefusedInv
  <2>1. Memory!Refused = {}
    BY DEF Memory!Refused
  <2> QED
    BY <2>1, FS_EmptySet DEF RefusedInv
<1>5. ReaderInv
  <2>1. reader = Memory!Quiet /\ Passed = 0 /\ Counting = 0
    BY DEF Passed, Counting, Memory!Quiet
  <2>2. reader.marks \in Counts /\ peak_arena_bytes \in Counts
    BY <1>1 DEF MemoryTypes, Readers
  <2>3. Memory!Sums(reader.marks)[0] = 0 /\ Memory!Sums(peak_arena_bytes)[0] = 0
    BY <2>2, SumsStep
  <2>4. /\ reader.claimed \cap (1..0) = {} /\ Memory!Claimed \cap (1..0) = {}
        /\ Cardinality({}) = 0
    BY FS_EmptySet
  <2> QED
    BY <2>1, <2>3, <2>4 DEF ReaderInv, Memory!Quiet
<1> QED
  BY <1>1, <1>2, <1>3, <1>4, <1>5 DEF MemoryInv

LEMMA MemoryStep == MemoryInv /\ [Memory!Next]_memoryVars => MemoryInv'
<1> SUFFICES ASSUME MemoryInv, [Memory!Next]_memoryVars PROVE MemoryInv'
  OBVIOUS
<1>0. MemoryTypes /\ ThreadInv /\ UnusedInv /\ RefusedInv /\ ReaderInv
  BY DEF MemoryInv
<1>1. ASSUME NEW t \in Strands, ThreadStep(t) PROVE MemoryInv'
  <2>1. MemoryTypes' /\ ByThread(t) /\ PlaceInv(t)' /\ ValueInv(t)'
    BY <1>0, <1>1, ThreadStepHolds
  <2>2. ThreadInv'
    BY <1>0, <2>1, OthersKept DEF ThreadInv
  <2>3. UnusedInv'
    BY <1>0, <2>1, UnusedStep
  <2>4. RefusedInv'
    BY <1>0, <1>1, RefusedStep
  <2>5. ReaderInv'
    BY <1>0, <2>1, ReaderKept
  <2> QED
    BY <2>1, <2>2, <2>3, <2>4, <2>5 DEF MemoryInv
<1>2. ASSUME UNCHANGED <<thread_id, arena_bytes, peak_arena_bytes, refused>>,
             UNCHANGED <<mpc, slot, allocated, ops, highest>>
      PROVE  /\ reader' \in Readers => MemoryTypes'
             /\ ThreadInv' /\ UnusedInv' /\ RefusedInv'
  <2>1. ThreadInv'
    BY <1>0, <1>2 DEF ThreadInv, PlaceInv, ValueInv, Memory!Slots
  <2>2. UnusedInv' /\ (reader' \in Readers => MemoryTypes')
    BY <1>0, <1>2 DEF UnusedInv, MemoryTypes, Memory!Slots
  <2>3. RefusedInv'
    <3>1. Memory!Refused' = Memory!Refused
      BY <1>2 DEF Memory!Refused
    <3> QED
      BY <1>0, <1>2, <3>1 DEF RefusedInv
  <2> QED
    BY <2>1, <2>2, <2>3
<1>3. CASE ReaderStep
  BY <1>0, <1>2, <1>3, ReaderStepHolds DEF MemoryInv
<1>4. CASE UNCHANGED memoryVars
  <2>1. ReaderInv' /\ reader' \in Readers
    <3>1. Passed' = Passed /\ Counting' = Counting /\ Memory!Claimed' = Memory!Claimed
      BY <1>4 DEF memoryVars, Passed, Counting, Memory!Claimed, Memory!Slots
    <3> QED
      BY <1>0, <1>4, <3>1 DEF memoryVars, ReaderInv, Memory!Slots, MemoryTypes
  <2> QED
    BY <1>0, <1>2, <1>4, <2>1 DEF memoryVars, MemoryInv
<1> QED
  BY <1>1, <1>3, <1>4 DEF Memory!Next, ThreadStep, ReaderStep

(* What the runs check of the statistics.                                  *)
LEMMA MemoryFollows ==
    MemoryInv => /\ Memory!TypeOK /\ Memory!SlotExclusive /\ Memory!StatsCurrent
                 /\ Memory!ArenaBounded /\ Memory!OverflowExact /\ Memory!AggregateSound
<1> SUFFICES ASSUME MemoryInv
             PROVE  /\ Memory!TypeOK /\ Memory!SlotExclusive /\ Memory!StatsCurrent
                    /\ Memory!ArenaBounded /\ Memory!OverflowExact /\ Memory!AggregateSound
  OBVIOUS
<1> USE MemoryConstants
<1>0. MemoryTypes /\ ThreadInv /\ UnusedInv /\ RefusedInv /\ ReaderInv
  BY DEF MemoryInv
<1>1. Memory!TypeOK
  <2>1. \A t \in Strands : allocated[t] \in 0..(ARENA_RESET_THRESHOLD + MaxUse)
    BY <1>0 DEF MemoryTypes, ThreadInv, ValueInv
  <2>2. allocated \in [Strands -> 0..(ARENA_RESET_THRESHOLD + MaxUse)]
    BY <1>0, <2>1 DEF MemoryTypes
  <2>3. \A t \in Strands : mpc[t] # "claim" => slot[t] \in Memory!Slots \cup {0}
    BY <1>0 DEF ThreadInv, PlaceInv
  <2> QED
    BY <1>0, <2>2, <2>3 DEF Memory!TypeOK, MemoryTypes, Counts, Memory!NoSlot
<1>2. Memory!SlotExclusive
  <2>1. ASSUME NEW t \in Memory!Tracked
        PROVE  {i \in Memory!Slots : thread_id[i] = t} = {slot[t]}
    <3>1. t \in Strands /\ mpc[t] \notin {"new", "claim"} /\ slot[t] # 0
      BY <2>1 DEF Memory!Tracked, Memory!NoSlot
    <3>2. /\ slot[t] \in Memory!Slots /\ thread_id[slot[t]] = t
          /\ \A i \in Memory!Slots : thread_id[i] = t => slot[t] = i
      BY <1>0, <3>1 DEF ThreadInv, PlaceInv
    <3> QED
      BY <3>2
  <2>2. ASSUME NEW t \in Memory!Refused PROVE Memory!Claimed = Memory!Slots
    <3>1. t \in Strands /\ mpc[t] # "new" /\ slot[t] = 0
      BY <2>2 DEF Memory!Refused, Memory!NoSlot
    <3>2. \A i \in Memory!Slots : thread_id[i] # Free
      BY <1>0, <3>1 DEF ThreadInv, PlaceInv, Memory!Slots
    <3> QED
      BY <3>2 DEF Memory!Claimed
  <2> QED
    BY <2>1, <2>2 DEF Memory!SlotExclusive
<1>3. Memory!StatsCurrent
  BY <1>0 DEF Memory!StatsCurrent, Memory!Tracked, Memory!NoSlot, ThreadInv, ValueInv
<1>4. Memory!ArenaBounded
  BY <1>0 DEF Memory!ArenaBounded, ThreadInv, ValueInv
<1>5. Memory!OverflowExact
  BY <1>0, SameCardinality DEF Memory!OverflowExact, RefusedInv
<1>6. Memory!AggregateSound
  <2> SUFFICES ASSUME reader.at = MAX_THREADS + 2
               PROVE  /\ Cardinality(reader.claimed) <= reader.active
                      /\ reader.active <= Cardinality(Memory!Claimed)
                      /\ Memory!Sums(reader.marks)[MAX_THREADS] <= reader.peak
                      /\ reader.peak <= Memory!Sums(peak_arena_bytes)[MAX_THREADS]
                      /\ reader.overflow <= refused
    <3>1. \A S : Memory!Cardinality(S) = Cardinality(S)
      BY SameCardinality
    <3>2. /\ reader.active \in Nat /\ reader.peak \in Nat
          /\ Cardinality(reader.claimed) \in Nat
          /\ Memory!Sums(reader.marks)[MAX_THREADS] \in Nat
      <4>1. reader.claimed \in SUBSET Memory!Slots /\ reader.marks \in Counts
        BY <1>0 DEF MemoryTypes, Readers
      <4>2. IsFiniteSet(Memory!Slots)
        BY FS_Interval DEF Memory!Slots
      <4>3. Cardinality(reader.claimed) \in Nat
        BY <4>1, <4>2, FS_Subset, FS_CardinalityType
      <4>4. \A i \in Memory!Slots : reader.marks[i] <= reader.marks[i]
        BY <4>1 DEF Counts
      <4>5. Memory!Sums(reader.marks)[MAX_THREADS] \in Nat
        BY <4>1, <4>4, SumsMonotone
      <4> QED
        BY <1>0, <4>3, <4>5 DEF MemoryTypes, Readers
    <3> QED
      BY <3>1, <3>2 DEF Memory!AggregateSound, Memory!Aggregated, Memory!Total
  <2>1. Passed = MAX_THREADS /\ Counting = 0
    BY <1>0 DEF Passed, Counting, ReaderInv, Memory!Slots
  <2>2. /\ reader.claimed \cap (1..MAX_THREADS) = reader.claimed
        /\ Memory!Claimed \cap (1..MAX_THREADS) = Memory!Claimed
    BY <1>0 DEF MemoryTypes, Readers, Memory!Claimed, Memory!Slots
  <2>3. Cardinality(reader.claimed) \in Nat /\ Cardinality(Memory!Claimed) \in Nat
    BY <2>2, UpTo
  <2> QED
    BY <1>0, <2>1, <2>2, <2>3 DEF ReaderInv
<1> QED
  BY <1>1, <1>2, <1>3, <1>4, <1>5, <1>6

-----------------------------------------------------------------------------
(***************************************************************************)
(* The signals.                                                            *)
(***************************************************************************)
Tallies == [Raisable -> Nat]
SignalTypes ==
    /\ SIGNAL_FLAGS \in [Raisable -> BOOLEAN] /\ alive \in BOOLEAN
    /\ raised \in Tallies /\ handling \in Tallies /\ seen \in Tallies
    /\ merged \in Tallies /\ cleared \in Tallies /\ ignored \in Tallies
    /\ disposition \in [Raisable -> {"default", "trap", "ignore"}]

SignalInv == SignalTypes /\ Polled!EachAccounted

LEMMA SignalInit == Polled!Init => SignalInv
  BY DEF Polled!Init, SignalInv, SignalTypes, Tallies, Polled!EachAccounted, Polled!One

LEMMA SignalStep == SignalInv /\ [Polled!Next]_signalVars => SignalInv'
<1> SUFFICES ASSUME SignalInv, [Polled!Next]_signalVars PROVE SignalInv'
  OBVIOUS
<1> USE DEF SignalInv, SignalTypes, Tallies, Polled!EachAccounted, Polled!One
<1>1. ASSUME NEW sig \in Raisable, Polled!Deliver(sig) PROVE SignalInv'
  <2> USE <1>1 DEF Polled!Deliver
  <2>1. SignalTypes'
    OBVIOUS
  <2>2. CASE disposition[sig] = "default"
    BY <2>1, <2>2
  <2>3. CASE disposition[sig] = "trap"
    <3>1. handling'[sig] = handling[sig] + 1 /\ ignored'[sig] = ignored[sig]
      BY <2>3
    <3> QED
      BY <2>1, <3>1
  <2>4. CASE disposition[sig] = "ignore"
    <3>1. ignored'[sig] = ignored[sig] + 1 /\ handling'[sig] = handling[sig]
      BY <2>4
    <3> QED
      BY <2>1, <3>1
  <2> QED
    BY <2>2, <2>3, <2>4
<1>2. ASSUME NEW sig \in Raisable, Polled!FlagHandler(sig) PROVE SignalInv'
  <2> USE <1>2 DEF Polled!FlagHandler
  <2>1. SignalTypes'
    OBVIOUS
  <2>2. CASE SIGNAL_FLAGS[sig]
    <3>1. merged'[sig] = merged[sig] + 1 /\ handling'[sig] = handling[sig] - 1
      BY <2>2
    <3>2. SIGNAL_FLAGS' = SIGNAL_FLAGS
      BY <2>2
    <3>3. \A u \in Raisable : merged'[u] + handling'[u] = merged[u] + handling[u]
      BY <3>1
    <3>4. \A u \in Raisable : Polled!One(SIGNAL_FLAGS'[u]) = Polled!One(SIGNAL_FLAGS[u])
      BY <3>2
    <3>5. Polled!EachAccounted'
      BY <2>1, <3>3, <3>4
    <3> QED
      BY <2>1, <3>5
  <2>3. CASE ~SIGNAL_FLAGS[sig]
    <3>1. merged'[sig] = merged[sig]
      BY <2>3
    <3> QED
      BY <2>1, <2>3, <3>1
  <2> QED
    BY <2>2, <2>3
<1>3. ASSUME NEW sig \in Raisable, Polled!Clear(sig) PROVE SignalInv'
  BY <1>3 DEF Polled!Clear
<1>4. ASSUME NEW sig \in Raisable, Polled!Received(sig) PROVE SignalInv'
  BY <1>4 DEF Polled!Received
<1>5. ASSUME NEW sig \in Raisable, NEW k \in {"trap", "default", "ignore"}, Polled!Install(sig, k)
      PROVE SignalInv'
  BY <1>5 DEF Polled!Install
<1>6. CASE UNCHANGED signalVars
  BY <1>6 DEF signalVars
<1> QED
  BY <1>1, <1>2, <1>3, <1>4, <1>5, <1>6 DEF Polled!Next

-----------------------------------------------------------------------------
(* The registry, the statistics and the signals side by side: a step is of *)
(* one of them and leaves the others alone.                                *)
LEMMA StepOfKinds ==
    ASSUME [KindNext]_<<kind, vars, memoryVars, signalVars>>
    PROVE  [Next]_vars /\ [Memory!Next]_memoryVars /\ [Polled!Next]_signalVars
  BY DEF KindNext

(* Nothing is lost on the way to a figure of memory_stats.rs and signal:   *)
(* however threads, resets, an aggregation, handlers and polls interleave, *)
(* for any number of threads, slots and signals.                           *)
THEOREM FiguresKept == KindSpec => []FiguresExact
<1>1. KindInit => MemoryInv /\ SignalInv
  BY MemoryInit, SignalInit DEF KindInit
<1>2. MemoryInv /\ SignalInv /\ [KindNext]_<<kind, vars, memoryVars, signalVars>>
        => (MemoryInv /\ SignalInv)'
  BY MemoryStep, SignalStep, StepOfKinds
<1>3. MemoryInv /\ SignalInv => FiguresExact
  BY MemoryFollows DEF SignalInv, FiguresExact
<1> QED
  BY <1>1, <1>2, <1>3, PTL DEF KindSpec

(* The registry and its watchdog are sound beside the others.              *)
THEOREM RegistryKept == KindSpec => [](SlotsOwned /\ ScanTrue)
<1>1. KindInit => IInv
  BY InitInv DEF KindInit
<1>2. IInv /\ [KindNext]_<<kind, vars, memoryVars, signalVars>> => IInv'
  BY InvariantStep, StepOfKinds
<1> QED
  BY <1>1, <1>2, OwnedFollows, ScanFollows, PTL DEF KindSpec
=============================================================================
