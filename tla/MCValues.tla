------------------------------ MODULE MCValues ------------------------------
(* DataStack for TLC.  Each kind of program has its own vocabulary, small   *)
(* enough to be explored to the end; what the properties speak of is the    *)
(* same in all of them.                                                     *)
EXTENDS DataStack

VARIABLE kind \* of program

Ints(S) == {[k |-> "Int", n |-> n] : n \in S}
Quotations == {[k |-> "Quotation"]}
Symbols == {[k |-> "Symbol", s |-> "T"]}

AllWords ==
    {"dup", "nip", "swap", "over", "rot", "tuck", "2dup", "drop", "pick", "roll",
     "list.make", "list.push", "list.get", "list.set", "list.reverse", "list.first",
     "list.last", "list.empty?", "list.map", "list.filter", "list.fold", "list.each",
     "variant.make-0", "variant.make-1", "variant.tag", "variant.unpack", "variant.init",
     "map.make", "map.get", "map.set", "map.has?", "map.remove", "map.keys", "map.values",
     "map.size", "map.each", "map.fold", "closure-1", "call", "spawn"}
AllLits == Ints({0, 1, 3}) \cup Quotations \cup Symbols
MCStrands == 1 .. 2
MCCells == 1 .. 8

(* Lists shared by two strands.                                             *)
Shared == INSTANCE DataStack WITH
    Lits <- Ints({0}) \cup Quotations, MaxDepth <- 2, MaxLive <- 3, MaxLen <- 1,
    Words <- {"dup", "nip", "list.make", "list.push", "spawn"}

(* Nested lists, changed in place or in a copy.                             *)
Nested == INSTANCE DataStack WITH
    Lits <- Ints({0}), MaxDepth <- 3, MaxLive <- 3, MaxLen <- 2,
    Words <- {"dup", "swap", "list.make", "list.push", "list.get", "list.set"}

(* Variants between all the shuffles.                                       *)
Variants == INSTANCE DataStack WITH
    Lits <- Ints({3}) \cup Symbols, MaxDepth <- 3, MaxLive <- 3, MaxLen <- 2,
    Words <- {"over", "rot", "tuck", "2dup", "drop", "pick", "roll", "variant.make-0",
              "variant.make-1", "variant.tag", "variant.unpack", "variant.init",
              "list.reverse", "list.first", "list.last", "list.empty?"}

Maps == INSTANCE DataStack WITH
    Lits <- Ints({0, 1}), MaxDepth <- 3, MaxLive <- 3, MaxLen <- 2,
    Words <- {"dup", "drop", "list.make", "map.make", "map.get", "map.set", "map.has?",
              "map.remove", "map.keys", "map.values", "map.size"}

(* Closures and the combinators on lists and on maps.                       *)
Calls == INSTANCE DataStack WITH
    Lits <- Ints({0}) \cup Quotations, MaxDepth <- 2, MaxLive <- 4, MaxLen <- 1,
    Words <- {"dup", "list.make", "list.push", "closure-1", "list.empty?", "call",
              "list.map", "list.filter", "list.fold", "list.each"}

MapCalls == INSTANCE DataStack WITH
    Lits <- Ints({0}) \cup Quotations, MaxDepth <- 3, MaxLive <- 4, MaxLen <- 2,
    Words <- {"dup", "list.make", "map.make", "map.set", "map.each", "map.fold"}

(* Closures handed to a strand of their own.                                *)
Spawned == INSTANCE DataStack WITH
    Lits <- Ints({0}) \cup Quotations, MaxDepth <- 2, MaxLive <- 2, MaxLen <- 2,
    Words <- {"dup", "closure-1", "spawn"}

KindInit ==
    /\ kind \in {"shared", "nested", "variants", "maps", "calls", "mapCalls", "spawned"}
    /\ Init

KindNext ==
    /\ UNCHANGED kind
    /\ \/ kind = "shared" /\ Shared!Next
       \/ kind = "nested" /\ Nested!Next
       \/ kind = "variants" /\ Variants!Next
       \/ kind = "maps" /\ Maps!Next
       \/ kind = "calls" /\ Calls!Next
       \/ kind = "mapCalls" /\ MapCalls!Next
       \/ kind = "spawned" /\ Spawned!Next

KindSpec == KindInit /\ [][KindNext]_<<vars, kind>>
=============================================================================
