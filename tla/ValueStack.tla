------------------------------ MODULE ValueStack ------------------------------
(***************************************************************************)
(* What a program may rely on: values are immutable trees, and a word      *)
(* replaces the values on top of its strand's stack by its results.        *)
(* Nothing is shared, nothing is changed in place, nothing is counted.     *)
(* The effects are the ones of the built-in signatures.                    *)
(***************************************************************************)
EXTENDS Integers, Sequences, FiniteSets, SequencesExt

CONSTANTS Strands,     \* 1 .. n, strand 1 runs first
          Lits,        \* literals the program pushes
          Words,       \* words the program uses
          MaxDepth,    \* bound: values on one stack
          MaxLen       \* bound: fields of a variant, entries of a map

VARIABLES stacks,  \* per strand, the values, the top one last
          calls,   \* per strand, the calls under way, the innermost last
          status   \* per strand: "unborn", "ready" or "exited"

vvars == <<stacks, calls, status>>

IntV(n) == [k |-> "Int", n |-> n]
BoolV(b) == [k |-> "Bool", b |-> b]
VariantV(tag, items) == [k |-> "Variant", tag |-> tag, items |-> items]
MapV(keys, items) == [k |-> "Map", keys |-> keys, items |-> items]
ClosureV(items) == [k |-> "Closure", items |-> items]

\* A shuffle: how many values it takes, and which of them it leaves, in order.
Effect(w) ==
    CASE w = "dup" -> <<1, <<1, 1>>>>
      [] w = "drop" -> <<1, <<>>>>
      [] w = "swap" -> <<2, <<2, 1>>>>
      [] w = "over" -> <<2, <<1, 2, 1>>>>
      [] w = "rot" -> <<3, <<2, 3, 1>>>>
      [] w = "nip" -> <<2, <<2>>>>
      [] w = "tuck" -> <<2, <<2, 1, 2>>>>
      [] w = "2dup" -> <<2, <<1, 2, 1, 2>>>>

Shuffles == {"dup", "drop", "swap", "over", "rot", "nip", "tuck", "2dup"}

Combinators == {"list.map", "list.filter", "list.each", "list.fold", "map.each", "map.fold"}

Arity(w) ==
    CASE w \in {"list.make", "map.make"} -> 0
      [] w \in {"list.set", "list.fold", "map.set", "map.fold", "variant.make-2"} -> 3
      [] w \in {"list.push", "list.get", "map.get", "map.has?", "map.remove",
                "variant.make-1", "closure-2", "list.map", "list.filter",
                "list.each", "map.each"} -> 2
      [] OTHER -> 1

\* The types the checker asks for; fields and entries are never maps here.
Fits(w, a) ==
    LET lists == w \in {"list.push", "list.get", "list.set", "list.reverse", "list.length",
                        "list.empty?", "list.first", "list.last", "variant.init",
                        "variant.tag", "variant.unpack", "list.map", "list.filter",
                        "list.each", "list.fold"}
        maps == w \in {"map.get", "map.set", "map.has?", "map.remove", "map.keys",
                       "map.values", "map.size", "map.each", "map.fold"}
        last == a[Len(a)]
    IN  /\ lists => a[1].k = "Variant"
        /\ maps => a[1].k = "Map"
        /\ w \in {"list.get", "list.set", "map.get", "map.set", "map.has?", "map.remove"}
              => a[2].k = "Int"
        /\ w = "list.push" => Len(a[1].items) < MaxLen
        /\ w = "map.set" => Len(a[1].items) < MaxLen \/ a[2].n \in Range(a[1].keys)
        /\ w \in {"list.push", "list.set", "map.set", "closure-1", "closure-2"} => last.k # "Map"
        /\ w = "closure-2" => a[1].k # "Map"
        /\ w \in {"variant.init"} => a[1].items # <<>>
        /\ w \in {"variant.make-0", "variant.make-1", "variant.make-2"}
              => last.k = "Symbol" /\ \A i \in 1 .. Len(a) - 1 : a[i].k # "Map"
        /\ w \in Combinators \cup {"call", "spawn"} => last.k \in {"Quotation", "Closure"}

Without(seq, i) == SubSeq(seq, 1, i - 1) \o SubSeq(seq, i + 1, Len(seq))
InBounds(items, n) == n >= 0 /\ n < Len(items)
KeyAt(keys, n) == CHOOSE i \in DOMAIN keys : keys[i] = n
Orders(seq) == {[i \in DOMAIN seq |-> seq[p[i]]] : p \in Permutations(DOMAIN seq)}
Found(v) == <<v, BoolV(TRUE)>>
NotFound == <<IntV(0), BoolV(FALSE)>>

\* The possible results of a word that calls nothing.
Results(w, a) ==
    LET it == a[1].items
        kn == a[1].keys
    IN  CASE w = "list.make" -> {<<VariantV("List", <<>>)>>}
          [] w = "list.push" -> {<<VariantV(a[1].tag, Append(it, a[2]))>>}
          [] w = "list.get" ->
                {IF InBounds(it, a[2].n) THEN Found(it[a[2].n + 1]) ELSE NotFound}
          [] w = "list.set" ->
                {IF InBounds(it, a[2].n)
                 THEN <<VariantV(a[1].tag, [it EXCEPT ![a[2].n + 1] = a[3]]), BoolV(TRUE)>>
                 ELSE <<a[1], BoolV(FALSE)>>}
          [] w = "list.reverse" -> {<<VariantV(a[1].tag, Reverse(it))>>}
          [] w = "variant.init" -> {<<VariantV(a[1].tag, Front(it))>>}
          [] w \in {"list.length", "map.size"} -> {<<IntV(Len(it))>>}
          [] w = "list.empty?" -> {<<BoolV(it = <<>>)>>}
          [] w = "list.first" -> {IF it = <<>> THEN NotFound ELSE Found(it[1])}
          [] w = "list.last" -> {IF it = <<>> THEN NotFound ELSE Found(Last(it))}
          [] w = "variant.tag" -> {<<[k |-> "Symbol", s |-> a[1].tag]>>}
          [] w = "variant.unpack" -> {it}
          [] w \in {"variant.make-0", "variant.make-1", "variant.make-2"} ->
                {<<VariantV(Last(a).s, Front(a))>>}
          [] w = "map.make" -> {<<MapV(<<>>, <<>>)>>}
          [] w = "map.get" ->
                {IF a[2].n \in Range(kn) THEN Found(it[KeyAt(kn, a[2].n)]) ELSE NotFound}
          [] w = "map.has?" -> {<<BoolV(a[2].n \in Range(kn))>>}
          [] w = "map.set" ->
                {<<IF a[2].n \in Range(kn) THEN MapV(kn, [it EXCEPT ![KeyAt(kn, a[2].n)] = a[3]])
                   ELSE MapV(Append(kn, a[2].n), Append(it, a[3]))>>}
          [] w = "map.remove" ->
                {<<IF a[2].n \in Range(kn)
                   THEN LET i == KeyAt(kn, a[2].n) IN MapV(Without(kn, i), Without(it, i))
                   ELSE a[1]>>}
          [] w = "map.keys" -> {<<VariantV("List", o)>> : o \in Orders([i \in DOMAIN kn |-> IntV(kn[i])])}
          [] w = "map.values" -> {<<VariantV("List", o)>> : o \in Orders(it)}
          [] w \in {"closure-1", "closure-2"} -> {<<ClosureV(a)>>}

-----------------------------------------------------------------------------
Take(q, n) == SubSeq(q, Len(q) - n + 1, Len(q))
Below(q, n) == SubSeq(q, 1, Len(q) - n)
Inner(s) == Last(calls[s])
Busy(s) == calls[s] # <<>> /\ Inner(s).at = 0     \* a combinator between two calls
Put(s, q) == stacks' = [stacks EXCEPT ![s] = q]

Captures(fn) == IF fn.k = "Closure" THEN fn.items ELSE <<>>

Shuffle(s, w) ==
    LET e == Effect(w)
        a == Take(stacks[s], e[1])
    IN  /\ Len(stacks[s]) >= e[1]
        /\ Put(s, Below(stacks[s], e[1]) \o [i \in DOMAIN e[2] |-> a[e[2][i]]])
        /\ UNCHANGED <<calls, status>>

PushLit(s, v) == Put(s, Append(stacks[s], v)) /\ UNCHANGED <<calls, status>>

\* pick and roll: the index counts from the top; past the bottom only it is consumed.
PickRoll(s, w) ==
    LET n == Last(stacks[s]).n
        q == Front(stacks[s])
        d == Len(q) - n
    IN  /\ stacks[s] # <<>> /\ Last(stacks[s]).k = "Int"
        /\ Put(s, IF n < 0 \/ d < 1 THEN q
                  ELSE Append(IF w = "roll" THEN Without(q, d) ELSE q, q[d]))
        /\ UNCHANGED <<calls, status>>

Apply(s, w) ==
    LET a == Take(stacks[s], Arity(w))
    IN  /\ Len(stacks[s]) >= Arity(w) /\ Fits(w, a)
        /\ \E r \in Results(w, a) : Put(s, Below(stacks[s], Arity(w)) \o r)
        /\ UNCHANGED <<calls, status>>

\* A combinator runs its quotation on a stack of its own for every element.
Enter(s, w) ==
    LET a == Take(stacks[s], Arity(w))
    IN  /\ Len(stacks[s]) >= Arity(w) /\ Fits(w, a)
        /\ calls' = [calls EXCEPT ![s] = Append(@,
               [kind |-> w, saved |-> Below(stacks[s], Arity(w)), subj |-> a[1], fn |-> Last(a),
                todo |-> DOMAIN a[1].items, at |-> 0, acc |-> Tail(Front(a)), out |-> <<>>])]
        /\ Put(s, <<>>)
        /\ UNCHANGED status

CallNext(s) ==
    LET c == Inner(s)
    IN  /\ Busy(s)
        /\ \E i \in c.todo :
             /\ c.subj.k = "Variant" => \A j \in c.todo : i <= j
             /\ calls' = [calls EXCEPT ![s][Len(calls[s])].at = i,
                                       ![s][Len(calls[s])].todo = @ \ {i},
                                       ![s][Len(calls[s])].acc = <<>>]
             /\ Put(s, c.acc \o (IF c.subj.k = "Map" THEN <<IntV(c.subj.keys[i])>> ELSE <<>>)
                       \o <<c.subj.items[i]>> \o Captures(c.fn))
        /\ UNCHANGED status

\* The quotation returns: its top value counts, anything below is drained.
Return(s) ==
    LET c == Inner(s)
        r == Last(stacks[s])
        takes == c.kind \notin {"list.each", "map.each"}
    IN  /\ calls[s] # <<>> /\ c.at # 0 /\ c.kind # "call"
        /\ takes => stacks[s] # <<>>
        /\ c.kind = "list.filter" => r.k = "Bool"
        /\ c.kind = "list.map" => r.k # "Map"
        /\ calls' = [calls EXCEPT ![s][Len(calls[s])] =
               [c EXCEPT !.at = 0,
                         !.acc = IF c.kind \in {"list.fold", "map.fold"} THEN <<r>> ELSE <<>>,
                         !.out = CASE c.kind = "list.map" -> Append(@, r)
                                   [] c.kind = "list.filter" /\ r.b -> Append(@, c.subj.items[c.at])
                                   [] OTHER -> @]]
        /\ Put(s, <<>>)
        /\ UNCHANGED status

Finish(s) ==
    LET c == Inner(s)
    IN  /\ Busy(s) /\ c.todo = {}
        /\ Put(s, c.saved \o c.acc \o (IF c.kind \in {"list.map", "list.filter"}
                                       THEN <<VariantV(c.subj.tag, c.out)>> ELSE <<>>))
        /\ calls' = [calls EXCEPT ![s] = Front(@)]
        /\ UNCHANGED status

\* call of a quotation or closure on the caller's own stack, and its end.
Call(s) ==
    /\ stacks[s] # <<>> /\ Last(stacks[s]).k \in {"Quotation", "Closure"}
    /\ Put(s, Front(stacks[s]) \o Captures(Last(stacks[s])))
    /\ calls' = [calls EXCEPT ![s] = Append(@, [kind |-> "call", fn |-> Last(stacks[s]), at |-> 1])]
    /\ UNCHANGED status

EndCall(s) ==
    /\ calls[s] # <<>> /\ Inner(s).kind = "call"
    /\ calls' = [calls EXCEPT ![s] = Front(@)]
    /\ UNCHANGED <<stacks, status>>

\* spawn: a quotation starts on a copy of the stack, a closure on its captures.
Spawn(s, t) ==
    LET q == Front(stacks[s])
        fn == Last(stacks[s])
    IN  /\ stacks[s] # <<>> /\ fn.k \in {"Quotation", "Closure"} /\ status[t] = "unborn"
        /\ stacks' = [stacks EXCEPT ![s] = Append(q, IntV(t)),
                                    ![t] = IF fn.k = "Closure" THEN fn.items ELSE q]
        /\ calls' = [calls EXCEPT ![t] = <<[kind |-> "call", fn |-> fn, at |-> 1]>>]
        /\ status' = [status EXCEPT ![t] = "ready"]

Exit(s) ==
    /\ calls[s] = <<>> /\ status' = [status EXCEPT ![s] = "exited"]
    /\ UNCHANGED <<stacks, calls>>

VInit ==
    /\ stacks = [s \in Strands |-> <<>>]
    /\ calls = [s \in Strands |-> <<>>]
    /\ status = [s \in Strands |-> IF s = 1 THEN "ready" ELSE "unborn"]

VNext ==
    \E s \in Strands :
        /\ status[s] = "ready"
        /\ \/ CallNext(s) \/ Finish(s)
           \/ /\ ~Busy(s)
              /\ \/ \E w \in Shuffles : Shuffle(s, w)
                 \/ \E v \in Lits : PushLit(s, v)
                 \/ \E w \in {"pick", "roll"} : PickRoll(s, w)
                 \/ \E w \in Words \ (Shuffles \cup Combinators \cup {"pick", "roll", "call", "spawn"}) :
                        Apply(s, w)
                 \/ \E w \in Combinators : Enter(s, w)
                 \/ Return(s) \/ Call(s) \/ EndCall(s) \/ Exit(s)
                 \/ \E t \in Strands : Spawn(s, t)

VSpec == VInit /\ [][VNext]_vvars
=============================================================================
