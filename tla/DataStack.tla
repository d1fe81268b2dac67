------------------------------ MODULE DataStack ------------------------------
(***************************************************************************)
(* The data stacks of crates/core/src/stack.rs and tagged_stack.rs, and    *)
(* the words of crates/runtime/src on lists, variants, maps, closures and  *)
(* quotations.  A slot is an inline Int or Bool or a counted reference to  *)
(* a boxed value; a variant and a closure's environment are counted cells  *)
(* below that box, shared when the value is copied; a map is owned by its  *)
(* value and copied with it.  Words change a cell in place when they are   *)
(* the only ones that hold it.                                             *)
(*                                                                         *)
(* Strands run on different threads: between two reference counter         *)
(* operations of one strand, others take theirs.  A word first looks       *)
(* whether it can work in place, then pops its operands one by one, and    *)
(* popping a shared box is to copy what is inside and then to let it go.   *)
(***************************************************************************)
EXTENDS Integers, Sequences, FiniteSets, SequencesExt

CONSTANTS Strands, Lits, Words, MaxDepth, MaxLen,
          Cells,       \* the heap cells there are, 1 .. n
          MaxLive      \* bound: cells in use when a word begins, at most n - 4

VARIABLES heap,    \* per cell: rc (0: free), tag, keys, items
          stk,     \* per strand, its slots
          cur,     \* per strand, the word under way: what it popped, what it still pops
          frames,  \* per strand, the calls under way
          status,
          stray    \* a slot outside the strand's stack was read

vars == <<heap, stk, cur, frames, status, stray>>

Ref(k, a) == [k |-> k, at |-> a]
Heaped(v) == "at" \in DOMAIN v
Dead == [rc |-> 0, tag |-> "", keys |-> <<>>, items |-> <<>>]
Idle == [word |-> "", fast |-> FALSE, need |-> 0, regs |-> <<>>, held |-> 0]
Root == 0    \* stands for no cell

-----------------------------------------------------------------------------
(* Cells.  Every operator takes the heap and gives the next one.           *)

FreeCells(h) == {a \in Cells : h[a].rc = 0}
NewCell(h) == CHOOSE a \in FreeCells(h) : \A b \in FreeCells(h) : a <= b
Store(h, tag, keys, items) ==
    [h EXCEPT ![NewCell(h)] = [rc |-> 1, tag |-> tag, keys |-> keys, items |-> items]]

Mentions(vs, a) == Cardinality({i \in DOMAIN vs : Heaped(vs[i]) /\ vs[i].at = a})

\* Arc::clone for every value of a sequence that holds no map.
CloneAll(h, vs) == [a \in Cells |-> [h[a] EXCEPT !.rc = @ + Mentions(vs, a)]]

CloneCounting(h, v) ==
    IF ~Heaped(v) THEN [h |-> h, v |-> v] ELSE [h |-> CloneAll(h, <<v>>), v |-> v]

\* Value::clone: a reference is counted, a map is copied with its entries.
Clone(h, v) ==
    IF ~Heaped(v) THEN [h |-> h, v |-> v]
    ELSE IF v.k = "Map"
    THEN LET m == h[v.at] IN
         [h |-> CloneAll(Store(h, m.tag, m.keys, m.items), m.items), v |-> Ref("Map", NewCell(h))]
    ELSE [h |-> CloneAll(h, <<v>>), v |-> v]

RECURSIVE DropAll(_, _)
DropAll(h, vs) ==
    IF vs = <<>> THEN h
    ELSE LET v == Head(vs) IN
         IF ~Heaped(v) THEN DropAll(h, Tail(vs))
         ELSE IF h[v.at].rc > 1 THEN DropAll([h EXCEPT ![v.at].rc = @ - 1], Tail(vs))
         ELSE DropAll([h EXCEPT ![v.at] = Dead], h[v.at].items \o Tail(vs))

\* value_to_stack_value and push: Int and Bool inline, anything else boxed.
push(h, q, v) ==
    IF v.k \in {"Int", "Bool"} THEN [h |-> h, q |-> Append(q, v)]
    ELSE [h |-> Store(h, "box", <<>>, <<v>>), q |-> Append(q, Ref("Ptr", NewCell(h)))]

PushAll(h, q, vs) == FoldLeft(LAMBDA m, v : push(m.h, m.q, v), [h |-> h, q |-> q], vs)

\* Clones of the given values, pushed one after the other.
PushClones(h, q, vs) ==
    FoldLeft(LAMBDA m, v : LET c == Clone(m.h, v) IN push(c.h, m.q, c.v), [h |-> h, q |-> q], vs)

Sole(h, a) == h[a].rc = 1

\* The value in a slot.
Val(h, slot) == IF slot.k = "Ptr" THEN h[slot.at].items[1] ELSE slot

\* heap_value_mut: a boxed value that nobody else holds.
HoldsBox(h, slot) == slot.k = "Ptr"

SoleBox(h, slot) == slot.k = "Ptr" /\ Sole(h, slot.at)

\* The immutable value that a slot or a value stands for, down to depth n.
RECURSIVE ReifyTo(_, _, _)
ReifyTo(h, v, n) ==
    IF ~Heaped(v) THEN v
    ELSE LET c == h[v.at]
             items == [i \in DOMAIN c.items |-> ReifyTo(h, c.items[i], n - 1)]
         IN  CASE n = 0 \/ c.rc = 0 -> [k |-> "Gone"]
               [] v.k = "Ptr" /\ n > 0 /\ c.rc > 0 -> items[1]
               [] v.k = "Variant" /\ n > 0 /\ c.rc > 0 -> [k |-> "Variant", tag |-> c.tag, items |-> items]
               [] v.k = "Map" /\ n > 0 /\ c.rc > 0 -> [k |-> "Map", keys |-> c.keys, items |-> items]
               [] v.k = "Closure" /\ n > 0 /\ c.rc > 0 -> [k |-> "Closure", items |-> items]

Reify(h, v) == ReifyTo(h, v, Cardinality(Cells) + 1)

ReifyAll(h, vs) == [i \in DOMAIN vs |-> Reify(h, vs[i])]

\* What the program sees: the slots and, while a word runs, what it has popped.
AbsStack(s) ==
    IF frames[s] # <<>> /\ frames[s][1].kind = "spawned"
    THEN ReifyAll(heap, heap[frames[s][1].fn.at].items)
    ELSE ReifyAll(heap, stk[s] \o cur[s].regs)

AbsFrame(f) ==
    IF f.kind \in {"call", "spawned"}
    THEN [kind |-> "call", fn |-> Reify(heap, f.fn), at |-> 1]
    ELSE [f EXCEPT !.saved = ReifyAll(heap, @), !.subj = Reify(heap, @), !.fn = Reify(heap, @),
                   !.acc = ReifyAll(heap, @), !.out = ReifyAll(heap, @)]

Abs == INSTANCE ValueStack WITH
    stacks <- [s \in Strands |-> AbsStack(s)],
    calls <- [s \in Strands |-> [i \in DOMAIN frames[s] |-> AbsFrame(frames[s][i])]]

-----------------------------------------------------------------------------
Take(q, n) == SubSeq(q, Len(q) - n + 1, Len(q))
Below(q, n) == SubSeq(q, 1, Len(q) - n)
Inner(s) == Last(frames[s])
Busy(s) == frames[s] # <<>> /\ Inner(s).at = 0
Ready(s) == status[s] = "ready" /\ cur[s] = Idle
Room == Cardinality(Cells \ FreeCells(heap)) <= MaxLive
\* STACK_BASE names the strand's own stack, never the one a combinator runs on.
OnOwnStack(s) == \A i \in DOMAIN frames[s] : frames[s][i].kind = "call"

\* The shuffles: the operands' slots left, the ones cloned and the ones dropped.
Operands(w) == CASE w \in {"dup", "drop"} -> 1 [] w = "rot" -> 3 [] OTHER -> 2

Left(w) ==
    CASE w = "dup" -> <<1, 1>>
      [] w = "drop" -> <<>>
      [] w = "swap" -> <<2, 1>>
      [] w = "over" -> <<1, 2, 1>>
      [] w = "rot" -> <<2, 3, 1>>
      [] w = "nip" -> <<2>>
      [] w = "tuck" -> <<2, 1, 2>>
      [] w = "2dup" -> <<1, 2, 1, 2>>

Cloned(w) ==
    CASE w \in {"dup", "over"} -> <<1>> [] w = "tuck" -> <<2>> [] w = "2dup" -> <<1, 2>> [] OTHER -> <<>>

Dropped(w) == IF w \in {"drop", "nip"} THEN <<1>> ELSE <<>>

Select(a, is) == [i \in DOMAIN is |-> a[is[i]]]

Shuffle(s, w) ==
    LET n == Operands(w)
        a == Take(stk[s], n)
        q == Below(stk[s], n) \o Select(a, Left(w))
    IN  /\ Len(stk[s]) >= n /\ Len(q) <= MaxDepth
        /\ heap' = DropAll(CloneAll(heap, Select(a, Cloned(w))), Select(a, Dropped(w)))
        /\ stk' = [stk EXCEPT ![s] = q]
        /\ UNCHANGED <<cur, frames, status, stray>>

PushLit(s, v) ==
    LET p == push(heap, stk[s], v)
    IN  /\ Len(stk[s]) < MaxDepth
        /\ heap' = p.h /\ stk' = [stk EXCEPT ![s] = p.q]
        /\ UNCHANGED <<cur, frames, status, stray>>

\* pick and roll: check_depth_for_index measures from STACK_BASE; roll by one or
\* two is a swap or a rot and does not measure.
PickRoll(s, w) ==
    LET n == Last(stk[s]).n
        q == Front(stk[s])
        d == Len(q) - n
        measured == w = "pick" \/ n > 2
    IN  /\ stk[s] # <<>> /\ Last(stk[s]).k = "Int"
        /\ IF n < 0 \/ (w = "roll" /\ n = 0) \/ (measured /\ OnOwnStack(s) /\ d < 1)
           THEN stk' = [stk EXCEPT ![s] = q] /\ UNCHANGED <<heap, stray>>
           ELSE IF d < 1
           THEN stray' = TRUE /\ UNCHANGED <<heap, stk>>
           ELSE /\ heap' = IF w = "pick" THEN CloneAll(heap, <<q[d]>>) ELSE heap
                /\ stk' = [stk EXCEPT ![s] =
                       Append(IF w = "pick" THEN q ELSE SubSeq(q, 1, d - 1) \o SubSeq(q, d + 1, Len(q)), q[d])]
                /\ UNCHANGED stray
        /\ UNCHANGED <<cur, frames, status>>

-----------------------------------------------------------------------------
(* A word that pops values.                                                *)

InPlaceBoxOnly(s, w) ==
    LET q == stk[s]
        box == q[Len(q) - Abs!Arity(w) + 1]
    IN  w \in {"list.push", "list.set", "map.set", "map.remove"} /\ SoleBox(heap, box)

\* The word may work in place: the container below the operands is its own.
InPlace(s, w) ==
    LET q == stk[s]
        box == q[Len(q) - Abs!Arity(w) + 1]
    IN  CASE w \in {"list.push", "list.set"} -> SoleBox(heap, box) /\ Sole(heap, Val(heap, box).at)
          [] w \in {"map.set", "map.remove"} -> SoleBox(heap, box)
          [] OTHER -> FALSE

Begin(s, w) ==
    LET n == Abs!Arity(w)
    IN  /\ Len(stk[s]) >= n /\ Abs!Fits(w, ReifyAll(heap, Take(stk[s], n)))
        /\ cur' = [cur EXCEPT ![s] = LET f == InPlace(s, w) IN
               [word |-> w, fast |-> f, need |-> IF f THEN n - 1 ELSE n, regs |-> <<>>, held |-> Root]]
        /\ UNCHANGED <<heap, stk, frames, status, stray>>

PopUncounted(s) ==
    LET slot == Last(stk[s])
        c == cur[s]
    IN  /\ c.need > 0 /\ c.held = Root
        /\ heap' = IF slot.k # "Ptr" THEN heap
                   ELSE IF Sole(heap, slot.at) THEN [heap EXCEPT ![slot.at] = Dead] ELSE heap
        /\ stk' = [stk EXCEPT ![s] = Front(@)]
        /\ cur' = [cur EXCEPT ![s].need = @ - 1, ![s].regs = <<Val(heap, slot)>> \o @,
                              ![s].held = IF slot.k = "Ptr" /\ ~Sole(heap, slot.at) THEN slot.at ELSE Root]
        /\ UNCHANGED <<frames, status, stray>>

PopTaking(s) ==
    LET slot == Last(stk[s])
    IN  /\ cur[s].need > 0 /\ cur[s].held = Root
        /\ heap' = IF slot.k = "Ptr" THEN [heap EXCEPT ![slot.at] = Dead] ELSE heap
        /\ stk' = [stk EXCEPT ![s] = Front(@)]
        /\ cur' = [cur EXCEPT ![s].need = @ - 1, ![s].regs = <<Val(heap, slot)>> \o @]
        /\ UNCHANGED <<frames, status, stray>>

\* pop: the only holder of a box takes the value out, any other copies it and
\* keeps the box until Release.
Pop(s) ==
    LET slot == Last(stk[s])
        c == cur[s]
        got == IF slot.k # "Ptr" THEN [h |-> heap, v |-> slot]
               ELSE IF Sole(heap, slot.at)
               THEN [h |-> [heap EXCEPT ![slot.at] = Dead], v |-> Val(heap, slot)]
               ELSE Clone(heap, Val(heap, slot))
    IN  /\ c.need > 0 /\ c.held = Root
        /\ heap' = got.h
        /\ stk' = [stk EXCEPT ![s] = Front(@)]
        /\ cur' = [cur EXCEPT ![s].need = @ - 1, ![s].regs = <<got.v>> \o @,
                              ![s].held = IF slot.k = "Ptr" /\ ~Sole(heap, slot.at) THEN slot.at ELSE Root]
        /\ UNCHANGED <<frames, status, stray>>

Release(s) ==
    /\ cur[s].held # Root
    /\ heap' = DropAll(heap, <<Ref("Ptr", cur[s].held)>>)
    /\ cur' = [cur EXCEPT ![s].held = Root]
    /\ UNCHANGED <<stk, frames, status, stray>>

CowInPlace(h, v, new, kept, gone) ==
    [h |-> DropAll([h EXCEPT ![v.at].items = new], gone), v |-> v]

\* Replace the fields of a variant: in place, or in a copy when it is shared.
\* new holds the fields kept and the operand; gone are the ones replaced.
Cow(h, v, new, kept, gone) ==
    IF Sole(h, v.at)
    THEN [h |-> DropAll([h EXCEPT ![v.at].items = new], gone), v |-> v]
    ELSE [h |-> DropAll(CloneAll(Store(h, h[v.at].tag, <<>>, new), kept), <<v>>),
          v |-> Ref("Variant", NewCell(h))]

RebuildInPlace(h, v, tag, items) == [h |-> [h EXCEPT ![v.at].items = items], out |-> <<v>>]

\* A new variant made of clones of some fields of an old one, which is dropped.
Rebuild(h, v, tag, items) ==
    [h |-> DropAll(CloneAll(Store(h, tag, <<>>, items), items), <<v>>),
     out |-> <<Ref("Variant", NewCell(h))>>]

\* Values read from a container, which is then dropped.
Read(h, v, items, more) == [h |-> DropAll(CloneAll(h, items), <<v>>), out |-> items \o more]

Kept(items, i) == SubSeq(items, 1, i - 1) \o SubSeq(items, i + 1, Len(items))

SetKeyAppends(h, m, n, v) == [h EXCEPT ![m.at].keys = Append(@, n), ![m.at].items = Append(@, v)]

SetKey(h, m, n, v) ==
    LET c == h[m.at]
        i == CHOOSE j \in DOMAIN c.keys : c.keys[j] = n
    IN  IF n \in Range(c.keys) THEN DropAll([h EXCEPT ![m.at].items[i] = v], <<c.items[i]>>)
        ELSE [h EXCEPT ![m.at].keys = Append(@, n), ![m.at].items = Append(@, v)]

RemoveKey(h, m, n) ==
    LET c == h[m.at]
        i == CHOOSE j \in DOMAIN c.keys : c.keys[j] = n
    IN  IF n \in Range(c.keys)
        THEN DropAll([h EXCEPT ![m.at].keys = Kept(@, i), ![m.at].items = Kept(@, i)], <<c.items[i]>>)
        ELSE h

\* The in-place end of a word: the container is still on the stack, in the top slot.
CompleteInPlace(s) ==
    LET c == cur[s]
        at == Val(heap, Last(stk[s])).at
        items == heap[at].items
        n == c.regs[1].n
        v == Last(c.regs)
        got == CASE c.word = "list.push" -> [h |-> [heap EXCEPT ![at].items = Append(@, v)], q |-> stk[s]]
                 [] c.word = "list.set" /\ n \in 0 .. Len(items) - 1 ->
                      push(DropAll([heap EXCEPT ![at].items[n + 1] = v], <<items[n + 1]>>),
                           stk[s], [k |-> "Bool", b |-> TRUE])
                 [] c.word = "list.set" /\ n \notin 0 .. Len(items) - 1 ->
                      push(DropAll(heap, <<v>>), stk[s], [k |-> "Bool", b |-> FALSE])
                 [] c.word = "map.set" -> [h |-> SetKey(heap, Ref("Map", at), n, v), q |-> stk[s]]
                 [] c.word = "map.remove" -> [h |-> RemoveKey(heap, Ref("Map", at), n), q |-> stk[s]]
    IN  /\ c.fast /\ c.need = 0 /\ c.held = Root
        /\ heap' = got.h /\ stk' = [stk EXCEPT ![s] = got.q]
        /\ cur' = [cur EXCEPT ![s] = Idle]
        /\ UNCHANGED <<frames, status, stray>>

\* The results of a word from its popped operands a: what it makes, moves and drops.
Bool(b) == [k |-> "Bool", b |-> b]
IntOf(n) == [k |-> "Int", n |-> n]
Missing == <<IntOf(0), Bool(FALSE)>>
Items(h, a) == h[a[1].at].items
Keys(h, a) == h[a[1].at].keys
Variant(h, tag, vs) == [h |-> Store(h, tag, <<>>, vs), out |-> <<Ref("Variant", NewCell(h))>>]
One(c, more) == [h |-> c.h, out |-> <<c.v>> \o more]

ListBasic(h, w, a) ==
    CASE w = "list.make" -> Variant(h, "List", <<>>)
      [] w = "list.push" -> One(Cow(h, a[1], Append(Items(h, a), a[2]), Items(h, a), <<>>), <<>>)
      [] w = "list.reverse" -> Rebuild(h, a[1], h[a[1].at].tag, Reverse(Items(h, a)))
      [] w = "list.length" -> Read(h, a[1], <<>>, <<IntOf(Len(Items(h, a)))>>)
      [] w = "list.empty?" -> Read(h, a[1], <<>>, <<Bool(Items(h, a) = <<>>)>>)

ListGet(h, a) ==
    IF a[2].n \in 0 .. Len(Items(h, a)) - 1
    THEN Read(h, a[1], <<Items(h, a)[a[2].n + 1]>>, <<Bool(TRUE)>>)
    ELSE Read(h, a[1], <<>>, Missing)

ListSet(h, a) ==
    LET i == a[2].n + 1
        items == Items(h, a)
    IN  IF i \in DOMAIN items
        THEN One(Cow(h, a[1], [items EXCEPT ![i] = a[3]], Kept(items, i), <<items[i]>>), <<Bool(TRUE)>>)
        ELSE [h |-> DropAll(h, <<a[3]>>), out |-> <<a[1], Bool(FALSE)>>]

ListEndpoint(h, w, a) ==
    LET items == Items(h, a)
    IN  IF items = <<>> THEN Read(h, a[1], <<>>, Missing)
        ELSE Read(h, a[1], <<IF w = "list.first" THEN items[1] ELSE Last(items)>>, <<Bool(TRUE)>>)

MakeVariant(h, a) == Variant(h, Last(a).s, Front(a))

VariantTag(h, a) == Read(h, a[1], <<>>, <<[k |-> "Symbol", s |-> h[a[1].at].tag]>>)
VariantInit(h, a) == Rebuild(h, a[1], h[a[1].at].tag, Front(Items(h, a)))
VariantUnpack(h, a) == Read(h, a[1], Items(h, a), <<>>)

MapRead(h, w, a) ==
    LET key == CHOOSE j \in DOMAIN Keys(h, a) : Keys(h, a)[j] = a[2].n
        has == a[2].n \in Range(Keys(h, a))
    IN  CASE w = "map.size" -> Read(h, a[1], <<>>, <<IntOf(Len(Items(h, a)))>>)
          [] w = "map.has?" -> Read(h, a[1], <<>>, <<Bool(has)>>)
          [] w = "map.get" -> IF has THEN Read(h, a[1], <<Items(h, a)[key]>>, <<Bool(TRUE)>>)
                              ELSE Read(h, a[1], <<>>, Missing)

MapChange(h, w, a) ==
    CASE w = "map.make" -> [h |-> Store(h, "map", <<>>, <<>>), out |-> <<Ref("Map", NewCell(h))>>]
      [] w = "map.set" -> [h |-> SetKey(h, a[1], a[2].n, a[3]), out |-> <<a[1]>>]
      [] w = "map.remove" -> [h |-> RemoveKey(h, a[1], a[2].n), out |-> <<a[1]>>]

\* The order of a HashMap's entries is any.
MapList(h, w, a) ==
    LET keys == Keys(h, a)
        all == IF w = "map.values" THEN Items(h, a) ELSE [i \in DOMAIN keys |-> IntOf(keys[i])]
    IN  {Rebuild(h, a[1], "List", o) : o \in Abs!Orders(all)}

MakeClosure(h, a) == [h |-> Store(h, "env", <<>>, a), out |-> <<Ref("Closure", NewCell(h))>>]

Results(h, w, a) ==
    CASE w \in {"list.make", "list.push", "list.reverse", "list.length", "list.empty?"} -> {ListBasic(h, w, a)}
      [] w = "list.get" -> {ListGet(h, a)}
      [] w = "list.set" -> {ListSet(h, a)}
      [] w \in {"list.first", "list.last"} -> {ListEndpoint(h, w, a)}
      [] w \in {"variant.make-0", "variant.make-1", "variant.make-2"} -> {MakeVariant(h, a)}
      [] w = "variant.tag" -> {VariantTag(h, a)}
      [] w = "variant.init" -> {VariantInit(h, a)}
      [] w = "variant.unpack" -> {VariantUnpack(h, a)}
      [] w \in {"map.size", "map.has?", "map.get"} -> {MapRead(h, w, a)}
      [] w \in {"map.make", "map.set", "map.remove"} -> {MapChange(h, w, a)}
      [] w \in {"map.keys", "map.values"} -> MapList(h, w, a)
      [] w \in {"closure-1", "closure-2"} -> {MakeClosure(h, a)}

Popped(s) == ~cur[s].fast /\ cur[s].word # "" /\ cur[s].need = 0 /\ cur[s].held = Root

Complete(s) ==
    /\ Popped(s)
    /\ cur[s].word \notin Abs!Combinators \cup {"call", "spawn", "return"}
    /\ \E r \in Results(heap, cur[s].word, cur[s].regs) :
         LET p == PushAll(r.h, stk[s], r.out)
         IN  heap' = p.h /\ stk' = [stk EXCEPT ![s] = p.q]
    /\ cur' = [cur EXCEPT ![s] = Idle]
    /\ UNCHANGED <<frames, status, stray>>

-----------------------------------------------------------------------------
(* Words that call a quotation.  The combinators run it on a stack of its  *)
(* own, a new one for every element, which is drained and abandoned.       *)

EnvNone(fn) == <<>>

Env(fn) == IF fn.k = "Closure" THEN heap[fn.at].items ELSE <<>>

Enter(s) ==
    LET c == cur[s]
        a == c.regs
    IN  /\ Popped(s) /\ c.word \in Abs!Combinators
        /\ frames' = [frames EXCEPT ![s] = Append(@,
               [kind |-> c.word, saved |-> stk[s], subj |-> a[1], fn |-> Last(a),
                todo |-> DOMAIN heap[a[1].at].items, at |-> 0, acc |-> Tail(Front(a)), out |-> <<>>])]
        /\ stk' = [stk EXCEPT ![s] = <<>>]
        /\ cur' = [cur EXCEPT ![s] = Idle]
        /\ UNCHANGED <<heap, status, stray>>

CallNext(s) ==
    LET f == Inner(s)
        c == heap[f.subj.at]
    IN  /\ Busy(s) /\ f.kind \in Abs!Combinators
        /\ \E i \in f.todo :
             /\ f.subj.k = "Variant" => \A j \in f.todo : i <= j
             /\ frames' = [frames EXCEPT ![s][Len(frames[s])].at = i,
                                         ![s][Len(frames[s])].todo = @ \ {i},
                                         ![s][Len(frames[s])].acc = <<>>]
             /\ LET key == IF f.subj.k = "Map" THEN <<[k |-> "Int", n |-> c.keys[i]]>> ELSE <<>>
                    moved == PushAll(heap, <<>>, f.acc \o key)
                    p == PushClones(moved.h, moved.q, <<c.items[i]>> \o Env(f.fn))
                IN  heap' = p.h /\ stk' = [stk EXCEPT ![s] = p.q]
        /\ UNCHANGED <<cur, status, stray>>

\* The quotation has returned: its result is popped by the combinator.
BeginReturn(s) ==
    LET f == Inner(s)
        n == IF f.kind \in {"list.each", "map.each"} THEN 0 ELSE 1
        v == Val(heap, Last(stk[s]))
    IN  /\ frames[s] # <<>> /\ f.at # 0 /\ f.kind \in Abs!Combinators
        /\ Len(stk[s]) >= n
        /\ f.kind = "list.filter" => v.k = "Bool"
        /\ f.kind = "list.map" => v.k # "Map"
        /\ cur' = [cur EXCEPT ![s] =
               [word |-> "return", fast |-> FALSE, need |-> n, regs |-> <<>>, held |-> Root]]
        /\ UNCHANGED <<heap, stk, frames, status, stray>>

\* drain_stack_to_base
DrainNothing(h, q) == h

Drain(h, q) == DropAll(h, q)

CompleteReturn(s) ==
    LET f == Inner(s)
        r == cur[s].regs
        kept == f.kind = "list.filter" /\ r[1].b
        item == heap[f.subj.at].items[f.at]
    IN  /\ Popped(s) /\ cur[s].word = "return"
        /\ heap' = Drain(IF kept THEN CloneAll(heap, <<item>>) ELSE heap, stk[s])
        /\ frames' = [frames EXCEPT ![s][Len(frames[s])] =
               [f EXCEPT !.at = 0,
                         !.acc = IF f.kind \in {"list.fold", "map.fold"} THEN r ELSE <<>>,
                         !.out = CASE f.kind = "list.map" -> Append(@, r[1])
                                   [] kept -> Append(@, item)
                                   [] OTHER -> @]]
        /\ stk' = [stk EXCEPT ![s] = <<>>]
        /\ cur' = [cur EXCEPT ![s] = Idle]
        /\ UNCHANGED <<status, stray>>

\* All elements done: the result is pushed, the container and the callable dropped.
Finish(s) ==
    LET f == Inner(s)
        makes == f.kind \in {"list.map", "list.filter"}
        made == IF makes THEN Store(heap, heap[f.subj.at].tag, <<>>, f.out) ELSE heap
        p == PushAll(DropAll(made, <<f.subj, f.fn>>), f.saved,
                     IF makes THEN <<Ref("Variant", NewCell(heap))>> ELSE f.acc)
    IN  /\ Busy(s) /\ f.kind \in Abs!Combinators /\ f.todo = {}
        /\ heap' = p.h /\ stk' = [stk EXCEPT ![s] = p.q]
        /\ frames' = [frames EXCEPT ![s] = Front(@)]
        /\ UNCHANGED <<cur, status, stray>>

\* patch_seq_call, and the body's prologue that pushes clones of the captures.
Call(s) ==
    LET fn == cur[s].regs[1]
        p == PushClones(heap, stk[s], Env(fn))
    IN  /\ Popped(s) /\ cur[s].word = "call"
        /\ heap' = p.h /\ stk' = [stk EXCEPT ![s] = p.q]
        /\ frames' = [frames EXCEPT ![s] = Append(@, [kind |-> "call", fn |-> fn, at |-> 1])]
        /\ cur' = [cur EXCEPT ![s] = Idle]
        /\ UNCHANGED <<status, stray>>

EndCall(s) ==
    /\ frames[s] # <<>> /\ Inner(s).kind = "call"
    /\ heap' = DropAll(heap, <<Inner(s).fn>>)
    /\ frames' = [frames EXCEPT ![s] = Front(@)]
    /\ UNCHANGED <<stk, cur, status, stray>>

\* clone_stack_with_base
SharedSlots(h, q) == h

CloneSlots(h, q) == CloneAll(h, q)

\* patch_seq_spawn: a quotation gets a copy of the stack above STACK_BASE; a
\* closure's captures go to the registry, where the trampoline finds them.
Spawn(s, t) ==
    LET fn == cur[s].regs[1]
        boxed == CloneAll(Store(heap, "env", <<>>, Env(fn)), Env(fn))
    IN  /\ Popped(s) /\ cur[s].word = "spawn" /\ status[t] = "unborn"
        /\ IF fn.k = "Closure"
           THEN /\ heap' = DropAll(boxed, <<fn>>)
                /\ stk' = [stk EXCEPT ![s] = Append(@, [k |-> "Int", n |-> t])]
                /\ frames' = [frames EXCEPT ![t] =
                       <<[kind |-> "spawned", fn |-> Ref("Closure", NewCell(heap)), at |-> 0]>>]
                /\ UNCHANGED stray
           ELSE /\ heap' = CloneSlots(heap, stk[s])
                /\ stk' = [stk EXCEPT ![s] = Append(@, [k |-> "Int", n |-> t]), ![t] = stk[s]]
                /\ frames' = [frames EXCEPT ![t] = <<[kind |-> "call", fn |-> fn, at |-> 1]>>]
                /\ stray' = (stray \/ ~OnOwnStack(s))
        /\ status' = [status EXCEPT ![t] = "ready"]
        /\ cur' = [cur EXCEPT ![s] = Idle]

\* closure_spawn_trampoline: the entry leaves the registry and the closure runs.
Trampoline(s) ==
    LET p == PushClones(heap, <<>>, Env(Inner(s).fn))
    IN  /\ frames[s] # <<>> /\ Inner(s).kind = "spawned"
        /\ heap' = p.h /\ stk' = [stk EXCEPT ![s] = p.q]
        /\ frames' = [frames EXCEPT ![s][1].kind = "call", ![s][1].at = 1]
        /\ UNCHANGED <<cur, status, stray>>

\* The end of a strand: free_stack leaves the stack and what is on it.
Exit(s) ==
    /\ frames[s] = <<>>
    /\ status' = [status EXCEPT ![s] = "exited"]
    /\ UNCHANGED <<heap, stk, cur, frames, stray>>

-----------------------------------------------------------------------------
Init ==
    /\ heap = [a \in Cells |-> Dead]
    /\ stk = [s \in Strands |-> <<>>]
    /\ cur = [s \in Strands |-> Idle]
    /\ frames = [s \in Strands |-> <<>>]
    /\ status = [s \in Strands |-> IF s = 1 THEN "ready" ELSE "unborn"]
    /\ stray = FALSE

\* A strand between two words starts the next one; the bounds are its guards.
Start(s) ==
    /\ Ready(s) /\ Room /\ ~Busy(s) /\ ~stray
    /\ \/ \E w \in Words \cap Abs!Shuffles : Shuffle(s, w)
       \/ \E v \in Lits : PushLit(s, v)
       \/ \E w \in Words \cap {"pick", "roll"} : PickRoll(s, w)
       \/ \E w \in Words \ (Abs!Shuffles \cup {"pick", "roll"}) :
            /\ w \in Abs!Combinators \cup {"call"} => Len(frames[s]) < 1
            /\ w \in {"list.make", "map.make", "variant.unpack"} => Len(stk[s]) < MaxDepth
            /\ w = "spawn" => \E t \in Strands : status[t] = "unborn"
            /\ Begin(s, w)
       \/ BeginReturn(s) \/ EndCall(s) \/ Exit(s)

Continue(s) ==
    \/ Pop(s) \/ Release(s) \/ Complete(s) \/ CompleteInPlace(s)
    \/ Enter(s) \/ CompleteReturn(s) \/ Call(s)
    \/ \E t \in Strands : Spawn(s, t)

Loop(s) == Ready(s) /\ Room /\ (CallNext(s) \/ Finish(s) \/ Trampoline(s))

Next == \E s \in Strands : Start(s) \/ Continue(s) \/ Loop(s)

Spec == Init /\ [][Next]_vars

-----------------------------------------------------------------------------
(* Properties.                                                             *)

\* Every value a strand, a call under way or another cell holds.
FrameHolds(f) == IF f.kind \in {"call", "spawned"} THEN <<f.fn>>
                 ELSE f.saved \o <<f.subj, f.fn>> \o f.acc \o f.out

Holds(s) ==
    stk[s] \o cur[s].regs \o (IF cur[s].held = Root THEN <<>> ELSE <<Ref("Ptr", cur[s].held)>>)
    \o FlattenSeq([i \in DOMAIN frames[s] |-> FrameHolds(frames[s][i])])

\* The cell a reference is to is alive and of its kind: nothing is freed or
\* reused under a holder, and a word finds what its operands promise.
TypeOK ==
    LET tagOf == [Ptr |-> {"box"}, Map |-> {"map"}, Closure |-> {"env"}, Variant |-> {"List", "T"}]
        Sound(v) == Heaped(v) => heap[v.at].rc > 0 /\ heap[v.at].tag \in tagOf[v.k]
    IN  /\ \A s \in Strands : \A i \in DOMAIN Holds(s) : Sound(Holds(s)[i])
        /\ \A a \in Cells : \A i \in DOMAIN heap[a].items : Sound(heap[a].items[i])
        /\ \A a \in Cells : heap[a].rc \in Nat /\ (heap[a].rc = 0 => heap[a] = Dead)

RECURSIVE SumOver(_, _)
SumOver(f, S) == IF S = {} THEN 0 ELSE LET x == CHOOSE y \in S : TRUE IN f[x] + SumOver(f, S \ {x})

Holders(a) ==
    SumOver([s \in Strands |-> Mentions(Holds(s), a)], Strands)
    + SumOver([b \in Cells |-> Mentions(heap[b].items, a)], Cells)

\* A reference counter counts the holders, whatever two strands do between the
\* steps of a pop: no cell is freed under a holder, freed twice or left behind.
CountsExact == \A a \in Cells : heap[a].rc = Holders(a)

\* Words that change a cell in place never make a value contain itself.
RECURSIVE Reaches(_, _, _)
Reaches(a, b, n) ==
    n > 0 /\ \E i \in DOMAIN heap[a].items :
        LET v == heap[a].items[i] IN Heaped(v) /\ (v.at = b \/ Reaches(v.at, b, n - 1))

NoCycle == \A a \in Cells : ~Reaches(a, a, Cardinality(Cells))

\* A map belongs to one value only.
MapsOwned == \A a \in Cells : heap[a].tag = "map" => heap[a].rc = 1

\* The heap of values is sound: what a slot points to is alive and of its kind,
\* counts are exact, so nothing is freed while held or leaked when dropped, maps
\* have one owner, and no value contains itself, which counting could not free.
HeapSound == TypeOK /\ CountsExact /\ MapsOwned /\ NoCycle

\* Nothing a strand computes, in place or in a copy, is seen by another value or
\* another strand: the stacks behave as stacks of immutable values.
Immutable == Abs!VSpec

\* pick, roll and spawn reach no slot outside the stack they run on.
WithinStack == ~stray

\* When a strand has exited, nothing holds a cell for it any more.
ExitDrops ==
    \A a \in Cells : heap[a].rc > 0 =>
        \E s \in Strands : status[s] # "exited" /\
            \E i \in DOMAIN Holds(s) : LET v == Holds(s)[i] IN
                Heaped(v) /\ (v.at = a \/ Reaches(v.at, a, Cardinality(Cells)))
=============================================================================
