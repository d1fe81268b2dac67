----------------------------------- MODULE Emit -----------------------------------
(***************************************************************************)
(* The compiler's back end, from a type-checked word to LLVM functions.     *)
(*                                                                          *)
(* What is kept of the emitted code is its control: for every function the  *)
(* edges between its basic blocks, the predecessors its phi nodes name, and *)
(* whether the block being written has its terminator.  What is kept of the *)
(* generator is the state its decisions read: the tail position, the        *)
(* closure and main flags, the flags about the previous statement, the      *)
(* statement index and depth that guard the type lookups, and the aux       *)
(* stack pointer.  Beside it runs the typing of the program (t), which says *)
(* what is really on the stack where a decision is taken.  A decision that  *)
(* turns out wrong is recorded among the faults.                            *)
(*                                                                          *)
(* A program is written one statement at a time and compiled whenever it    *)
(* has the declared effect.                                                 *)
(***************************************************************************)
EXTENDS Integers, Sequences, SequencesExt, FiniteSets

CONSTANTS
    Statements,  \* the statements a body is written from
    Fields,      \* the union: variant name -> types of its fields
    Ins, Outs,   \* the declared effect of the word
    IsMain,      \* whether the word is main
    LoopOpt,     \* whether loop lowering is enabled
    MaxLength    \* bound on the statements of the body

VARIABLES body, out

vars == <<body, out>>

-----------------------------------------------------------------------------
(***************************************************************************)
(* The typing.  A slot is its type and, when it is known, the literal in    *)
(* it (n, else -1) or the effect of the quotation in it.                    *)
(***************************************************************************)
NoEffect == [ins |-> <<>>, outs |-> <<>>]
Slot(type) == [t |-> type, n |-> -1, q |-> NoEffect]
Slots(types) == [i \in DOMAIN types |-> Slot(types[i])]
TypesOf(slots) == [i \in DOMAIN slots |-> slots[i].t]
Typing(slots) == [st |-> slots, aux |-> <<>>, ok |-> TRUE]
IllTyped(t) == [t EXCEPT !.ok = FALSE]

Depth(t) == Len(t.st)
TopOf(t) == t.st[Depth(t)]
Holds(t, types) ==
    Depth(t) >= Len(types) /\ TypesOf(SubSeq(t.st, Depth(t) - Len(types) + 1, Depth(t))) = types
Popped(t, n) == [t EXCEPT !.st = SubSeq(@, 1, Len(@) - n)]
PushedOn(t, slots) == [t EXCEPT !.st = @ \o slots]
Applied(t, ins, outs) ==
    IF Holds(t, ins) THEN PushedOn(Popped(t, Len(ins)), Slots(outs)) ELSE IllTyped(t)

(* An arm takes the variant and pushes the fields it binds, in order.       *)
Bindings(t, of) == PushedOn(Popped(t, 1), Slots(Fields[of]))

(***************************************************************************)
(* The builtins with a fixed effect.  peek stands for any builtin that asks *)
(* a heap value a question, run for a combinator that takes a quotation.    *)
(***************************************************************************)
FixedEffect ==
    [add |-> <<<<"Int", "Int">>, <<"Int">>>>, less |-> <<<<"Int", "Int">>, <<"Bool">>>>,
     div |-> <<<<"Int", "Int">>, <<"Int", "Bool">>>>, mod |-> <<<<"Int", "Int">>, <<"Int", "Bool">>>>,
     negate |-> <<<<"Int">>, <<"Int">>>>, not |-> <<<<"Bool">>, <<"Bool">>>>,
     peek |-> <<<<"Heap">>, <<"Heap", "Bool">>>>, length |-> <<<<"Heap">>, <<"Int">>>>,
     wrap |-> <<<<"Heap">>, <<"Var">>>>, run |-> <<<<"Quot">>, <<>>>>]

OpEffect(t, op) ==
    CASE op \in DOMAIN FixedEffect -> Applied(t, FixedEffect[op][1], FixedEffect[op][2])
      [] op = "dup" -> IF Depth(t) >= 1 THEN PushedOn(t, <<TopOf(t)>>) ELSE IllTyped(t)
      [] op = "drop" -> IF Depth(t) >= 1 THEN Popped(t, 1) ELSE IllTyped(t)
      [] op = "threedrop" -> IF Depth(t) >= 3 THEN Popped(t, 3) ELSE IllTyped(t)
      [] op = "swap" -> IF Depth(t) >= 2
                        THEN PushedOn(Popped(t, 2), <<TopOf(t), t.st[Depth(t) - 1]>>)
                        ELSE IllTyped(t)
      [] op = "pick" -> IF Depth(t) >= 1 /\ TopOf(t).n \in 0 .. Depth(t) - 2
                        THEN PushedOn(Popped(t, 1), <<t.st[Depth(t) - 1 - TopOf(t).n]>>)
                        ELSE IllTyped(t)
      [] op = ">aux" -> IF Depth(t) >= 1
                        THEN [Popped(t, 1) EXCEPT !.aux = Append(@, TopOf(t))]
                        ELSE IllTyped(t)
      [] op = "aux>" -> IF t.aux # <<>>
                        THEN [PushedOn(t, <<Last(t.aux)>>) EXCEPT !.aux = Front(@)]
                        ELSE IllTyped(t)

(***************************************************************************)
(* Two branches meet with the same types on both stacks.                    *)
(***************************************************************************)
Meet(a, b) ==
    IF a.ok /\ b.ok /\ TypesOf(a.st) = TypesOf(b.st) /\ TypesOf(a.aux) = TypesOf(b.aux)
    THEN [a EXCEPT !.st = [i \in DOMAIN a.st |-> IF a.st[i].n = b.st[i].n
                                                 THEN a.st[i] ELSE [a.st[i] EXCEPT !.n = -1]]]
    ELSE IllTyped(a)

RECURSIVE Effect(_, _)
BodyEffect(t, stmts) == FoldLeft(Effect, t, stmts)

Effect(t, s) ==
    IF ~t.ok THEN t ELSE
    CASE s.k = "int" -> PushedOn(t, <<[Slot("Int") EXCEPT !.n = s.n]>>)
      [] s.k = "bool" -> PushedOn(t, <<Slot("Bool")>>)
      [] s.k = "str" -> PushedOn(t, <<Slot("Heap")>>)
      [] s.k = "op" -> OpEffect(t, s.op)
      [] s.k = "word" -> Applied(t, s.ins, s.outs)
      [] s.k = "self" -> Applied(t, Ins, Outs)
      [] s.k = "call" -> IF Holds(t, <<"Quot">>)
                         THEN Applied(Popped(t, 1), TopOf(t).q.ins, TopOf(t).q.outs)
                         ELSE IllTyped(t)
      [] s.k = "if" ->
            IF Holds(t, <<"Bool">>)
            THEN Meet(BodyEffect(Popped(t, 1), s.then),
                      IF s.has THEN BodyEffect(Popped(t, 1), s.else) ELSE Popped(t, 1))
            ELSE IllTyped(t)
      [] s.k = "quot" ->
            LET inner == BodyEffect(Typing(Slots(s.ins \o s.caps)), s.body)
            IN  IF inner.ok /\ inner.aux = <<>> /\ Holds(t, s.caps)
                THEN PushedOn(Popped(t, Len(s.caps)),
                              <<[Slot("Quot") EXCEPT !.q = [ins |-> s.ins,
                                                            outs |-> TypesOf(inner.st)]]>>)
                ELSE IllTyped(t)
      [] s.k = "match" ->
            IF Holds(t, <<"Var">>)
            THEN LET Arm(i) == BodyEffect(Bindings(t, s.arms[i].of),
                                          s.arms[i].body)
                 IN  FoldLeft(LAMBDA a, i : Meet(a, Arm(i)), Arm(1), [i \in DOMAIN s.arms |-> i])
            ELSE IllTyped(t)

-----------------------------------------------------------------------------
(***************************************************************************)
(* Writing instructions.  fn is [cc, params] of the function being written, *)
(* cur its current block, open whether that block still lacks a terminator. *)
(***************************************************************************)
Fault(g, what) == [g EXCEPT !.faults = @ \cup {what}]
FaultIf(g, wrong, what) == IF wrong THEN Fault(g, what) ELSE g
Write(g) == FaultIf(g, ~g.open, "dead")
Label(g, block) == [FaultIf(g, g.open, "open") EXCEPT !.cur = block, !.open = TRUE]
Branches(g, targets) ==
    [Write(g) EXCEPT !.edges = @ \cup {<<g.cur, b>> : b \in targets}, !.open = FALSE]
Ret(g) == [Write(g) EXCEPT !.open = FALSE]
Phi(g, preds) == [Write(g) EXCEPT !.phis = @ \cup {[at |-> g.cur, preds |-> preds]}]
Fresh(g, n) == [g EXCEPT !.next = @ + n]
Musttail(g) == FaultIf(Write(g), g.fn.cc # "tailcc" \/ g.fn.params # 1, "musttail")
EndFunction(g) ==
    [FaultIf(g, g.open, "open") EXCEPT !.done = Append(@, [edges |-> g.edges, phis |-> g.phis])]
NewFunction(g, fn) ==
    [g EXCEPT !.fn = fn, !.edges = {}, !.phis = {}, !.cur = 0, !.open = TRUE]

-----------------------------------------------------------------------------
(***************************************************************************)
(* The decisions.                                                           *)
(***************************************************************************)
NoTcoInMain(g) == g.inMain

NoTcoInClosure(g) == g.inClosure

NoTco(g) == g.inClosure \/ g.inMain


(***************************************************************************)
(* BUILTIN_SYMBOLS has no entry for these, which only exist inlined.        *)
(***************************************************************************)
InlineOnly == {"threedrop", "negate", ">aux", "aux>"}

RECURSIVE WillEmitEither(_, _)
WillEmitEither(g, s) ==
    IF NoTco(g) THEN FALSE ELSE
    CASE s.k \in {"word", "self", "call"} -> TRUE
      [] s.k = "op" -> s.op \in InlineOnly
      [] s.k = "if" -> \/ s.then # <<>> /\ WillEmitEither(g, Last(s.then))
                       \/ s.has /\ s.else # <<>> /\ WillEmitEither(g, Last(s.else))
      [] OTHER -> FALSE

RECURSIVE WillEmitAnywhere(_, _)
WillEmitAnywhere(g, s) ==
    CASE s.k \in {"word", "self", "call"} -> TRUE
      [] s.k = "op" -> s.op \in InlineOnly
      [] s.k = "if" -> /\ s.then # <<>> /\ WillEmitAnywhere(g, Last(s.then))
                       /\ s.has /\ s.else # <<>> /\ WillEmitAnywhere(g, Last(s.else))
      [] OTHER -> FALSE

RECURSIVE WillEmitWords(_, _)
WillEmitWords(g, s) ==
    IF NoTco(g) THEN FALSE ELSE
    CASE s.k \in {"word", "self"} -> TRUE
      [] s.k = "op" -> s.op \in InlineOnly
      [] s.k = "if" -> /\ s.then # <<>> /\ WillEmitWords(g, Last(s.then))
                       /\ s.has /\ s.else # <<>> /\ WillEmitWords(g, Last(s.else))
      [] OTHER -> FALSE

RECURSIVE WillEmitTailCall(_, _)
WillEmitTailCall(g, s) ==
    IF NoTco(g) THEN FALSE ELSE
    CASE s.k \in {"word", "self", "call"} -> TRUE
      [] s.k = "op" -> s.op \in InlineOnly
      [] s.k = "if" -> /\ s.then # <<>> /\ WillEmitTailCall(g, Last(s.then))
                       /\ s.has /\ s.else # <<>> /\ WillEmitTailCall(g, Last(s.else))
      [] OTHER -> FALSE

Foreseen(g, stmts, tail) == tail /\ stmts # <<>> /\ WillEmitTailCall(g, Last(stmts))

Copyable(type) == type \in {"Int", "Bool"}

CopyableAnywhere(g) ==
    g.word /\ g.idx \in DOMAIN g.tops /\ Copyable(g.tops[g.idx])

CopyableHere(g) ==
    g.depth <= 1 /\ g.word /\ g.idx \in DOMAIN g.tops /\ Copyable(g.tops[g.idx])

(***************************************************************************)
(* The inlined words; the rest of the builtins are one call instruction.    *)
(***************************************************************************)
EmitOp(g, op) ==
    LET fast == g.trivial \/ CopyableHere(g)
        wrongCopy == op = "dup" /\ fast /\ ~Copyable(TopOf(g.t).t)
        wrongIndex == op = "pick" /\ g.lit >= 0 /\ g.lit # TopOf(g.t).n
        wrongAux == op \in {">aux", "aux>"} /\ g.auxSp # Len(g.t.aux)
        h == FaultIf(FaultIf(FaultIf(Write(g), wrongCopy, "copy"), wrongIndex, "index"),
                     wrongAux, "aux")
    IN  [h EXCEPT !.auxSp = CASE op = ">aux" -> @ + 1
                              [] op = "aux>" -> IF @ = 0 THEN 0 ELSE @ - 1
                              [] OTHER -> @]

CallWord(g, tail) == IF tail /\ ~NoTco(g) THEN Ret(Musttail(g)) ELSE Write(g)

(***************************************************************************)
(* call in tail position: a quotation is musttail-called, a closure called. *)
(***************************************************************************)
CallQuotation(g, tail) ==
    IF ~tail \/ NoTco(g) THEN Write(g)
    ELSE LET quot == g.next
             closure == g.next + 1
             h == Branches(Fresh(g, 2), {quot, closure})
         IN  Ret(Label(Ret(Musttail(Label(h, quot))), closure))

-----------------------------------------------------------------------------
RECURSIVE EmitStatement(_, _, _)

(***************************************************************************)
(* One branch of an if, or one arm of a match, added to the ones before it: *)
(* [g, whether all of them are foreseen to return, preds of the merge].     *)
(***************************************************************************)
LandingUnnamed(g, merge) ==
    LET end == g.next
    IN  [g |-> Branches(Label(Branches(Fresh(g, 1), {end}), end), {merge}), pred |-> g.cur]

Landing(g, merge) ==
    LET end == g.next
    IN  [g |-> Branches(Label(Branches(Fresh(g, 1), {end}), end), {merge}), pred |-> end]

LeaveBranch(g, outer) == [g EXCEPT !.depth = outer.depth, !.auxSp = outer.auxSp]

NoBranch(g) == [g |-> g, foreseen |-> TRUE, preds |-> {}]

FallThrough(acc, g, merge) ==
    LET land == Landing(g, merge)
    IN  [g |-> LeaveBranch(land.g, acc.g), foreseen |-> FALSE, preds |-> acc.preds \cup {land.pred}]

LastOfBranch(acc, g, stmts, tail, merge) ==
    IF Foreseen(g, stmts, tail)
    THEN [acc EXCEPT !.g = LeaveBranch(EmitStatement(g, Last(stmts), tail), @)]
    ELSE FallThrough(acc, IF stmts = <<>> THEN g ELSE EmitStatement(g, Last(stmts), tail), merge)

EmitBranch(acc, stmts, tail, merge) ==
    LET enter == [acc.g EXCEPT !.depth = @ + 1]
    IN  LastOfBranch(acc, IF stmts = <<>> THEN enter
                          ELSE FoldLeft(LAMBDA h, s : EmitStatement(h, s, FALSE), enter, Front(stmts)),
                     stmts, tail, merge)

Merge(acc, merge) == IF acc.foreseen THEN acc.g ELSE Phi(Label(acc.g, merge), acc.preds)

EmitElse(acc, s, tail, merge) ==
    IF s.has THEN EmitBranch(acc, s.else, tail, merge) ELSE FallThrough(acc, acc.g, merge)

EmitIf(g, s, tail) ==
    LET then == g.next
        else == g.next + 1
        merge == g.next + 2
        popped == Popped(g.t, 1)
        start == [Branches(Fresh(g, 3), {then, else}) EXCEPT !.t = popped]
        a == EmitBranch(NoBranch(Label(start, then)), s.then, tail, merge)
    IN  Merge(EmitElse([a EXCEPT !.g = Label([@ EXCEPT !.t = popped], else)], s, tail, merge), merge)

(***************************************************************************)
(* A match must name every variant of its union.  Its checks cascade and    *)
(* fall through to a block that is never reached.                           *)
(***************************************************************************)
Exhaustive(s) == {s.arms[i].of : i \in DOMAIN s.arms} = DOMAIN Fields

EmitMatch(g, s, tail) ==
    LET n == Len(s.arms)
        default == g.next
        merge == g.next + 1
        arm(i) == g.next + 1 + i
        check(i) == IF i > n THEN default ELSE g.next + n + i
        dispatch == FoldLeft(LAMBDA h, i : Label(Branches(h, {arm(i), check(i + 1)}), check(i + 1)),
                             Fresh(g, 2 * n + 1), [i \in 1 .. n |-> i])
        start == [dispatch EXCEPT !.open = FALSE]
        OneArm(acc, i) ==
            LET Inside(h) == Label([h EXCEPT !.t = Bindings(g.t, s.arms[i].of)], arm(i))
            IN  EmitBranch([acc EXCEPT !.g = Inside(@)], s.arms[i].body, tail, merge)
    IN  IF ~Exhaustive(s) THEN Fault(g, "rejected")
        ELSE Merge(FoldLeft(OneArm, NoBranch(start), [i \in 1 .. n |-> i]), merge)

(***************************************************************************)
(* Function bodies.  A quotation is a tailcc function of one parameter, a   *)
(* closure a C function of three, entered with its captures pushed.  The    *)
(* scope saves what it saves: the flags about the previous statement and    *)
(* the closure flag are not among it.                                       *)
(***************************************************************************)
TailRet(g, stmts) == IF Foreseen(g, stmts, TRUE) THEN g ELSE Ret(g)

EmitBodyWithTailRet(g, stmts) ==
    TailRet(IF stmts = <<>> THEN g
            ELSE EmitStatement(FoldLeft(LAMBDA h, s : EmitStatement(h, s, FALSE), g, Front(stmts)),
                               Last(stmts), TRUE),
            stmts)

CapturePush(g, caps) ==
    FaultIf(Write(g), \E i \in DOMAIN caps : caps[i] \in {"Bool", "Quot"}, "capture")

ExitScopeKeepingAux(g, outer) ==
    [g EXCEPT !.fn = outer.fn, !.edges = outer.edges, !.phis = outer.phis, !.cur = outer.cur,
              !.open = outer.open, !.word = outer.word]

ExitScope(g, outer) ==
    [g EXCEPT !.fn = outer.fn, !.edges = outer.edges, !.phis = outer.phis, !.cur = outer.cur,
              !.open = outer.open, !.word = outer.word, !.auxSp = outer.auxSp]

EmitQuotation(g, s) ==
    LET enter == [g EXCEPT !.word = FALSE, !.auxSp = 0, !.t = Typing(Slots(s.ins \o s.caps))]
        plain == EndFunction(EmitBodyWithTailRet(
                    NewFunction(enter, [cc |-> "tailcc", params |-> 1]), s.body))
        closed == EndFunction(EmitBodyWithTailRet(
                    CapturePush(NewFunction([enter EXCEPT !.inClosure = TRUE],
                                            [cc |-> "ccc", params |-> 3]), s.caps), s.body))
        inner == IF s.caps = <<>> THEN plain ELSE [closed EXCEPT !.inClosure = FALSE]
    IN  ExitScope(inner, g)

(* The registers are spilled, the function is emitted on the side, and the  *)
(* pointers to it are pushed.                                               *)
QuotationPush(g, s) == Write(EmitQuotation(Write(g), s))

EmitStatement(g, s, tail) ==
    [(CASE s.k \in {"int", "bool", "str"} -> Write(g)
        [] s.k = "op" -> EmitOp(g, s.op)
        [] s.k \in {"word", "self"} -> CallWord(g, tail)
        [] s.k = "call" -> CallQuotation(g, tail)
        [] s.k = "if" -> EmitIf(g, s, tail)
        [] s.k = "quot" -> QuotationPush(g, s)
        [] s.k = "match" -> EmitMatch(g, s, tail))
     EXCEPT !.t = Effect(g.t, s)]

(***************************************************************************)
(* codegen_statements: the statements of a word's body, each with its index *)
(* and with what the statement before it was.                               *)
(***************************************************************************)
PrevKeepingLiteral(g, stmts, i) ==
    [g EXCEPT !.idx = i,
              !.trivial = i > 1 /\ stmts[i - 1].k \in {"int", "bool"},
              !.lit = IF i > 1 /\ stmts[i - 1].k = "int" THEN stmts[i - 1].n ELSE @]

Prev(g, stmts, i) ==
    [g EXCEPT !.idx = i,
              !.trivial = i > 1 /\ stmts[i - 1].k \in {"int", "bool"},
              !.lit = IF i > 1 /\ stmts[i - 1].k = "int" THEN stmts[i - 1].n ELSE -1]

EmitStatements(g, stmts, lastTail) ==
    [FoldLeft(LAMBDA h, i : EmitStatement(Prev(h, stmts, i), stmts[i], lastTail /\ i = Len(stmts)),
              [g EXCEPT !.depth = @ + 1], [i \in DOMAIN stmts |-> i])
     EXCEPT !.depth = g.depth]

-----------------------------------------------------------------------------
(***************************************************************************)
(* Loop lowering: a word whose last statement is an if/else of which one    *)
(* branch ends in a call of itself and the other never calls it.            *)
(***************************************************************************)
RECURSIVE CallsSelf(_)
CallsSelf(stmts) ==
    \E i \in DOMAIN stmts :
        LET s == stmts[i] IN
        \/ s.k = "self"
        \/ s.k = "if" /\ (CallsSelf(s.then) \/ (s.has /\ CallsSelf(s.else)))
        \/ s.k = "quot" /\ CallsSelf(s.body)
        \/ s.k = "match" /\ \E a \in DOMAIN s.arms : CallsSelf(s.arms[a].body)

EndsInSelf(stmts) == stmts # <<>> /\ Last(stmts).k = "self"

Recursing(s) == IF EndsInSelf(s.then) THEN s.then ELSE s.else
Base(s) == IF EndsInSelf(s.then) THEN s.else ELSE s.then

IsLoop(stmts) ==
    /\ LoopOpt /\ ~IsMain /\ stmts # <<>>
    /\ LET s == Last(stmts) IN
       /\ s.k = "if" /\ s.has
       /\ EndsInSelf(s.then) # EndsInSelf(s.else)
       /\ ~CallsSelf(Base(s))

(* The phi at the header names the block before the loop and both latches.  *)
HeaderOneLatch(g) == {g.cur, g.next + 2}

HeaderPreds(g) == {g.cur, g.next + 2, g.next + 3}

EmitBaseTail(g, s) == EmitStatements(g, Base(s), TRUE)

EmitBase(g, s) == Ret(EmitStatements(g, Base(s), FALSE))

(* From the test on: the base case, the recursive branch and its two        *)
(* latches, the one that yields to the scheduler first and the other.       *)
LoopBranches(test, s, header, auxSp) ==
    LET At(h, block) == [Label(h, block) EXCEPT !.auxSp = auxSp, !.t = Popped(test.t, 1)]
        fork == Branches(test, {header + 1, header + 2})
        back == EmitStatements(At(EmitBase(At(fork, header + 1), s), header + 2),
                               Front(Recursing(s)), FALSE)
    IN  Branches(Label(Branches(back, {header + 3, header}), header + 3), {header})

EmitLoop(g, stmts) ==
    LET top == Phi(Label(Branches(Fresh(g, 4), {g.next}), g.next), HeaderPreds(g))
    IN  LoopBranches(EmitStatements(top, Front(stmts), FALSE), Last(stmts), g.next, g.auxSp)

-----------------------------------------------------------------------------
(***************************************************************************)
(* The specialized version of a word on Ints and Bools: its stack is the    *)
(* sequence ctx of the registers that hold it.                              *)
(***************************************************************************)
Registers(types) == \A i \in DOMAIN types : types[i] \in {"Int", "Bool"}

SpecializableOps == {"add", "less", "div", "mod", "not", "dup", "drop", "swap"}

RECURSIVE Specializable(_)
Specializable(stmts) ==
    \A i \in DOMAIN stmts :
        LET s == stmts[i] IN
        \/ s.k \in {"int", "bool", "self"}
        \/ s.k = "op" /\ s.op \in SpecializableOps
        \/ s.k = "op" /\ s.op = "pick" /\ i > 1 /\ stmts[i - 1].k = "int"
        \/ s.k = "if" /\ Specializable(s.then) /\ (s.has => Specializable(s.else))

CanSpecialize(stmts) ==
    Registers(Ins) /\ Registers(Outs) /\ Outs # <<>> /\ Specializable(stmts)

CtxBelow(g, n) == SubSeq(g.ctx, 1, Len(g.ctx) - n)
Temps(g, taken, given) ==
    [Write(g) EXCEPT !.ctx = CtxBelow(g, taken) \o [i \in 1 .. given |-> g.temp + i],
                     !.temp = @ + given]

EmitSafeDivTwoWay(g, op) ==
    LET ok == g.next
        fail == g.next + 1
        merge == g.next + 2
        over == g.next + 3
        h == Fresh(g, 4)
        start == IF op = "div"
                 THEN Branches(Label(Branches(h, {fail, over}), over), {merge, ok})
                 ELSE Branches(h, {fail, ok})
        parts == Branches(Label(Branches(Label(start, ok), {merge}), fail), {merge})
    IN  Temps(Phi(Label(parts, merge), {ok, fail}), 2, 2)

EmitSafeDiv(g, op) ==
    LET ok == g.next
        fail == g.next + 1
        merge == g.next + 2
        over == g.next + 3
        h == Fresh(g, 4)
        start == IF op = "div"
                 THEN Branches(Label(Branches(h, {fail, over}), over), {merge, ok})
                 ELSE Branches(h, {fail, ok})
        parts == Branches(Label(Branches(Label(start, ok), {merge}), fail), {merge})
        preds == {ok, fail} \cup (IF op = "div" THEN {over} ELSE {})
    IN  Temps(Phi(Label(parts, merge), preds), 2, 2)

SpecOp(g, op, lit) ==
    CASE op \in {"div", "mod"} -> EmitSafeDiv(g, op)
      [] op \in {"add", "less"} -> Temps(g, 2, 1)
      [] op = "not" -> Temps(g, 1, 1)
      [] op = "dup" -> [g EXCEPT !.ctx = Append(@, Last(@))]
      [] op = "drop" -> [g EXCEPT !.ctx = Front(@)]
      [] op = "swap" -> [g EXCEPT !.ctx = CtxBelow(g, 2) \o <<@[Len(@)], @[Len(@) - 1]>>]
      [] op = "pick" -> [g EXCEPT !.ctx = Append(Front(@), @[Len(@) - 1 - lit])]

SpecCall(g, tail) == IF tail THEN Ret(Temps(g, Len(Ins), Len(Outs))) ELSE Temps(g, Len(Ins), Len(Outs))

RECURSIVE SpecStatement(_, _, _, _)

SpecBody(g, stmts, last) ==
    FoldLeft(LAMBDA h, i : SpecStatement(h, stmts[i], last /\ i = Len(stmts),
                                         IF i > 1 /\ stmts[i - 1].k = "int" THEN stmts[i - 1].n ELSE -1),
             g, [i \in DOMAIN stmts |-> i])

LeaveSpecFallingOff(h, stmts, merge, last) == IF last THEN h ELSE Branches(h, {merge})

LeaveSpec(h, stmts, merge, last) ==
    IF last THEN (IF stmts = <<>> THEN Ret(h) ELSE h) ELSE Branches(h, {merge})

SpecBranch(g, stmts, label, merge, last) == LeaveSpec(SpecBody(Label(g, label), stmts, last), stmts, merge, last)

SpecMerge(a, b, then, last) ==
    LET same(i) == a.ctx[i] = b.ctx[i]
        merged == [Label(b, then + 2) EXCEPT
                     !.ctx = [i \in DOMAIN a.ctx |-> IF same(i) THEN a.ctx[i] ELSE b.temp + i],
                     !.temp = @ + Len(a.ctx)]
    IN  IF last THEN b
        ELSE IF \A i \in DOMAIN a.ctx : same(i) THEN merged ELSE Phi(merged, {then, then + 1})

SpecElse(a, ctx, s, then, last) ==
    SpecMerge(a, SpecBranch([a EXCEPT !.ctx = ctx], IF s.has THEN s.else ELSE <<>>, then + 1, then + 2, last),
              then, last)

SpecIf(g, s, last) ==
    LET then == g.next
        start == [Branches(Fresh(g, 3), {then, then + 1}) EXCEPT !.ctx = CtxBelow(g, 1)]
    IN  SpecElse(SpecBranch(start, s.then, then, then + 2, last), start.ctx, s, then, last)

SpecReturn(h, s, last) == IF last /\ s.k \notin {"if", "self"} THEN Ret(h) ELSE h

SpecStatement(g, s, last, lit) ==
    SpecReturn(CASE s.k \in {"int", "bool"} -> Temps(g, 0, 1)
                 [] s.k = "op" -> SpecOp(g, s.op, lit)
                 [] s.k = "self" -> SpecCall(g, last)
                 [] s.k = "if" -> SpecIf(g, s, last),
               s, last)

-----------------------------------------------------------------------------
(***************************************************************************)
(* A word: its specialized version if it has one, then its stack version.   *)
(***************************************************************************)
Start(stmts) ==
    [done |-> <<>>, fn |-> [cc |-> "ccc", params |-> 0], edges |-> {}, phis |-> {}, cur |-> 0,
     open |-> FALSE, next |-> 1, inClosure |-> FALSE, inMain |-> IsMain, trivial |-> FALSE,
     lit |-> -1, idx |-> 1, depth |-> 0, word |-> TRUE, auxSp |-> 0, faults |-> {},
     temp |-> Len(Ins), ctx |-> [i \in DOMAIN Ins |-> i], t |-> Typing(Slots(Ins)),
     tops |-> [i \in DOMAIN stmts |->
                 LET t == BodyEffect(Typing(Slots(Ins)), SubSeq(stmts, 1, i - 1))
                 IN  IF t.st = <<>> THEN "none" ELSE TopOf(t).t]]

EmitSpecialized(g, stmts) ==
    IF CanSpecialize(stmts)
    THEN EndFunction(SpecBody(NewFunction(g, [cc |-> "ccc", params |-> Len(Ins)]), stmts, TRUE))
    ELSE g

StackVersion(g, stmts) ==
    IF IsLoop(stmts) THEN EmitLoop(g, stmts) ELSE TailRet(EmitStatements(g, stmts, TRUE), stmts)

CodegenWord(stmts) ==
    EndFunction(StackVersion(NewFunction(EmitSpecialized(Start(stmts), stmts),
                                         [cc |-> IF IsMain THEN "ccc" ELSE "tailcc", params |-> 1]),
                             stmts))

Typed(stmts) == BodyEffect(Typing(Slots(Ins)), stmts)
Complete(t) == t.ok /\ t.aux = <<>> /\ TypesOf(t.st) = Outs

Output(g) ==
    IF "rejected" \notin g.faults
    THEN [fns |-> {g.done[i] : i \in DOMAIN g.done}, faults |-> g.faults]
    ELSE [fns |-> {}, faults |-> {}]

Compiled(stmts) ==
    IF Complete(Typed(stmts)) THEN Output(CodegenWord(stmts)) ELSE [fns |-> {}, faults |-> {}]

Init == body = <<>> /\ out = Compiled(<<>>)

WriteStatement ==
    /\ Len(body) < MaxLength
    /\ \E s \in Statements :
          /\ Typed(Append(body, s)).ok
          /\ body' = Append(body, s)
          /\ out' = Compiled(body')

Next == WriteStatement

Spec == Init /\ [][Next]_vars

-----------------------------------------------------------------------------
(***************************************************************************)
(* Properties of the emitted functions.                                     *)
(***************************************************************************)

(* Every block ends in exactly one terminator before the next label or the  *)
(* end of the function: where no ret is written, a tail call wrote it.      *)
Terminated == "open" \notin out.faults

(* Nothing is written after a terminator: whether a statement in tail       *)
(* position returns is foreseen rightly.                                    *)
NothingAfterRet == "dead" \notin out.faults

(* A phi node names exactly the predecessors of its block, whatever blocks  *)
(* the branches opened in between.                                          *)
PhiMatchesEdges ==
    \A f \in out.fns : \A p \in f.phis : p.preds = {e[1] : e \in {e \in f.edges : e[2] = p.at}}

(* musttail is only written in a function with the callee's prototype.      *)
MusttailAllowed == "musttail" \notin out.faults

(* A slot is copied without counting only when it holds an Int or a Bool.   *)
RawCopySound == "copy" \notin out.faults

(* pick by a constant uses the Int that is on the stack.                    *)
ConstantIndexSound == "index" \notin out.faults

(* The compile-time aux pointer is the number of values set aside on the    *)
(* path that reaches the access, so that every access is to its own slot.   *)
AuxPointerExact == "aux" \notin out.faults

(* A closure pushes its captures as the values that were captured.          *)
CapturesKept == "capture" \notin out.faults

====
