---------------------------- MODULE TypeChecker ----------------------------
(***************************************************************************)
(* The type checker of a word body (crates/compiler/src/typechecker/), run  *)
(* side by side with the body itself.  The program is written one statement *)
(* at a time; the checker infers the stack type after each and a machine    *)
(* executes it on values that carry only their run-time type, so that every *)
(* accepted program of the vocabulary is compared with what it does.        *)
(***************************************************************************)
EXTENDS Unify, SequencesExt, FiniteSetsExt

CONSTANTS
    Vocabulary,   \* by name, the statements a body is made of
    Sigs,         \* name -> declared effect of the user's words
    Word,         \* the word being checked
    Cycle,        \* the words in the call-graph cycle of Word
    Variants,     \* variant -> [u |-> union, f |-> sequence of <<field, type>>]
    MaxBody       \* by name, bound on the statements of the body

None == [k |-> "none"]
IsWord(s, n) == s.k = "word" /\ s.n = n

-----------------------------------------------------------------------------
(* Builtin signatures, over the row ..a.                                   *)

RowA == <<"a">>
Sig(ins, outs) == Eff(Stk(RowA, ins), Stk(RowA, outs), FALSE)
tT == TVar(<<"T">>)
tU == TVar(<<"U">>)
tQ == TVar(<<"Q">>)
tR == TVar(<<"Q2">>)
IntT == Basic("Int")
BoolT == Basic("Bool")
StringT == Basic("String")
FloatT == Basic("Float")

\* A placeholder's outputs hang from an unrelated row ..b.
Placeholder(ins, outs) == Eff(Stk(RowA, ins), Stk(<<"b">>, outs), FALSE)

StackSigs ==
    ("dup" :> Sig(<<tT>>, <<tT, tT>>)) @@ ("drop" :> Sig(<<tT>>, <<>>)) @@
    ("swap" :> Sig(<<tT, tU>>, <<tU, tT>>)) @@ ("over" :> Sig(<<tT, tU>>, <<tT, tU, tT>>)) @@
    ("nip" :> Sig(<<tT, tU>>, <<tU>>)) @@ ("tuck" :> Sig(<<tT, tU>>, <<tU, tT, tU>>))

ArithSigs ==
    ("i.+" :> Sig(<<IntT, IntT>>, <<IntT>>)) @@ ("i.=" :> Sig(<<IntT, IntT>>, <<BoolT>>)) @@
    ("f.+" :> Sig(<<FloatT, FloatT>>, <<FloatT>>)) @@
    ("string.concat" :> Sig(<<StringT, StringT>>, <<StringT>>)) @@
    ("string.equal?" :> Sig(<<StringT, StringT>>, <<BoolT>>))

CallableSigs ==
    ("call" :> Placeholder(<<tQ>>, <<>>)) @@
    ("dip" :> Placeholder(<<tT, tQ>>, <<tT>>)) @@ ("keep" :> Placeholder(<<tT, tQ>>, <<tT>>)) @@
    ("bi" :> Placeholder(<<tT, tQ, tR>>, <<>>)) @@
    ("if" :> Placeholder(<<BoolT, tQ, tR>>, <<>>))

ConcurrencySigs ==
    ("strand.spawn" :> Sig(<<Quotation(Eff(Stk(<<"spawn_in">>, <<>>), Stk(<<"spawn_out">>, <<>>), FALSE))>>,
                           <<IntT>>)) @@
    ("yield" :> [Sig(<<tQ, tT>>, <<tQ, tT>>) EXCEPT !.y = TRUE])

Builtins == StackSigs @@ ArithSigs @@ CallableSigs @@ ConcurrencySigs

HasEffect(name) == name \in DOMAIN Builtins \cup DOMAIN Sigs
lookup_word_effect(name) == IF name \in DOMAIN Builtins THEN Builtins[name] ELSE Sigs[name]

-----------------------------------------------------------------------------
(* Fresh names: one number of the counter for all variables of an effect.  *)

fresh_var(v, n) == Append(v, n)

RECURSIVE freshen_type(_, _)
freshen_stack(st, n) ==
    Stk(IF st.row = NoRow THEN NoRow ELSE fresh_var(st.row, n),
        [i \in DOMAIN st.vals |-> freshen_type(st.vals[i], n)])
\* The effects of a nested quotation are rebuilt without their Yield.
freshen_type(ty, n) ==
    CASE ty.t = "Var"       -> TVar(fresh_var(ty.v, n))
      [] ty.t = "Quotation" -> Quotation(Eff(freshen_stack(ty.e.i, n), freshen_stack(ty.e.o, n), FALSE))
      [] ty.t = "Closure"   -> Closure(Eff(freshen_stack(ty.e.i, n), freshen_stack(ty.e.o, n), FALSE),
                                       [i \in DOMAIN ty.captures |-> freshen_type(ty.captures[i], n)])
      [] OTHER              -> ty
freshen_effect(e, n) == Eff(freshen_stack(e.i, n), freshen_stack(e.o, n), e.y)

-----------------------------------------------------------------------------
(* The checker: the stack type, the substitution of the statement at hand, *)
(* whether a Yield was met, the aux stack, the fresh counter, the expected *)
(* quotation type, the quotations it is inside of, and what it leaves for  *)
(* the code generator: the type of each quotation, the aux depth of each   *)
(* scope (0 is the word) and the copyable top before each statement.       *)

NoType == [t |-> "none"]
new(start) == [ok |-> TRUE, stack |-> start, sub |-> EmptySubst, y |-> FALSE, aux |-> Empty,
               fresh |-> 1, expected |-> NoType, qids |-> <<>>, qtypes |-> <<>>,
               auxdepth |-> <<>>, tops |-> <<>>]
Fail(c) == [c EXCEPT !.ok = FALSE]
Tick(c) == [c EXCEPT !.fresh = @ + 1]
With(c, st, s) == [c EXCEPT !.stack = st, !.sub = compose(@, s), !.ok = @ /\ s.ok]

Rigid == <<"rest">>                    \* the row the parser gives a declared effect

\* Faulty: a declared row is treated like an inferred one.
ApplyEffectFlexible(c, e, st) ==
    LET s == unify_stacks(e.i, st)
    IN  IF ~s.ok THEN Fail(c)
        ELSE [With(c, apply_stack(s, e.o), s) EXCEPT !.y = @ \/ e.y]

\* Faulty: what the callee yields is forgotten.
ApplyEffectPure(c, e, st) ==
    LET s == unify_stacks(e.i, st)
    IN  IF (st.row = Rigid /\ Len(e.i.vals) > Len(st.vals)) \/ ~s.ok THEN Fail(c)
        ELSE With(c, apply_stack(s, e.o), s)

UnifiedEffect(c, e, s) ==
    IF s.ok THEN [With(c, apply_stack(s, e.o), s) EXCEPT !.y = @ \/ e.y] ELSE Fail(c)

apply_effect(c, e, st) ==
    IF st.row = Rigid /\ Len(e.i.vals) > Len(st.vals) THEN Fail(c)
    ELSE UnifiedEffect(c, e, unify_stacks(e.i, st))

\* The effect of `e` with its variables renamed, on the stack `st`.
ApplyFresh(c, e, st) == apply_effect(Tick(c), freshen_effect(e, c.fresh), st)

\* Pop that may refine an inferred row: [ok, rest, top, sub].
polymorphic_pop(c, st) ==
    IF IsCons(st) THEN [ok |-> TRUE, rest |-> Rest(st), top |-> Top(st), sub |-> EmptySubst]
    ELSE LET fresh == fresh_var(st.row, c.fresh)
             ty == TVar(fresh_var(<<"T">>, c.fresh))
         IN  [ok   |-> st.row \notin {NoRow, Rigid},
              rest |-> Stk(fresh, <<>>), top |-> ty,
              sub  |-> [EmptySubst EXCEPT !.rows = st.row :> Stk(fresh, <<ty>>)]]

\* Literal pick and roll: past the concrete values of a row there is "some" type.
handle_literal_pick(c, n) ==
    LET vals == c.stack.vals
    IN  IF n < Len(vals) THEN With(c, Push(c.stack, vals[Len(vals) - n]), EmptySubst)
        ELSE IF c.stack.row = NoRow THEN Fail(c)
        ELSE With(Tick(c), Push(c.stack, TVar(fresh_var(<<"pick">>, c.fresh))), EmptySubst)

handle_literal_roll(c, n) ==
    LET vals == c.stack.vals
        at == Len(vals) - n
    IN  IF n < Len(vals)
        THEN With(c, [c.stack EXCEPT !.vals = Append(RemoveAt(@, at), vals[at])], EmptySubst)
        ELSE IF c.stack.row = NoRow THEN Fail(c)
        ELSE With(Tick(c), Push(c.stack, TVar(fresh_var(<<"roll">>, c.fresh))), EmptySubst)

-----------------------------------------------------------------------------
(* Word calls.                                                             *)

Scope(c) == IF c.qids = <<>> THEN 0 ELSE Last(c.qids)

\* Faulty: the depth of a branch that ends shallow replaces the deepest one.
ToAuxLastDepth(c) ==
    IF ~IsCons(c.stack) THEN Fail(c)
    ELSE LET aux == Push(c.aux, Top(c.stack))
         IN  [c EXCEPT !.stack = Rest(@), !.aux = aux,
                       !.auxdepth = (Scope(c) :> Len(aux.vals)) @@ @]

infer_to_aux(c) ==
    IF ~IsCons(c.stack) THEN Fail(c)
    ELSE LET aux == Push(c.aux, Top(c.stack))
             seen == IF Scope(c) \in DOMAIN c.auxdepth THEN c.auxdepth[Scope(c)] ELSE 0
         IN  [c EXCEPT !.stack = Rest(@), !.aux = aux,
                       !.auxdepth = (Scope(c) :> Max({seen, Len(aux.vals)})) @@ @]

infer_from_aux(c) ==
    IF ~IsCons(c.aux) THEN Fail(c)
    ELSE [c EXCEPT !.stack = Push(@, Top(c.aux)), !.aux = Rest(@)]

\* Faulty: anything may be branched on.
ConditionAny(ty) == EmptySubst

\* The condition of a branch is a Bool, or a variable that becomes one.
condition(ty) == unify_types(BoolT, ty)

IsCallable(ty) == ty.t \in Callables
Pops(c, n) == Len(c.stack.vals) >= n
Fallback(c, name) == ApplyFresh(c, Builtins[name], c.stack)

infer_call(c) ==
    IF ~Pops(c, 1) THEN Fail(c)
    ELSE LET q == Top(c.stack)
         IN  IF q.t = "Var" THEN Fallback(c, "call")
             ELSE IF ~IsCallable(q) \/ q.e.y THEN Fail(c)
             ELSE ApplyFresh(c, q.e, Rest(c.stack))

\* The value below the quotation is set aside and comes back on top.
PushBack(c, ty) == [c EXCEPT !.stack = Push(@, apply_type(c.sub, ty))]

\* The quotation of effect `e` runs on `st`, the value popped by `p` set aside.
SetAside(c, e, p, st) ==
    IF e.y \/ ~p.ok THEN Fail(c) ELSE PushBack(ApplyFresh(With(Tick(c), st, p.sub), e, st), p.top)

DipBelow(c, e, p) == SetAside(c, e, p, p.rest)
KeepBelow(c, e, p, below) == SetAside(c, e, p, apply_stack(p.sub, below))

infer_dip(c) ==
    IF ~Pops(c, 1) THEN Fail(c)
    ELSE LET q == Top(c.stack)
         IN  IF q.t = "Var" THEN Fallback(c, "dip")
             ELSE IF ~IsCallable(q) THEN Fail(c)
             ELSE DipBelow(c, q.e, polymorphic_pop(c, Rest(c.stack)))

infer_keep(c) ==
    IF ~Pops(c, 1) THEN Fail(c)
    ELSE LET q == Top(c.stack)
         IN  IF q.t = "Var" THEN Fallback(c, "keep")
             ELSE IF ~IsCallable(q) THEN Fail(c)
             ELSE KeepBelow(c, q.e, polymorphic_pop(c, Rest(c.stack)), Rest(c.stack))

Second(c1, e) == IF c1.ok THEN ApplyFresh(c1, e, c1.stack) ELSE c1

infer_bi(c) ==
    IF ~Pops(c, 2) THEN Fail(c)
    ELSE LET q2 == Top(c.stack)
             q1 == Top(Rest(c.stack))
             below == Rest(Rest(c.stack))
         IN  IF q1.t = "Var" \/ (IsCallable(q1) /\ q2.t = "Var") THEN Fallback(c, "bi")
             ELSE IF ~IsCallable(q1) \/ ~IsCallable(q2) THEN Fail(c)
             ELSE IF q2.e.y THEN Fail(c)
             ELSE Second(KeepBelow(c, q1.e, polymorphic_pop(c, below), below), q2.e)

\* The popped value is taken for the condition.
PopCondition(c, p) ==
    IF p.ok THEN Tick(With(With(c, p.rest, p.sub), p.rest, condition(p.top))) ELSE Fail(c)

\* `if` as a word on two quotations, applied one after the other to the same stack,
\* the second to what the first has found out about it.
Merged(c, ce, merge) ==
    IF merge.ok THEN With(ce, apply_stack(merge, ce.stack), merge) ELSE Fail(c)

MergeQuotations(c, ct, ce, else) ==
    IF ct.ok /\ ce.ok THEN Merged(c, ce, unify_stacks(apply_stack(else, ct.stack), ce.stack)) ELSE Fail(c)

ElseQuotation(c, qe, ct, st) ==
    MergeQuotations(c, ct, ApplyFresh(ct, qe.e, st), unify_stacks(freshen_effect(qe.e, ct.fresh).i, st))

EitherQuotation(c, c0, qt, qe, st) ==
    IF ~c0.ok THEN Fail(c)
    ELSE IF qt.t = "Var" \/ (IsCallable(qt) /\ qe.t = "Var") THEN Fallback(c, "if")
    ELSE IF ~IsCallable(qt) \/ ~IsCallable(qe) THEN Fail(c)
    ELSE ElseQuotation(c, qe, ApplyFresh([c0 EXCEPT !.stack = st], qt.e, st),
                       apply_stack(unify_stacks(freshen_effect(qt.e, c0.fresh).i, st), st))

SubstitutedRest(c, c0) == EitherQuotation(c, c0, Top(Rest(c.stack)), Top(c.stack), apply_stack(c0.sub, c0.stack))

infer_if_combinator(c) ==
    IF ~Pops(c, 2) THEN Fail(c)
    ELSE SubstitutedRest(c, PopCondition(c, polymorphic_pop(c, Rest(Rest(c.stack)))))

SugarOps == {"+", "=", "%"}
resolve_arithmetic_sugar(name, st) ==
    IF Len(st.vals) < 2 THEN ""
    ELSE LET two == <<Top(Rest(st)), Top(st)>>
         IN  CASE two = <<IntT, IntT>> -> (CASE name = "+" -> "i.+" [] name = "=" -> "i.=" [] OTHER -> "i.%")
               [] two = <<FloatT, FloatT>> /\ name # "%" -> (IF name = "+" THEN "f.+" ELSE "f.=")
               [] two = <<StringT, StringT>> /\ name # "%" ->
                      (IF name = "+" THEN "string.concat" ELSE "string.equal?")
               [] OTHER -> ""

-----------------------------------------------------------------------------
(* Captures.                                                               *)

\* The bottommost inputs the caller does not provide; the others must agree.
calculate_captures(body, call) ==
    LET b == body.i.vals
        k == call.i.vals
        n == Len(b) - Len(k)
    IN  [ok |-> n >= 0 /\ \A i \in DOMAIN k : \/ b[n + i] = k[i]
                                              \/ "Var" \in {b[n + i].t, k[i].t},
         n  |-> n]

\* Faulty: the captured types are recorded in the order they are popped.
CaptureTypesPopped(st, n) == Reverse(SubSeq(st.vals, Len(st.vals) - n + 1, Len(st.vals)))

pop_actual_capture_types(st, n) == SubSeq(st.vals, Len(st.vals) - n + 1, Len(st.vals))

\* What a quotation becomes given the expected type: how many values it captures.
analyze_captures(body, expected) ==
    LET cap == calculate_captures(body, expected.e)
        unified == unify_effects(body, expected.e)
        needs == IF expected.e.i = Empty THEN body.i.vals # <<>>
                 ELSE expected.e.i.vals # <<>> /\ Len(body.i.vals) > Len(expected.e.i.vals)
    IN  CASE expected = NoType -> [ok |-> TRUE, closure |-> FALSE, n |-> 0, e |-> body]
          [] expected.t = "Closure" -> [ok |-> cap.ok, closure |-> TRUE, n |-> cap.n, e |-> expected.e]
          [] expected.t = "Quotation" /\ needs ->
                 [ok |-> cap.ok, closure |-> TRUE, n |-> cap.n, e |-> expected.e]
          [] OTHER -> [ok |-> unified.ok, closure |-> FALSE, n |-> 0, e |-> expected.e]

\* strand.spawn takes a quotation with concrete inputs for a closure over that many of
\* the values below it; the type recorded for the quotation stays what it was.
adjust_stack_for_spawn(st) ==
    LET q == Top(st)
        n == Len(q.e.i.vals)
        below == Rest(st)
    IN  IF ~IsCons(st) THEN st
        ELSE IF q.t # "Quotation" THEN st
        ELSE IF q.e.i = Empty THEN st
        ELSE IF Len(below.vals) < n THEN [st EXCEPT !.row = <<"short">>]
        ELSE Push([below EXCEPT !.vals = SubSeq(@, 1, Len(@) - n)],
                  Closure(Top(ConcurrencySigs["strand.spawn"].i).e, q.e.i.vals))

\* A word by its own effect.
CallWord(c, name, st) ==
    IF HasEffect(name) /\ st.row # <<"short">> THEN ApplyFresh(c, lookup_word_effect(name), st) ELSE Fail(c)

infer_word_call(c, name) ==
    CASE name = ">aux" -> infer_to_aux(c)
      [] name = "aux>" -> infer_from_aux(c)
      [] name = "call" -> infer_call(c)
      [] name = "dip"  -> infer_dip(c)
      [] name = "keep" -> infer_keep(c)
      [] name = "bi"   -> infer_bi(c)
      [] name = "if"   -> infer_if_combinator(c)
      [] OTHER -> CallWord(c, IF name \in SugarOps THEN resolve_arithmetic_sugar(name, c.stack) ELSE name,
                           IF name = "strand.spawn" THEN adjust_stack_for_spawn(c.stack) ELSE c.stack)

-----------------------------------------------------------------------------
(* Statements.                                                             *)

\* Faulty: a branch that ends in any user word counts as divergent.
DivergesAnyWord(body) ==
    /\ body # <<>> /\ Last(body).k = "word" /\ Last(body).n \in DOMAIN Sigs

is_divergent_branch(body) ==
    /\ body # <<>> /\ Last(body).k = "word"
    /\ Last(body).n = Word \/ Last(body).n \in Cycle

Fused(s, nxt) == s.k = "int" /\ (IsWord(nxt, "pick") \/ IsWord(nxt, "roll"))

RECURSIVE infer_statements_from(_, _, _)

\* A nested body starts with its own substitution; the outer one is put back in front.
Nested(c, start, body) ==
    infer_statements_from(body, 1, [c EXCEPT !.stack = start, !.sub = EmptySubst])
Join(c, outer, st, s) == [c EXCEPT !.stack = st, !.sub = compose(compose(outer, c.sub), s)]

Unified(c, subs, ct, ce, merge) ==
    IF merge.ok THEN Join([ce EXCEPT !.aux = ct.aux], subs, apply_stack(merge, ct.stack), merge) ELSE Fail(c)

InferMerge(c, subs, ct, ce, s) ==
    LET then == is_divergent_branch(s.then)
        else == is_divergent_branch(s.else)
    IN  IF ~ct.ok \/ ~ce.ok THEN Fail(c)
        ELSE IF ~then /\ ~else /\ ct.aux # ce.aux THEN Fail(c)
        ELSE IF then /\ ~else THEN Join(ce, subs, ce.stack, EmptySubst)
        ELSE IF else /\ ~then THEN Join([ce EXCEPT !.aux = ct.aux], subs, ct.stack, EmptySubst)
        ELSE Unified(c, subs, ct, ce, unify_stacks(ct.stack, ce.stack))

InferElse(c, c0, start, ct, s) ==
    InferMerge(c, compose(c0.sub, ct.sub), ct, Nested([ct EXCEPT !.aux = c.aux], start, s.else), s)

InferThen(c, c0, start, s) ==
    IF c0.ok THEN InferElse(c, c0, start, Nested(c0, start, s.then), s) ELSE Fail(c)

InferBranches(c, c0, s) == InferThen(c, c0, apply_stack(c0.sub, c0.stack), s)

infer_if(c, s) == InferBranches(c, PopCondition(c, polymorphic_pop(c, c.stack)), s)

FieldType(variant, field) ==
    LET fs == Variants[variant].f
    IN  fs[CHOOSE i \in DOMAIN fs : fs[i][1] = field][2]
HasField(variant, field) == \E i \in DOMAIN Variants[variant].f : Variants[variant].f[i][1] = field

\* Faulty: the bound fields in the order of the declaration.
PushFieldsDeclared(st, arm) ==
    LET wanted(f) == ~arm.named \/ \E i \in DOMAIN arm.bind : arm.bind[i] = f[1]
        fs == SelectSeq(Variants[arm.v].f, wanted)
    IN  [st EXCEPT !.vals = @ \o [i \in DOMAIN fs |-> fs[i][2]]]

\* All fields in order, or those the pattern names in the order it names them.
push_variant_fields(st, arm) ==
    IF arm.named THEN [st EXCEPT !.vals = @ \o [i \in DOMAIN arm.bind |-> FieldType(arm.v, arm.bind[i])]]
    ELSE [st EXCEPT !.vals = @ \o [i \in DOMAIN Variants[arm.v].f |-> Variants[arm.v].f[i][2]]]

PatternOK(arm) ==
    /\ arm.v \in DOMAIN Variants
    /\ arm.named => \A i \in DOMAIN arm.bind : HasField(arm.v, arm.bind[i])

\* The checker after each arm, every one from the same stack and aux stack.
InferArm(c, start, aux, arm) ==
    IF ~c.ok \/ ~PatternOK(arm) THEN Fail(c)
    ELSE Nested([c EXCEPT !.aux = aux], push_variant_fields(start, arm), arm.body)

InferArms(c, start, aux, arms) ==
    Tail(FoldLeft(LAMBDA acc, arm : Append(acc, InferArm(Last(acc), start, aux, arm)), <<c>>, arms))

UnifyNext(acc, ca, u) == [st |-> apply_stack(u, acc.st), sub |-> compose(acc.sub, u)]

UnifyArms(arms, subs) ==
    FoldLeft(LAMBDA acc, ca : UnifyNext(acc, ca, unify_stacks(acc.st, ca.stack)),
             [st |-> arms[1].stack, sub |-> subs], Tail(arms))

AfterArms(c, arms, unified) ==
    IF unified.sub.ok THEN [Last(arms) EXCEPT !.stack = unified.st, !.sub = unified.sub] ELSE Fail(c)

MergeArms(c, arms) ==
    IF \E i \in DOMAIN arms : ~arms[i].ok \/ arms[i].aux # arms[1].aux THEN Fail(c)
    ELSE AfterArms(c, arms,
                   UnifyArms(arms, FoldLeft(LAMBDA acc, ca : compose(acc, ca.sub), c.sub, arms)))

\* The matched value is popped whatever its type is; the results are unified in turn.
infer_match(c, s) ==
    IF s.arms = <<>> \/ ~IsCons(c.stack) THEN Fail(c)
    ELSE MergeArms(c, InferArms(c, Rest(c.stack), c.aux, s.arms))

\* The quotation's type, given what its body does and what is expected of it.
PushQuotation(c, s, cb, a) ==
    LET ty == IF a.closure THEN Closure(a.e, pop_actual_capture_types(c.stack, a.n)) ELSE Quotation(a.e)
        back == [cb EXCEPT !.aux = c.aux, !.qids = c.qids, !.expected = c.expected, !.y = c.y,
                           !.sub = c.sub, !.stack = c.stack]
    IN  IF ~a.ok \/ Len(c.stack.vals) < a.n THEN Fail(c)
        ELSE [back EXCEPT !.qtypes = (s.id :> ty) @@ @,
                          !.stack = Push([@ EXCEPT !.vals = SubSeq(@, 1, Len(@) - a.n)], ty)]

TypeQuotation(c, s, seed, cb) ==
    LET body == Eff(apply_stack(cb.sub, seed), apply_stack(cb.sub, cb.stack), cb.y)
    IN  IF ~cb.ok \/ cb.aux # Empty THEN Fail(c)
        ELSE PushQuotation(c, s, cb, analyze_captures(body, c.expected))

InferBody(c, s, seed) ==
    TypeQuotation(c, s, seed,
                  Nested([Tick(c) EXCEPT !.expected = NoType, !.aux = Empty, !.qids = Append(@, s.id),
                                         !.y = FALSE], seed, s.body))

infer_quotation(c, s) ==
    InferBody(c, s, IF c.expected = NoType THEN Stk(<<"input">>, <<>>)
                    ELSE freshen_effect(c.expected.e, c.fresh).i)

infer_statement(c, s) ==
    CASE s.k = "int"   -> [c EXCEPT !.stack = Push(@, IntT)]
      [] s.k = "lit"   -> [c EXCEPT !.stack = Push(@, s.ty)]
      [] s.k = "word"  -> infer_word_call(c, s.n)
      [] s.k = "if"    -> infer_if(c, s)
      [] s.k = "match" -> infer_match(c, s)
      [] s.k = "quot"  -> infer_quotation(c, s)

\* A quotation is checked against the quotation the next word takes, if it takes one.
ExpectedFrom(c, nxt) ==
    IF nxt.k = "word" /\ HasEffect(nxt.n)
    THEN LET ins == lookup_word_effect(nxt.n).i
         IN  IF IsCons(ins) /\ Top(ins).t = "Quotation" THEN Top(ins) ELSE c.expected
    ELSE c.expected

\* Statement `s`, the one after it being `nxt`: a literal in front of pick or roll
\* is taken together with it.
InferAt(c, s, nxt) ==
    LET c0 == [c EXCEPT !.sub = EmptySubst]
        r == IF Fused(s, nxt)
             THEN IF nxt.n = "pick" THEN handle_literal_pick(c0, s.i) ELSE handle_literal_roll(c0, s.i)
             ELSE infer_statement([c0 EXCEPT !.expected = IF s.k = "quot" THEN ExpectedFrom(c, nxt) ELSE @], s)
    IN  [r EXCEPT !.sub = compose(c.sub, @), !.expected = c.expected]

infer_statements_from(body, i, c) ==
    IF i > Len(body) \/ ~c.ok THEN c
    ELSE LET nxt == IF i < Len(body) THEN body[i + 1] ELSE None
         IN  infer_statements_from(body, IF Fused(body[i], nxt) THEN i + 2 ELSE i + 1,
                                   InferAt(c, body[i], nxt))

-----------------------------------------------------------------------------
(* What the statements do: a machine whose values carry only their run-time *)
(* type, a quotation its body and the values it captured.  `err` is set     *)
(* when an operation meets too few values or one of another type.           *)

Value(ty) == [t |-> IF ty.t = "Closure" THEN "Quotation" ELSE ty.t, n |-> IF ty.t = "Union" THEN ty.n ELSE "", v |-> "", f |-> <<>>,
              body |-> <<>>, env |-> <<>>, id |-> 0]
Machine(st) == [st |-> st, aux |-> <<>>, err |-> "", y |-> FALSE, deep |-> 0]
Stop(m, why) == {[m EXCEPT !.err = why]}

\* An effect on values: an output variable is the input at that variable.
RunEffect(m, e) ==
    LET ins == e.i.vals
        n == Len(m.st) - Len(ins)
        val(i) == m.st[n + i]
        out(ty) == IF ty.t = "Var" THEN val(CHOOSE i \in DOMAIN ins : ins[i] = ty) ELSE Value(ty)
    IN  IF n < 0 THEN Stop(m, "underflow")
        ELSE IF \E i \in DOMAIN ins : ins[i].t # "Var" /\ ins[i].t # val(i).t THEN Stop(m, "type")
        ELSE {[m EXCEPT !.st = SubSeq(@, 1, n) \o [j \in DOMAIN e.o.vals |-> out(e.o.vals[j])],
                        !.y = @ \/ e.y]}

RECURSIVE Run(_, _, _, _)

\* A call has its own aux slots; its captured values are pushed first.
Invoke(m, c, q) ==
    IF q.t # "Quotation" THEN Stop(m, "type")
    ELSE {[r EXCEPT !.aux = m.aux, !.deep = m.deep] :
             r \in Run(q.body, 1, c, [m EXCEPT !.st = @ \o q.env, !.aux = <<>>])}

\* Continue every outcome that has not stopped.
Bind(ms, F(_)) == UNION {IF m.err = "" THEN F(m) ELSE {m} : m \in ms}
Drop(m, n) == [m EXCEPT !.st = SubSeq(@, 1, Len(@) - n)]
Arg(m, i) == m.st[Len(m.st) - i]
PushV(m, v) == {[m EXCEPT !.st = Append(@, v)]}
Needs(m, n) == Len(m.st) >= n

RunWord(m, c, name, cw) ==
    CASE name \in SugarOps -> RunEffect(m, lookup_word_effect(resolve_arithmetic_sugar(name, cw.stack)))
      [] name = ">aux" -> IF ~Needs(m, 1) THEN Stop(m, "underflow")
                          ELSE {[Drop(m, 1) EXCEPT !.aux = Append(@, Arg(m, 0)),
                                                   !.deep = Max({@, Len(m.aux) + 1})]}
      [] name = "aux>" -> IF m.aux = <<>> THEN Stop(m, "underflow")
                          ELSE PushV([m EXCEPT !.aux = SubSeq(@, 1, Len(@) - 1)], Last(m.aux))
      [] name = "call" -> IF ~Needs(m, 1) THEN Stop(m, "underflow")
                          ELSE Invoke(Drop(m, 1), c, Arg(m, 0))
      [] name = "dip"  -> IF ~Needs(m, 2) THEN Stop(m, "underflow")
                          ELSE LET back(r) == PushV(r, Arg(m, 1))
                               IN  Bind(Invoke(Drop(m, 2), c, Arg(m, 0)), back)
      [] name = "keep" -> IF ~Needs(m, 2) THEN Stop(m, "underflow")
                          ELSE LET back(r) == PushV(r, Arg(m, 1))
                               IN  Bind(Invoke(Drop(m, 1), c, Arg(m, 0)), back)
      [] name = "bi"   -> IF ~Needs(m, 3) THEN Stop(m, "underflow")
                          ELSE LET again(r) == Invoke([r EXCEPT !.st = Append(@, Arg(m, 2))], c, Arg(m, 0))
                               IN  Bind(Invoke(Drop(m, 2), c, Arg(m, 1)), again)
      [] name = "if"   -> IF ~Needs(m, 3) THEN Stop(m, "underflow")
                          ELSE IF Arg(m, 2).t # "Bool" THEN Stop(m, "type")
                          ELSE Invoke(Drop(m, 3), c, Arg(m, 1)) \cup Invoke(Drop(m, 3), c, Arg(m, 0))
      [] name = "strand.spawn" ->      \* the child runs on a copy of this stack, on its own
             IF ~Needs(m, 1) THEN Stop(m, "underflow")
             ELSE IF Arg(m, 0).t # "Quotation" THEN Stop(m, "type")
             ELSE PushV(Drop(m, 1), Value(IntT))
      [] name \in DOMAIN Sigs /\ Top(Sigs[name].i).t = "Quotation" ->  \* calls what it is given
             IF ~Needs(m, 1) THEN Stop(m, "underflow") ELSE Invoke(Drop(m, 1), c, Arg(m, 0))
      [] OTHER -> RunEffect(m, lookup_word_effect(name))

RunArm(m, c, arm, v) ==
    LET fields == IF arm.named
                  THEN [i \in DOMAIN arm.bind |-> Value(FieldType(arm.v, arm.bind[i]))] ELSE v.f
    IN  Run(arm.body, 1, c, [Drop(m, 1) EXCEPT !.st = @ \o fields])

RunStatement(m, c, s, nxt, cw) ==
    CASE s.k = "int" /\ Fused(s, nxt) ->
             IF ~Needs(m, s.i + 1) THEN Stop(m, "reach")
             ELSE IF nxt.n = "pick" THEN PushV(m, Arg(m, s.i))
             ELSE PushV([m EXCEPT !.st = RemoveAt(@, Len(@) - s.i)], Arg(m, s.i))
      [] s.k = "int" /\ ~Fused(s, nxt) -> PushV(m, Value(IntT))
      [] s.k = "lit"   -> PushV(m, [Value(s.ty) EXCEPT !.v = s.v,
                                       !.f = IF s.v = "" THEN <<>>
                                             ELSE [i \in DOMAIN Variants[s.v].f |-> Value(Variants[s.v].f[i][2])]])
      [] s.k = "word"  -> RunWord(m, c, s.n, cw)
      [] s.k = "if"    -> IF ~Needs(m, 1) THEN Stop(m, "underflow")
                          ELSE IF Arg(m, 0).t # "Bool" THEN Stop(m, "type")
                          ELSE Run(s.then, 1, c, Drop(m, 1)) \cup Run(s.else, 1, c, Drop(m, 1))
      [] s.k = "match" -> IF ~Needs(m, 1) THEN Stop(m, "underflow")
                          ELSE IF Arg(m, 0).t # "Union" THEN Stop(m, "match")
                          ELSE UNION {RunArm(m, c, s.arms[i], Arg(m, 0)) :
                                         i \in {j \in DOMAIN s.arms : s.arms[j].v = Arg(m, 0).v}}
      [] s.k = "quot"  -> LET ty == c.qtypes[s.id]
                              n == IF ty.t = "Closure" THEN Len(ty.captures) ELSE 0
                          IN  IF ~Needs(m, n) THEN Stop(m, "underflow")
                              ELSE PushV(Drop(m, n), [Value(Quotation(0)) EXCEPT !.body = s.body, !.id = s.id,
                                                         !.env = SubSeq(m.st, Len(m.st) - n + 1, Len(m.st))])

\* Sugar is resolved from the stack type in front of it, so only the body's own
\* statements use it in a vocabulary.
Run(body, i, c, m) ==
    IF i > Len(body) \/ m.err # "" THEN {m}
    ELSE LET nxt == IF i < Len(body) THEN body[i + 1] ELSE None
             next(r) == Run(body, IF Fused(body[i], nxt) THEN i + 2 ELSE i + 1, c, r)
         IN  Bind(RunStatement(m, c, body[i], nxt, c), next)

-----------------------------------------------------------------------------
(* Writing, checking and running the body, one statement at a time.        *)

VARIABLES voc, check, machine, cur, size, done
vars == <<voc, check, machine, cur, size, done>>

Declared == Sigs[Word]
StartExpected == IF IsCons(Declared.o) /\ IsCallable(Top(Declared.o)) THEN Top(Declared.o) ELSE NoType

Init ==
    /\ voc \in DOMAIN Vocabulary
    /\ check = [new(Declared.i) EXCEPT !.expected = StartExpected]
    /\ machine = Machine([i \in DOMAIN Declared.i.vals |-> Value(Declared.i.vals[i])])
    /\ cur = None /\ size = 0 /\ done = "writing"

\* Every quotation of a program has an id of its own.
OwnId(s) == s.k = "quot" => s.id \notin DOMAIN check.qtypes /\ s # cur

Read(s) ==
    /\ done = "writing" /\ cur = None /\ size < MaxBody[voc] /\ OwnId(s)
    /\ cur' = s /\ size' = size + 1
    /\ UNCHANGED <<voc, check, machine, done>>

\* Faulty: the top is recorded after the statement instead of before it.
CaptureAfter(before, after, i) ==
    IF IsCons(after.stack) /\ Top(after.stack) \in {IntT, BoolT, FloatT}
    THEN [after EXCEPT !.tops = (i :> Top(after.stack)) @@ @] ELSE after

\* A copyable top before the statement is noted for the code generator.
capture_statement_type(before, after, i) ==
    IF IsCons(before.stack) /\ Top(before.stack) \in {IntT, BoolT, FloatT}
    THEN [after EXCEPT !.tops = (i :> Top(before.stack)) @@ @] ELSE after

NoteTop(fused, after) == IF fused THEN after ELSE capture_statement_type(check, after, size)

Checked(s, nxt) == NoteTop(Fused(s, nxt), InferAt(check, s, nxt))

\* The statement at hand, with the one after it known.
Step(nxt) ==
    /\ done = "writing" /\ cur # None
    /\ nxt # None => size < MaxBody[voc] /\ OwnId(nxt)
    /\ check' = Checked(cur, nxt)
    /\ IF check'.ok THEN machine' \in RunStatement(machine, check', cur, nxt, check) ELSE UNCHANGED machine
    /\ cur' = IF Fused(cur, nxt) THEN None ELSE nxt
    /\ size' = IF nxt = None THEN size ELSE size + 1
    /\ UNCHANGED voc
    /\ done' = IF ~check'.ok THEN "rejected"
               ELSE IF machine'.err # "" THEN "stopped"
               ELSE IF nxt = None THEN "ended" ELSE "writing"

\* Faulty: a word may return with values on its aux stack.
AcceptsOpenAux(c) == /\ unify_stacks(Declared.o, c.stack).ok
                     /\ c.y = Declared.y

\* Faulty: any result is taken for the declared one.
AcceptsAnyOutput(c) == c.y = Declared.y /\ c.aux = Empty

Accepts(c) == /\ unify_stacks(Declared.o, c.stack).ok
              /\ c.y = Declared.y
              /\ c.aux = Empty

\* The end of the body: declared outputs, effects, aux stack.
check_word ==
    /\ done = "ended"
    /\ done' = IF Accepts(check) THEN "accepted" ELSE "rejected"
    /\ UNCHANGED <<voc, check, machine, cur, size>>

Next == \/ \E s \in Vocabulary[voc] : Read(s)
        \/ \E nxt \in Vocabulary[voc] \cup {None} : Step(nxt)
        \/ check_word
Spec == Init /\ [][Next]_vars

-----------------------------------------------------------------------------
Conforms(v, ty) ==
    CASE ty.t = "Var" -> TRUE
      [] ty.t \in Callables -> v.t = "Quotation"
      [] ty.t = "Variant" -> v.t \in {"Variant", "Union"}
      [] OTHER -> v.t = ty.t /\ (ty.t = "Union" => v.n = ty.n)

Fits(vals, types) == Len(vals) = Len(types) /\ \A i \in DOMAIN vals : Conforms(vals[i], types[i])

\* Soundness, part one: a statement the checker lets pass never finds the stack too
\* short.  docs/TYPE_SYSTEM_GUIDE.md: "Operations never pop from an empty stack".
NoUnderflow == machine.err # "underflow"

\* Soundness, part two: nor a value of another type than its operation works on.
NoTypeConfusion == machine.err # "type"

\* At every statement of the body the inferred stack is the one the program has:
\* as many values above the caller's, each of the inferred type.
StackShape ==
    (check.ok /\ machine.err = "" /\ check.stack.row = Rigid) => Fits(machine.st, check.stack.vals)

\* An accepted word leaves exactly what it declares on top of its caller's stack.
DeclaredOutputs == done = "accepted" => Fits(machine.st, Declared.o.vals)

\* An accepted word has emptied its aux slots, on whichever path it took.
AuxBalanced == done = "accepted" => machine.aux = <<>>

\* The depth handed to the code generator covers what the body uses.
AuxSlots == machine.deep > 0 => 0 \in DOMAIN check.auxdepth /\ machine.deep <= check.auxdepth[0]

\* The captured values of a closure have the types recorded for their positions,
\* which decide the getter the closure's prologue reads each one with.
EnvTyped ==
    machine.err = "" =>
      \A i \in DOMAIN machine.st :
        LET q == machine.st[i]
        IN  q.env # <<>> => Fits(q.env, check.qtypes[q.id].captures)

\* A top recorded as copyable before a statement is one: the value is copied bit by
\* bit with no reference count.
CopyableTop ==
    \A i \in DOMAIN check'.tops \ DOMAIN check.tops :
        machine.st # <<>> /\ Conforms(Last(machine.st), check'.tops[i])

\* A word that yields on some path declares it: an accepted word without the effect
\* never runs a yield of its own.
YieldDeclared == (done = "accepted" /\ machine.y) => Declared.y

\* docs/TYPE_SYSTEM_GUIDE.md: "Operations never pop from an empty stack", of a literal
\* pick or roll: it finds the value it copies or moves above its caller's.
PickWithin == machine.err # "reach"

\* typechecker/control_flow.rs: divergent branches "never return to the if/else, so
\* their stack effect shouldn't constrain the other branch".
DivergentBranches == DeclaredOutputs

\* docs/TYPE_SYSTEM_GUIDE.md: "Operations receive the correct types", of match: the
\* value it takes apart is of a union.
MatchOnUnion == machine.err # "match"

\* quotations.rs: the quotation becomes a closure "capturing the values below it from the
\* caller's stack": what the checker takes off the stack, the program does too.
SpawnCaptures == StackShape

\* types.rs: "Ordered top-down: `captures[0]` is top of stack at creation".
CapturesTopDown ==
    machine.err = "" =>
      \A i \in DOMAIN machine.st :
        LET q == machine.st[i]
        IN  q.env # <<>> => Conforms(Last(q.env), check.qtypes[q.id].captures[1])
=============================================================================
