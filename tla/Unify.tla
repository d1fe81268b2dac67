------------------------------- MODULE Unify -------------------------------
(***************************************************************************)
(* Unification of the types and stack types of Seq                         *)
(* (crates/compiler/src/unification.rs over crates/compiler/src/types.rs). *)
(*                                                                         *)
(* A stack type is a chain of Cons cells that ends in Empty or in a row    *)
(* variable; here it is the record of that end and of the types above it,  *)
(* bottom to top.  A variable's name is a sequence: a freshened name is    *)
(* the old one with the counter appended, as `format!("{}${}")` builds it. *)
(***************************************************************************)
EXTENDS Integers, Sequences, TLC

Basic(k) == [t |-> k]
TVar(v) == [t |-> "Var", v |-> v]
Quotation(e) == [t |-> "Quotation", e |-> e]
Closure(e, captures) == [t |-> "Closure", e |-> e, captures |-> captures]
UnionT(n) == [t |-> "Union", n |-> n]

NoRow == <<"">>                                     \* StackType::Empty
Stk(row, vals) == [row |-> row, vals |-> vals]
Empty == Stk(NoRow, <<>>)
Eff(i, o, y) == [i |-> i, o |-> o, y |-> y]        \* y: has a Yield effect

IsRow(s) == s.row # NoRow /\ s.vals = <<>>
IsCons(s) == s.vals # <<>>
Push(s, ty) == [s EXCEPT !.vals = Append(@, ty)]
Top(s) == s.vals[Len(s.vals)]
Rest(s) == [s EXCEPT !.vals = SubSeq(@, 1, Len(@) - 1)]

-----------------------------------------------------------------------------
(* Substitutions: of type variables and of row variables.                  *)

EmptySubst == [ok |-> TRUE, types |-> <<>>, rows |-> <<>>]
NoSubst == [EmptySubst EXCEPT !.ok = FALSE]

apply_type(s, ty) ==
    IF ty.t = "Var" /\ ty.v \in DOMAIN s.types THEN s.types[ty.v] ELSE ty

apply_stack(s, st) ==
    LET base == IF st.row \in DOMAIN s.rows THEN s.rows[st.row] ELSE Stk(st.row, <<>>)
    IN  Stk(base.row, base.vals \o [i \in DOMAIN st.vals |-> apply_type(s, st.vals[i])])

\* Faulty: the earlier substitution's values are not brought up to date.
ComposeStale(s, o) ==
    [ok |-> s.ok /\ o.ok, types |-> o.types @@ s.types, rows |-> o.rows @@ s.rows]

compose(s, o) ==
    [ok    |-> s.ok /\ o.ok,
     types |-> [k \in DOMAIN s.types \cup DOMAIN o.types |->
                   IF k \in DOMAIN o.types THEN apply_type(s, o.types[k])
                                           ELSE apply_type(o, s.types[k])],
     rows  |-> [k \in DOMAIN s.rows \cup DOMAIN o.rows |->
                   IF k \in DOMAIN o.rows THEN apply_stack(s, o.rows[k])
                                          ELSE apply_stack(o, s.rows[k])]]

-----------------------------------------------------------------------------
(* The occurs checks look at rows only: type variables that occur in the   *)
(* tops of a stack are not searched for.                                   *)

occurs_in_stack(v, st) == st.row = v

RECURSIVE occurs_in_type(_, _)
occurs_in_type(v, ty) ==
    CASE ty.t = "Var"       -> ty.v = v
      [] ty.t = "Quotation" -> occurs_in_stack(v, ty.e.i) \/ occurs_in_stack(v, ty.e.o)
      [] ty.t = "Closure"   -> \/ occurs_in_stack(v, ty.e.i) \/ occurs_in_stack(v, ty.e.o)
                               \/ \E i \in DOMAIN ty.captures : occurs_in_type(v, ty.captures[i])
      [] OTHER              -> FALSE

\* Faulty: a variable is not allowed to meet itself.
BindTypeStrict(v, ty) ==
    IF occurs_in_type(v, ty) THEN NoSubst ELSE [EmptySubst EXCEPT !.types = v :> ty]

BindType(v, ty) ==
    IF ty = TVar(v) THEN EmptySubst
    ELSE IF occurs_in_type(v, ty) THEN NoSubst
    ELSE [EmptySubst EXCEPT !.types = v :> ty]

BindRow(r, st) ==
    IF st = Stk(r, <<>>) THEN EmptySubst
    ELSE IF occurs_in_stack(r, st) THEN NoSubst
    ELSE [EmptySubst EXCEPT !.rows = r :> st]

Callables == {"Quotation", "Closure"}

RECURSIVE unify_types(_, _), unify_stacks(_, _)

\* Given `s` of what comes first: the stacks `s1` and `s2` after it, under `s`.
UnifyUnder(s, s1, s2) ==
    IF s.ok THEN compose(s, unify_stacks(apply_stack(s, s1), apply_stack(s, s2))) ELSE NoSubst

unify_effects(e1, e2) == UnifyUnder(unify_stacks(e1.i, e2.i), e1.o, e2.o)

\* A bare Variant and any union unify, whichever side is which; a closure and
\* a quotation unify by their effects, captures and Yield being ignored.
unify_types(t1, t2) ==
    CASE t1.t = "Var" -> BindType(t1.v, t2)
      [] t1.t # "Var" /\ t2.t = "Var" -> BindType(t2.v, t1)
      [] t1.t \in Callables /\ t2.t \in Callables -> unify_effects(t1.e, t2.e)
      [] {t1.t, t2.t} = {"Union", "Variant"} -> EmptySubst
      [] OTHER -> IF t1 = t2 THEN EmptySubst ELSE NoSubst

\* Faulty: a row variable is only bound when it is on the left.
UnifyStacksLeft(s1, s2) ==
    IF IsRow(s1) THEN BindRow(s1.row, s2)
    ELSE IF IsCons(s1) /\ IsCons(s2)
         THEN UnifyUnder(unify_types(Top(s1), Top(s2)), Rest(s1), Rest(s2))
    ELSE IF s1 = Empty /\ s2 = Empty THEN EmptySubst ELSE NoSubst

unify_stacks(s1, s2) ==
    IF IsRow(s1) THEN BindRow(s1.row, s2)
    ELSE IF IsRow(s2) THEN BindRow(s2.row, s1)
    ELSE IF IsCons(s1) /\ IsCons(s2)
         THEN UnifyUnder(unify_types(Top(s1), Top(s2)), Rest(s1), Rest(s2))
    ELSE IF ~IsCons(s1) /\ ~IsCons(s2) THEN EmptySubst ELSE NoSubst
=============================================================================
