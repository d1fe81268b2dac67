------------------------------- MODULE MCFront -------------------------------
(***************************************************************************)
(* The compiler front end for TLC: the type checker over four vocabularies, *)
(* unification over pairs of stacks, the walks over includes and calls, and *)
(* the lints that simulate a stack.  A behavior is of one kind; what        *)
(* belongs to the other kinds keeps a fixed value.  The vocabularies of the *)
(* lints and of the checker keep clear of the constructs of which it is     *)
(* known that they are judged wrongly (README, section 5).                  *)
(***************************************************************************)
EXTENDS TypeChecker

VARIABLES
    kind,
    left, right,                                                       \* the pairs to unify
    incs, broken, included, ffi, merged, result, seen, found, todo,    \* Includes
    edges, index_counter, indices, lowlinks, frames, sccs, recursive_sccs,  \* CallGraph
    stack,                                                             \* of either walk
    program, phase, frontier, coop, reported,                          \* ChanYieldLint
    analyzer, line, real, lint, collect, warned, branch                \* StackLints

-----------------------------------------------------------------------------
(* Bodies for the type checker.                                             *)
W(n) == [k |-> "word", n |-> n]
I(n) == [k |-> "int", i |-> n]
L(ty) == [k |-> "lit", ty |-> ty, v |-> ""]
Make(v) == [k |-> "lit", ty |-> UnionT(Variants[v].u), v |-> v]
If(a, b) == [k |-> "if", then |-> a, else |-> b]
Q(id, body) == [k |-> "quot", id |-> id, body |-> body]
Arm(v, body) == [v |-> v, named |-> FALSE, bind |-> <<>>, body |-> body]
ArmOf(v, fields, body) == [v |-> v, named |-> TRUE, bind |-> fields, body |-> body]
M(arms) == [k |-> "match", arms |-> arms]
Word1(ins, outs) == Eff(Stk(Rigid, ins), Stk(Rigid, outs), FALSE)

MCSigs == ("w" :> Word1(<<IntT, StringT>>, <<IntT>>)) @@ ("help" :> Word1(<<IntT>>, <<IntT, IntT>>)) @@
          ("each" :> Word1(<<IntT, Quotation(Eff(Stk(<<"q">>, <<IntT>>), Stk(<<"q">>, <<IntT>>), FALSE))>>,
                           <<IntT>>))
MCVariants == ("Some" :> [u |-> "Opt", f |-> <<<<"value", IntT>>, <<"tag", StringT>>>>]) @@
              ("None" :> [u |-> "Opt", f |-> <<>>])

\* Straight-line code, the aux stack, conditionals, sugar and recursion.
MCBasic ==
    {I(0), I(1), L(BoolT)} \cup
    {W(n) : n \in {"drop", "swap", "over", "i.=", "+", ">aux", "aux>", "pick", "roll", "help", "w"}} \cup
    {If(<<W("drop")>>, <<W("nip")>>), If(<<W(">aux")>>, <<I(1), W(">aux"), W("drop")>>),
     If(<<I(1), W(">aux"), W("dup"), W(">aux"), W("aux>"), W("aux>"), W("drop"), W("drop")>>, <<>>),
     If(<<W("yield")>>, <<>>), If(<<W("over"), W("help"), W("drop"), W("drop")>>, <<>>),
     If(<<W("help")>>, <<>>)}

\* Quotations and the words that take them.
MCQuots ==
    {I(1), L(BoolT)} \cup {W(n) : n \in {"call", "dip", "keep", "bi", "if", "drop", "swap"}} \cup
    {Q(1, <<I(1), W("i.+")>>), Q(2, <<W("drop")>>), Q(3, <<W("swap"), W("drop")>>),
     Q(4, <<W("i.+")>>), Q(5, <<Q(6, <<I(1), W("i.+")>>), W("dip")>>)}

\* Closures: `each` calls its quotation on one Int, the rest is captured.
MCClosures ==
    {I(1), L(StringT), W("each"), W("drop"), W("swap")} \cup
    {Q(1, <<W("i.+")>>), Q(2, <<W("nip"), W("nip")>>), Q(3, <<I(1), W("i.+")>>), Q(4, <<W("drop"), W("drop")>>)}

\* Unions and match.
MCMatch ==
    {I(1), Make("Some"), Make("None"), W("drop"), W("swap"), W(">aux"), W("aux>"),
     M(<<Arm("Some", <<W("drop")>>), Arm("None", <<I(1)>>)>>),
     M(<<ArmOf("Some", <<"tag">>, <<W(">aux"), W("aux>"), W("drop")>>), Arm("None", <<>>)>>),
     M(<<ArmOf("Some", <<"tag", "value">>, <<W("swap"), W("drop"), W(">aux")>>),
         Arm("None", <<I(1), W(">aux")>>)>>),
     M(<<ArmOf("Some", <<"tag", "value">>, <<>>)>>)}

MCVocabulary == [basic |-> MCBasic, quots |-> MCQuots, closures |-> MCClosures, match |-> MCMatch]
MCMaxBody == [basic |-> 4, quots |-> 4, closures |-> 4, match |-> 5]

-----------------------------------------------------------------------------
(* Pairs of stacks.                                                         *)
MCRows == {NoRow, <<"a">>, <<"b">>}
MCTypes == {Basic("Int"), Basic("Variant"), UnionT("Shape"), TVar(<<"T">>), TVar(<<"U">>)}

MCMaxVals == 3

PairsInit == left \in {Stk(r, <<>>) : r \in MCRows} /\ right \in {Stk(r, <<>>) : r \in MCRows}

PushLeft(ty) == /\ Len(left.vals) < MCMaxVals /\ left' = Push(left, ty)
                /\ UNCHANGED right
PushRight(ty) == /\ Len(right.vals) < MCMaxVals /\ right' = Push(right, ty)
                 /\ UNCHANGED left
PairsNext == \E ty \in MCTypes : PushLeft(ty) \/ PushRight(ty)

unified == unify_stacks(left, right)

\* Equal up to the relaxation between a union and the bare Variant.
SameType(t1, t2) == t1 = t2 \/ {t1.t, t2.t} = {"Union", "Variant"}
SameStack(a, b) == /\ a.row = b.row /\ Len(a.vals) = Len(b.vals)
                   /\ \A i \in DOMAIN a.vals : SameType(a.vals[i], b.vals[i])

\* The substitution that unify_stacks returns makes the two stacks the same one,
\* in a single application (apply_stack does not chase what it puts in).
UnifierWorks ==
    unified.ok => SameStack(apply_stack(unified, left), apply_stack(unified, right))

\* The order of the arguments decides which variable is bound, never whether
\* the stacks unify.
UnifySymmetric == unified.ok <=> unify_stacks(right, left).ok

\* Ground instances: every assignment of base types to the type variables and
\* of the stacks below to the row variables.
GroundTypes == {ty \in MCTypes : ty.t # "Var"}
GroundStacks == {Empty} \cup {Stk(NoRow, <<ty>>) : ty \in GroundTypes}
VarsOf(st) == {st.vals[i].v : i \in {j \in DOMAIN st.vals : st.vals[j].t = "Var"}}
RowsOf(st) == {st.row} \ {NoRow}
Assignments == [types : [VarsOf(left) \cup VarsOf(right) -> GroundTypes],
                rows : [RowsOf(left) \cup RowsOf(right) -> GroundStacks],
                ok : {TRUE}]

\* Nothing is refused that has an instance: when some assignment of ground types
\* and stacks makes the two sides equal, unify_stacks succeeds.
UnifyComplete ==
    (\E a \in Assignments : apply_stack(a, left) = apply_stack(a, right)) => unified.ok

-----------------------------------------------------------------------------
(* Three files, two embedded modules of which one includes the other, one   *)
(* FFI library and one file that does not exist.                            *)
Targets == {"m", "a", "b", "s", "f", "x"}
Lists(n) == UNION {[1..k -> Targets] : k \in 0..n}
MCTrees == {[m |-> p, a |-> q, b |-> r, s |-> <<"t">>, t |-> <<>>, f |-> <<>>, x |-> <<>>] :
              p \in Lists(2), q \in Lists(2), r \in Lists(1)}
MCDefs(s) == CASE s = "m" -> {"main"} [] s = "a" -> {"u", "v"} [] s = "b" -> {"w"}
               [] s = "s" -> {"s"} [] s = "t" -> {"v"} [] OTHER -> {}

Including == INSTANCE Includes WITH
    Files <- {"m", "a", "b"}, Main <- "m", Embedded <- {"s", "t"}, Ffi <- {"f"}, Missing <- {"x"},
    Trees <- MCTrees, Broken <- {{}, {"b"}}, Defs <- MCDefs, MaxDepth <- 10

-----------------------------------------------------------------------------
(* Every call relation of three words; for the chan.yield lint all of them  *)
(* yield and at most one spawns.                                            *)
MCWords == {"a", "b", "c"}
MCGraphs == [MCWords -> SUBSET MCWords]
MCPrograms ==
    UNION {UNION {{[calls |-> g, spawners |-> {s}, yields |-> MCWords,
                    spawned |-> [w \in MCWords |-> IF w = s THEN q ELSE {}]] : q \in SUBSET g[s]}
                  : s \in MCWords} : g \in MCGraphs}
    \cup {[calls |-> g, spawners |-> {}, yields |-> MCWords, spawned |-> [w \in MCWords |-> {}]]
          : g \in MCGraphs}

Calling == INSTANCE CallGraph WITH Words <- MCWords, Graphs <- MCGraphs
Yielding == INSTANCE ChanYieldLint WITH Words <- MCWords, Programs <- MCPrograms

-----------------------------------------------------------------------------
(* The stack lints: resources along one path, through either arm of a       *)
(* branch and of a match, what a word returns to its caller, error flags.   *)
Moves == {"dup", "drop", "swap", "over", "rot", "nip", "tuck", ">aux", "aux>"}
Leaking == INSTANCE StackLints WITH
    Analyzers <- {"word", "program"}, Branches <- {}, InputCount <- 0, KnownCallee <- TRUE, Gap <- 1, MaxWords <- 5,
    Words <- Moves \cup {"lit", "chan.make", "chan.close", "strand.weave", "strand.weave-cancel",
                         "strand.resume", "2dup", "3drop"}
Branching == INSTANCE StackLints WITH
    Analyzers <- {"word", "program"}, Branches <- {"if"}, InputCount <- 0, KnownCallee <- TRUE, Gap <- 1, MaxWords <- 6,
    Words <- {"lit", "chan.make", "chan.close", "strand.weave", "strand.weave-cancel", "drop"}
Armed == INSTANCE StackLints WITH
    Analyzers <- {"word"}, Branches <- {"match"}, InputCount <- 0, KnownCallee <- TRUE, Gap <- 1, MaxWords <- 8,
    Words <- {"lit", "chan.make", "chan.close", "drop"}
Returning == INSTANCE StackLints WITH
    Analyzers <- {"program"}, Branches <- {}, InputCount <- 0, KnownCallee <- TRUE, Gap <- 1, MaxWords <- 5,
    Words <- Moves \cup {"lit", "chan.make", "chan.close", "strand.weave", "strand.spawn", "list.push",
                         "map.set", "callee"}
Flagging == INSTANCE StackLints WITH
    Analyzers <- {"flags"}, Branches <- {"if", "match"}, InputCount <- 0, KnownCallee <- TRUE, Gap <- 3, MaxWords <- 5,
    Words <- Moves \cup {"lit", "i./", "file.delete", "io.read-line", "not", "and", "test.assert"}
Checking == INSTANCE StackLints WITH
    Analyzers <- {"flags"}, Branches <- {"if", "match"}, InputCount <- 0, KnownCallee <- TRUE, Gap <- 3, MaxWords <- 5,
    Words <- {"lit", "i./", "file.delete", "io.read-line", "not", "and", "test.assert", "drop", "swap",
              "rot", "nip", ">aux", "aux>"}

-----------------------------------------------------------------------------
typing == <<voc, check, machine, cur, done>>
including == <<incs, broken, included, ffi, merged, result, seen, found, todo>>
calling == <<edges, index_counter, indices, lowlinks, frames, sccs, recursive_sccs>>
yielding == <<program, phase, frontier, coop, reported>>
linting == <<analyzer, line, real, lint, collect, warned, branch>>

Idle(v) == v = <<>>
NoTyping == Idle(voc) /\ Idle(check) /\ Idle(machine) /\ Idle(cur) /\ Idle(done)
NoPair == Idle(left) /\ Idle(right)
NoIncludes == /\ Idle(incs) /\ Idle(broken) /\ Idle(included) /\ Idle(ffi) /\ Idle(merged)
              /\ Idle(result) /\ Idle(seen) /\ Idle(found) /\ Idle(todo)
NoCalls == /\ Idle(edges) /\ Idle(index_counter) /\ Idle(indices) /\ Idle(lowlinks)
           /\ Idle(frames) /\ Idle(sccs) /\ Idle(recursive_sccs)
NoYields == Idle(program) /\ Idle(phase) /\ Idle(frontier) /\ Idle(coop) /\ Idle(reported)
NoLint == /\ Idle(analyzer) /\ Idle(line) /\ Idle(real) /\ Idle(lint) /\ Idle(collect)
          /\ Idle(warned) /\ Idle(branch)

frontVars == <<vars, left, right, including, calling, stack, yielding, linting>>
FrontIdle == /\ NoTyping /\ Idle(size) /\ NoPair /\ NoIncludes /\ NoCalls /\ NoYields /\ NoLint
             /\ Idle(stack)

KindInit ==
    \/ /\ kind = "types" /\ Init
       /\ NoPair /\ NoIncludes /\ NoCalls /\ NoYields /\ NoLint /\ Idle(stack)
    \/ /\ kind = "pairs" /\ PairsInit
       /\ NoTyping /\ Idle(size) /\ NoIncludes /\ NoCalls /\ NoYields /\ NoLint /\ Idle(stack)
    \/ /\ kind = "includes" /\ Including!Init
       /\ NoTyping /\ Idle(size) /\ NoPair /\ NoCalls /\ NoYields /\ NoLint
    \/ /\ kind = "calls" /\ Calling!Init
       /\ NoTyping /\ Idle(size) /\ NoPair /\ NoIncludes /\ NoYields /\ NoLint
    \/ /\ kind = "yields" /\ Yielding!Init
       /\ NoTyping /\ Idle(size) /\ NoPair /\ NoIncludes /\ NoCalls /\ NoLint /\ Idle(stack)
    \/ /\ NoTyping /\ NoPair /\ NoIncludes /\ NoCalls /\ NoYields /\ Idle(stack)
       /\ \/ kind = "leaks" /\ Leaking!Init
          \/ kind = "branches" /\ Branching!Init
          \/ kind = "arms" /\ Armed!Init
          \/ kind = "returns" /\ Returning!Init
          \/ kind = "flags" /\ Flagging!Init
          \/ kind = "checks" /\ Checking!Init

KindNext ==
    /\ UNCHANGED kind
    /\ \/ /\ kind = "types" /\ Next
          /\ UNCHANGED <<left, right, including, calling, stack, yielding, linting>>
       \/ /\ kind = "pairs" /\ PairsNext
          /\ UNCHANGED <<typing, size, including, calling, stack, yielding, linting>>
       \/ /\ kind = "includes" /\ Including!Next
          /\ UNCHANGED <<typing, size, left, right, calling, yielding, linting>>
       \/ /\ kind = "calls" /\ Calling!Next
          /\ UNCHANGED <<typing, size, left, right, including, yielding, linting>>
       \/ /\ kind = "yields" /\ Yielding!Next
          /\ UNCHANGED <<typing, size, left, right, including, calling, stack, linting>>
       \/ /\ UNCHANGED <<typing, left, right, including, calling, stack, yielding>>
          /\ \/ kind = "leaks" /\ Leaking!Next
             \/ kind = "branches" /\ Branching!Next
             \/ kind = "arms" /\ Armed!Next
             \/ kind = "returns" /\ Returning!Next
             \/ kind = "flags" /\ Flagging!Next
             \/ kind = "checks" /\ Checking!Next

-----------------------------------------------------------------------------
(* What was inferred is what the execution has, said of each vocabulary as  *)
(* far as it holds there. Straight-line code, conditionals and quotations   *)
(* neither underflow nor meet a value of another type; with match too the   *)
(* inferred stack is the real one. A word of the basic vocabulary that is   *)
(* accepted leaves what it declares, has the aux slots it uses and yields   *)
(* only if it says so; there and with match it has emptied them. Of         *)
(* closures only this is claimed: what they capture has the types recorded  *)
(* for it.                                                                  *)
InferredIsSo ==
    /\ voc \in {"basic", "quots"} => NoUnderflow /\ NoTypeConfusion
    /\ voc \in {"basic", "quots", "match"} => StackShape
    /\ voc = "basic" => DeclaredOutputs /\ AuxSlots /\ YieldDeclared
    /\ voc \in {"basic", "match"} => AuxBalanced
    /\ voc = "closures" => EnvTyped

(* On bodies over the four vocabularies no statement the type checker lets  *)
(* pass leads to a state in which InferredIsSo fails, and what it tells the *)
(* code generator to copy bit by bit before the statement is, in the basic  *)
(* vocabulary, an Int, a Bool or a Float. This is less than soundness of    *)
(* the checker: an execution ends, with nothing said of it, at a literal    *)
(* pick or roll past the inputs and at a match on a value that is no union; *)
(* no vocabulary has a branch that ends in a call of the word itself, or a  *)
(* spawn; and errors inside capturing quotations are not counted. With      *)
(* those it does not hold.                                                  *)
TypesSound == [][kind = "types" => InferredIsSo' /\ (voc = "basic" => CopyableTop)]_<<kind, vars>>

(* What the front end computes is what its definition says, whatever the    *)
(* order of hash sets and however includes and calls are cyclic: a unifier  *)
(* is found whenever there is one, in one application and in either order   *)
(* of the arguments; each source is merged once and all are; the components *)
(* are the strongly connected ones; and the yields reported are those no    *)
(* spawned code comes to.                                                   *)
AnalysesExact ==
    /\ kind = "pairs" => UnifierWorks /\ UnifySymmetric /\ UnifyComplete
    /\ kind = "includes" => Including!MergedOnce /\ Including!AllMerged /\ Including!ServerSeesProgram
    /\ kind = "calls" =>
         /\ Calling!TypeOK /\ Calling!FramesNested /\ Calling!LowlinkSound
         /\ Calling!ComponentsExact /\ Calling!AnswersExact
    /\ kind = "yields" => Yielding!ReportExact

(* What the stack lints promise, said of each kind of body. Along one path, *)
(* leaks: every tracked value is followed through shuffles and the aux      *)
(* stack, a drop that loses a resource is warned about, a warning is about  *)
(* a value that was dropped there, and none is about a resource that was    *)
(* closed or handed on. Branches and arms: a word that loses a resource in  *)
(* the arm it takes has a warning of some sort, and a resource from before  *)
(* the branch that one arm closes and the other keeps is noticed. Returns:  *)
(* the first pass finds what a word returns. Flags and checks: the late     *)
(* drop of a flag nobody looked at is warned about, and a flag that was     *)
(* looked at is not. Not claimed is that a warning always means a loss: the *)
(* drop of one of two copies is reported too.                               *)
LintsHonest ==
    /\ kind \in {"leaks", "arms"} => Leaking!StackMirrored
    /\ kind \in {"branches", "arms"} => Leaking!NoCleanLeak
    /\ kind = "leaks" => Leaking!LeakWarned
    /\ kind \in {"leaks", "returns"} => Leaking!SpentNotWarned
    /\ kind = "branches" => Leaking!ArmsCompared
    /\ kind = "returns" => Leaking!ReturnsTrue
    /\ kind \in {"leaks", "flags"} => Leaking!WarnedWasDropped
    /\ kind = "flags" => Flagging!FlagDropWarned
    /\ kind = "checks" => Flagging!CheckedNotWarned
=============================================================================
