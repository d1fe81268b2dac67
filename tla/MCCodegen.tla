------------------------------ MODULE MCCodegen ------------------------------
(***************************************************************************)
(* The code generator for TLC: InlineCode, what the code computes, and      *)
(* Emit, how it is put together.  A program is of one kind, and each kind   *)
(* has its own vocabulary; those of Emit keep clear of the constructs of    *)
(* which it is known that the generator gets them wrong (README, section    *)
(* 5).  Emit's state does not move while InlineCode's does, and the other   *)
(* way round.                                                               *)
(***************************************************************************)
EXTENDS Integers, Sequences

VARIABLES
    kind,
    ref, code, regs, exact, steps,  \* InlineCode
    body, out                       \* Emit

-----------------------------------------------------------------------------
(* Executions: arithmetic, bits, shuffles, and calls of specialized words.  *)
MCArith == {"i.+", "i.-", "i.*", "i./", "i.%", "i.pow", "i.<", "i.=", "i.>=", "negate"}
MCBits == {"band", "bor", "bxor", "bnot", "shl", "shr", "popcount", "clz", "ctz", "i.+",
           "i.*", "i.>", "i.<>", "i.<="}
MCShuffle == {"drop", "dup", "swap", "over", "rot", "nip", "tuck", "twodup", "threedrop",
              "pick", "roll", ">aux", "aux>", "i.+", "i.<", "and", "or", "not"}
MCDispatch == {"i.+", "i.-", "i.*", "i.<", "drop", "dup", "swap", "not"}

MCNumbers == {-4, -1, 0, 1, 2, 3}
MCPair == {<<>>, <<1>>, <<-4, 3>>, <<3, -1>>}
MCTriple == {<<1, 2, 3>>, <<1, 2, 3, -1>>}

(* ( Int -- Int ), ( Int Int -- Int Int ) and ( -- Int ).                   *)
MCWords ==
    [next |-> [ins |-> 1, body |-> <<<<"int", 1>>, <<"op", "i.+">>>>],
     order |-> [ins |-> 2, body |-> <<<<"op", "over">>, <<"op", "over">>, <<"op", "i.-">>,
                                      <<"op", "swap">>, <<"op", "rot">>, <<"op", "drop">>>>],
     zero |-> [ins |-> 0, body |-> <<<<"int", 0>>>>]]

Arithmetic == INSTANCE InlineCode WITH W <- 4, MaxVirtual <- 2, Words <- <<>>,
    Vocabulary <- MCArith, Params <- MCPair, Literals <- MCNumbers, MaxSteps <- 5, MaxDepth <- 4
Bits == INSTANCE InlineCode WITH W <- 4, MaxVirtual <- 2, Words <- <<>>,
    Vocabulary <- MCBits, Params <- MCPair, Literals <- MCNumbers, MaxSteps <- 5, MaxDepth <- 3
Shuffling == INSTANCE InlineCode WITH W <- 4, MaxVirtual <- 2, Words <- <<>>,
    Vocabulary <- MCShuffle, Params <- MCTriple, Literals <- 0 .. 3, MaxSteps <- 4, MaxDepth <- 6
Dispatch == INSTANCE InlineCode WITH W <- 4, MaxVirtual <- 3, Words <- MCWords,
    Vocabulary <- MCDispatch, Params <- {<<>>}, Literals <- MCNumbers, MaxSteps <- 6, MaxDepth <- 4

-----------------------------------------------------------------------------
(* Programs to compile.                                                     *)
Num(n) == [k |-> "int", n |-> n]
Bool == [k |-> "bool"]
Str == [k |-> "str"]
Op(op) == [k |-> "op", op |-> op]
Calling(ins, outs) == [k |-> "word", ins |-> ins, outs |-> outs]
Self == [k |-> "self"]
CallIt == [k |-> "call"]
If(then) == [k |-> "if", then |-> then, else |-> <<>>, has |-> FALSE]
IfElse(then, else) == [k |-> "if", then |-> then, else |-> else, has |-> TRUE]
Quot(ins, stmts) == [k |-> "quot", ins |-> ins, caps |-> <<>>, body |-> stmts]
Closure(ins, caps, stmts) == [k |-> "quot", ins |-> ins, caps |-> caps, body |-> stmts]
Match(one, two) == [k |-> "match", arms |-> <<[of |-> "One", body |-> one], [of |-> "Two", body |-> two]>>]
Partial(one) == [k |-> "match", arms |-> <<[of |-> "One", body |-> one]>>]

UnionFields == [One |-> <<"Heap">>, Two |-> <<"Heap", "Int">>]
HeapOnly == <<"Heap">>
IntPair == <<"Int", "Int">>
OneInt == <<"Int">>

HeapWord == Calling(<<"Heap">>, <<"Heap">>)
HeapBodies == {<<>>, <<HeapWord>>, <<Self>>, <<Op("dup"), Op("drop")>>, <<Op("peek"), If(<<HeapWord>>)>>,
               <<Str, Op("drop")>>, <<Quot(HeapOnly, <<HeapWord>>), CallIt>>,
               <<Op("dup"), Op(">aux"), Quot(HeapOnly, <<HeapWord>>), CallIt, Op("drop"), Op("aux>"), HeapWord>>}
HeapIfs == {IfElse(a, b) : a, b \in HeapBodies} \cup {If(a) : a \in HeapBodies}

(***************************************************************************)
(* Branches, nested branches, tail calls of words and quotations.           *)
(***************************************************************************)
ControlStatements == HeapIfs \cup {HeapWord, Self, Op("dup"), Op("drop"), Op("peek"), Op("swap"),
                           Quot(HeapOnly, <<Op("peek"), IfElse(<<HeapWord>>, <<Op("dup"), Op("drop")>>)>>),
                           CallIt}

(***************************************************************************)
(* Matches, of which some arm does not end in a call, and closures.         *)
(***************************************************************************)
MatchStatements == {Match(a, <<Op("drop")>> \o b) : a \in {<<>>, <<HeapWord>>, <<Op("peek"), If(<<HeapWord>>)>>},
                                              b \in {<<>>, <<Op("dup"), Op("drop")>>}}
             \cup {Partial(<<>>), Op("wrap"), Op("dup"), Op("drop"), HeapWord, Str, Op("run"), Op("peek"),
                   Closure(<<>>, HeapOnly, <<HeapWord>>),
                   Closure(HeapOnly, HeapOnly, <<Op("drop"), HeapWord>>),
                   If(<<Closure(<<>>, HeapOnly, <<Op("peek"), IfElse(<<HeapWord>>, <<Self>>)>>), CallIt>>),
                   CallIt}

(***************************************************************************)
(* Constant indices, copies after literals and the specialized versions.    *)
(***************************************************************************)
IntBodies == {<<>>, <<Num(1), Op("add")>>, <<Op("dup"), Op("add")>>, <<Num(0), Op("drop")>>}
IntIfs == {IfElse(a, b) : a, b \in IntBodies} \cup {If(a) : a \in IntBodies}
NumberStatements == IntIfs \cup {Num(0), Num(1), Bool, Op("dup"), Op("pick"), Op("add"), Op("less"), Op("drop"), Self,
                          Op("not")}
DivisionStatements == {IfElse(a, b) : a, b \in {<<>>, <<Num(1), Op("add")>>, <<Self>>}}
              \cup {Op("div"), Op("mod"), Op("dup"), Op("drop"), Op("swap"), Op("less"), Num(0), Self}

(***************************************************************************)
(* Words lowered to loops.                                                  *)
(***************************************************************************)
LoopStatements == {IfElse(a, b \o <<Self>>) : a \in {<<>>, <<HeapWord>>, <<Op("length"), Op("drop"), Str>>},
                                       b \in {<<>>, <<HeapWord>>, <<Op("peek"), Op("drop")>>}}
           \cup {Op("peek"), HeapWord, Op("dup"), Op("drop"), Str}

Control == INSTANCE Emit WITH Statements <- ControlStatements, Fields <- UnionFields,
    Ins <- HeapOnly, Outs <- HeapOnly, IsMain <- FALSE, LoopOpt <- FALSE, MaxLength <- 4
InMain == INSTANCE Emit WITH Statements <- ControlStatements, Fields <- UnionFields,
    Ins <- HeapOnly, Outs <- HeapOnly, IsMain <- TRUE, LoopOpt <- FALSE, MaxLength <- 3
Matches == INSTANCE Emit WITH Statements <- MatchStatements, Fields <- UnionFields,
    Ins <- HeapOnly, Outs <- HeapOnly, IsMain <- FALSE, LoopOpt <- FALSE, MaxLength <- 4
Numbers == INSTANCE Emit WITH Statements <- NumberStatements, Fields <- UnionFields,
    Ins <- IntPair, Outs <- IntPair, IsMain <- FALSE, LoopOpt <- FALSE, MaxLength <- 5
Division == INSTANCE Emit WITH Statements <- DivisionStatements, Fields <- UnionFields,
    Ins <- IntPair, Outs <- OneInt, IsMain <- FALSE, LoopOpt <- FALSE, MaxLength <- 5
Loops == INSTANCE Emit WITH Statements <- LoopStatements, Fields <- UnionFields,
    Ins <- HeapOnly, Outs <- HeapOnly, IsMain <- FALSE, LoopOpt <- TRUE, MaxLength <- 5

-----------------------------------------------------------------------------
executionVars == <<ref, code, regs, exact, steps>>

Executions == {"arithmetic", "bits", "shuffles", "dispatch"}
NoProgram == body = <<>> /\ out = [fns |-> {}, faults |-> {}]
NoExecution == ref = 0 /\ code = 0 /\ regs = 0 /\ exact = TRUE /\ steps = 0

KindInit ==
    \/ /\ NoProgram
       /\ \/ kind = "arithmetic" /\ Arithmetic!Init
          \/ kind = "bits" /\ Bits!Init
          \/ kind = "shuffles" /\ Shuffling!Init
          \/ kind = "dispatch" /\ Dispatch!Init
    \/ /\ NoExecution
       /\ \/ kind = "control" /\ Control!Init
          \/ kind = "main" /\ InMain!Init
          \/ kind = "matches" /\ Matches!Init
          \/ kind = "numbers" /\ Numbers!Init
          \/ kind = "division" /\ Division!Init
          \/ kind = "loops" /\ Loops!Init

KindNext ==
    /\ UNCHANGED kind
    /\ \/ /\ UNCHANGED <<body, out>>
          /\ \/ kind = "arithmetic" /\ Arithmetic!Next
             \/ kind = "bits" /\ Bits!Next
             \/ kind = "shuffles" /\ Shuffling!Next
             \/ kind = "dispatch" /\ Dispatch!Next
       \/ /\ UNCHANGED executionVars
          /\ \/ kind = "control" /\ Control!Next
             \/ kind = "main" /\ InMain!Next
             \/ kind = "matches" /\ Matches!Next
             \/ kind = "numbers" /\ Numbers!Next
             \/ kind = "division" /\ Division!Next
             \/ kind = "loops" /\ Loops!Next

CodegenIdle == NoProgram /\ NoExecution

-----------------------------------------------------------------------------
(* Spilled at any point, the inlined code's stack is the stack the runtime  *)
(* functions leave, overflow included, and the registers of the specialized *)
(* version hold the values they compute as long as no result has left the   *)
(* range of an Int; likewise the stack where specialized words are called.  *)
CodeAgrees ==
    kind \in Executions =>
        IF kind = "dispatch" THEN Dispatch!DispatchAgrees
        ELSE Arithmetic!TypeOK /\ Arithmetic!InlineAgrees /\ Arithmetic!RegistersAgree

(* Every function that is emitted is well formed: each block ends in one    *)
(* terminator with nothing after it, phi nodes name exactly the             *)
(* predecessors of their block, and musttail stays where it is allowed.     *)
(* The register version of an empty word is the known exception.            *)
FunctionsWellFormed ==
    /\ body # <<>> => Control!Terminated
    /\ Control!NothingAfterRet
    /\ Control!PhiMatchesEdges /\ Control!MusttailAllowed

(* In the programs of this module, what the generator remembers of the last *)
(* statement, the types and the aux slots is true where it decides by it:   *)
(* what is copied without counting needs no counting, a constant index is   *)
(* the one on the stack, and an aux access is to its own slot. The programs *)
(* have no literal right before an if or a quotation whose body then copies *)
(* a counted value or picks, no copy inside a lowered loop and no if of     *)
(* which both branches leave a value in aux: there what is remembered is of *)
(* another statement, and the decision is wrong.                            *)
DecisionsSound ==
    Control!RawCopySound /\ Control!ConstantIndexSound /\ Control!AuxPointerExact
=============================================================================
