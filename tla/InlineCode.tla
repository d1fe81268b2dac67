-------------------------------- MODULE InlineCode --------------------------------
(***************************************************************************)
(* Straight-line code, run three ways side by side.                         *)
(*                                                                          *)
(*   ref   the runtime functions, one call per word, on tagged slots: what  *)
(*         the language means;                                              *)
(*   code  the code the compiler inlines: slots in memory, up to MaxVirtual *)
(*         values above them held in registers (the virtual stack), and the *)
(*         literal the previous statement pushed;                           *)
(*   regs  the specialized version of the same word, whose whole stack is   *)
(*         in registers that are never tagged.                              *)
(*                                                                          *)
(* A call of a word of Words takes the specialized version when the virtual *)
(* stack holds its arguments and the stack version otherwise.               *)
(***************************************************************************)
EXTENDS IntOps, Sequences, SequencesExt

CONSTANTS
    MaxVirtual,  \* MAX_VIRTUAL_STACK
    Params,      \* the stacks of Ints a word is entered with
    Literals,    \* the Ints a program writes
    Vocabulary,  \* the builtins a program calls
    Words,       \* specialized words: name -> [ins, outs, body]
    MaxSteps,    \* bound on the statements executed
    MaxDepth     \* bound on the values on the stack

VARIABLES ref, code, regs, exact, steps

vars == <<ref, code, regs, exact, steps>>

Arith == {"i.+", "i.-", "i.*"}
BitBinary == {"band", "bor", "bxor"}
Compares == {"i.=", "i.<>", "i.<", "i.>", "i.<=", "i.>="}
Divisions == {"i./", "i.%"}
Shifts == {"shl", "shr"}
Counts == {"popcount", "clz", "ctz"}
IntPairs == Arith \cup BitBinary \cup Compares \cup Divisions \cup Shifts \cup {"i.pow"}
IntUnary == Counts \cup {"bnot", "negate"}
Logic == {"and", "or"}

(***************************************************************************)
(* The slots a shuffle leaves, as indices into the slots it takes, deepest  *)
(* first.                                                                   *)
(***************************************************************************)
Shuffles ==
    [drop |-> <<1, <<>>>>, dup |-> <<1, <<1, 1>>>>, swap |-> <<2, <<2, 1>>>>,
     over |-> <<2, <<1, 2, 1>>>>, rot |-> <<3, <<2, 3, 1>>>>, nip |-> <<2, <<2>>>>,
     tuck |-> <<2, <<2, 1, 2>>>>, twodup |-> <<2, <<1, 2, 1, 2>>>>,
     threedrop |-> <<3, <<>>>>]

NotSpecializable == {"twodup", "threedrop", "negate", "i.pow", ">aux", "aux>"}

Taken(op) ==
    CASE op \in DOMAIN Shuffles -> Shuffles[op][1]
      [] op \in IntPairs \cup Logic -> 2
      [] op \in IntUnary \cup {"not", ">aux", "pick", "roll"} -> 1
      [] op = "aux>" -> 0

Below(s, n) == SubSeq(s, 1, Len(s) - n)
TopN(s, n) == SubSeq(s, Len(s) - n + 1, Len(s))
Shuffled(op, top) == [i \in DOMAIN Shuffles[op][2] |-> top[Shuffles[op][2][i]]]
Moved(s, n) == RemoveAt(s, Len(s) - n) \o <<s[Len(s) - n]>>

(***************************************************************************)
(* The runtime functions.  st is the tagged stack, aux the values a word    *)
(* has set aside; exact says whether every result was an Int.               *)
(***************************************************************************)
RunInts(op, a, b) ==
    CASE op \in Arith \cup BitBinary -> <<Binary(op, a, b)>>
      [] op \in Shifts -> <<RunShift(op, a, b)>>
      [] op \in Divisions -> Divide(op, a, b)
      [] op = "i.pow" -> Pow(a, b)
      [] op \in Compares -> <<Compare(op, a, b)>>

Tagged(op, results) ==
    [i \in DOMAIN results |->
        IF op \in Compares \/ i = 2 THEN TagBool(results[i]) ELSE TagInt(results[i])]

RunUnary(op, v) ==
    CASE op \in Counts -> RunCount(op, v)
      [] op = "bnot" -> -v - 1
      [] op = "negate" -> Signed(-v)

Pushed(r, slots) == [r EXCEPT !.st = Below(@, slots[1]) \o slots[2]]

RunOp(r, op) ==
    LET top == TopN(r.st, Taken(op)) IN
    CASE op \in IntPairs ->
            Pushed(r, <<2, Tagged(op, RunInts(op, Payload(top[1]), Payload(top[2])))>>)
      [] op \in IntUnary -> Pushed(r, <<1, <<TagInt(RunUnary(op, Payload(top[1])))>>>>)
      [] op = "and" -> Pushed(r, <<2, <<TagBool(Truth(top[1] # 0 /\ top[2] # 0))>>>>)
      [] op = "or" -> Pushed(r, <<2, <<TagBool(Truth(top[1] # 0 \/ top[2] # 0))>>>>)
      [] op = "not" -> Pushed(r, <<1, <<TagBool(Truth(top[1] = 0))>>>>)
      [] op \in DOMAIN Shuffles -> Pushed(r, <<Taken(op), Shuffled(op, top)>>)
      [] op = "pick" -> Pushed(r, <<1, <<r.st[Len(r.st) - 1 - Payload(top[1])]>>>>)
      [] op = "roll" -> [r EXCEPT !.st = Moved(Below(@, 1), Payload(top[1]))]
      [] op = ">aux" -> [st |-> Below(r.st, 1), aux |-> r.aux \o top]
      [] op = "aux>" -> [st |-> Append(r.st, Last(r.aux)), aux |-> Front(r.aux)]

RunStatement(r, s) ==
    CASE s[1] = "int" -> Pushed(r, <<0, <<TagInt(s[2])>>>>)
      [] s[1] = "bool" -> Pushed(r, <<0, <<TagBool(s[2])>>>>)
      [] s[1] = "op" -> RunOp(r, s[2])

ExactOp(r, op) ==
    LET top == TopN(r.st, Taken(op)) IN
    CASE op \in IntPairs -> FitsInt(RunInts(op, Payload(top[1]), Payload(top[2]))[1])
      [] op \in IntUnary -> FitsInt(RunUnary(op, Payload(top[1])))
      [] OTHER -> TRUE

ExactStatement(r, s) == s[1] = "op" => ExactOp(r, s[2])

(***************************************************************************)
(* The inlined code.  A virtual value is [bool, raw].                       *)
(***************************************************************************)
StoreOf(v) == IF v.bool THEN TagBool(v.raw) ELSE TagInt(v.raw)

Spill(c) ==
    [c EXCEPT !.mem = @ \o [i \in DOMAIN c.virt |-> StoreOf(c.virt[i])], !.virt = <<>>]

PushVirtualLate(c, v) ==
    LET room == IF Len(c.virt) > MaxVirtual THEN Spill(c) ELSE c
    IN  [room EXCEPT !.virt = Append(@, v)]

PushVirtual(c, v) ==
    LET room == IF Len(c.virt) >= MaxVirtual THEN Spill(c) ELSE c
    IN  [room EXCEPT !.virt = Append(@, v)]

InMemory(c, n, slots) == [c EXCEPT !.mem = Below(@, n) \o slots]

BinaryInMemory(c, op) ==
    LET m == Spill(c)
        top == TopN(m.mem, 2)
    IN  InMemory(m, 2, <<TagInt(Binary(op, Payload(top[1]), Payload(top[2])))>>)

InlineBinaryUnordered(c, op) ==
    LET top == TopN(c.virt, 2) IN
    IF Len(c.virt) >= 2 /\ ~top[1].bool /\ ~top[2].bool
    THEN PushVirtual([c EXCEPT !.virt = Below(@, 2)],
                     [bool |-> FALSE, raw |-> Binary(op, top[2].raw, top[1].raw)])
    ELSE BinaryInMemory(c, op)

InlineBinary(c, op) ==
    LET top == TopN(c.virt, 2) IN
    IF Len(c.virt) >= 2 /\ ~top[1].bool /\ ~top[2].bool
    THEN PushVirtual([c EXCEPT !.virt = Below(@, 2)],
                     [bool |-> FALSE, raw |-> Binary(op, top[1].raw, top[2].raw)])
    ELSE BinaryInMemory(c, op)

InlinePick(m) ==
    LET n == IF m.lit >= 0 THEN m.lit ELSE Payload(Last(m.mem))
    IN  InMemory(m, 1, <<m.mem[Len(m.mem) - 1 - n]>>)

InlineRoll(m) ==
    LET n == IF m.lit >= 0 THEN m.lit ELSE Payload(Last(m.mem))
        rest == Below(m.mem, 1)
        top == TopN(rest, n + 1)
    IN  [m EXCEPT !.mem =
            CASE n = 0 -> rest
              [] n = 1 -> Below(rest, 2) \o <<top[2], top[1]>>
              [] n = 2 -> Below(rest, 3) \o <<top[2], top[3], top[1]>>
              [] OTHER -> Below(rest, n + 1) \o Tail(top) \o <<top[1]>>]

InlineAux(m, op) ==
    IF op = ">aux"
    THEN [m EXCEPT !.mem = Below(@, 1), !.slots[m.auxSp + 1] = Last(m.mem), !.auxSp = @ + 1]
    ELSE [m EXCEPT !.mem = Append(@, m.slots[m.auxSp]), !.auxSp = @ - 1]

(***************************************************************************)
(* The words inlined on memory once the virtual stack is spilled, and the   *)
(* division and power that call the runtime.                                *)
(***************************************************************************)
InlineMemory(m, op) ==
    LET top == TopN(m.mem, Taken(op))
        a == Payload(top[1])
        b == Payload(top[2])
    IN  CASE op \in BitBinary -> InMemory(m, 2, <<TagInt(Binary(op, a, b))>>)
          [] op \in Compares -> InMemory(m, 2, <<TagBool(Compare(op, a, b))>>)
          [] op \in Shifts -> InMemory(m, 2, <<TagInt(EmitShift(op, a, b))>>)
          [] op \in Divisions -> InMemory(m, 2, Tagged(op, Divide(op, a, b)))
          [] op = "i.pow" -> InMemory(m, 2, Tagged(op, Pow(a, b)))
          [] op \in Counts -> InMemory(m, 1, <<TagInt(EmitCount(op, a))>>)
          [] op = "bnot" -> InMemory(m, 1, <<TagInt(Signed(Unsigned(a) ^^ Unsigned(-1)))>>)
          [] op = "negate" -> InMemory(m, 1, <<TagInt(Signed(0 - a))>>)
          [] op = "and" -> InMemory(m, 2, <<TagBool(Truth(Unsigned(a) & Unsigned(b) # 0))>>)
          [] op = "or" -> InMemory(m, 2, <<TagBool(Truth(Unsigned(a) | Unsigned(b) # 0))>>)
          [] op = "not" -> InMemory(m, 1, <<TagBool(Truth(a = 0))>>)
          [] op \in DOMAIN Shuffles -> InMemory(m, Taken(op), Shuffled(op, top))

InlineOp(c, op) ==
    IF op \in Arith THEN InlineBinary(c, op)
    ELSE CASE op = "pick" -> InlinePick(Spill(c))
           [] op = "roll" -> InlineRoll(Spill(c))
           [] op \in {">aux", "aux>"} -> InlineAux(Spill(c), op)
           [] OTHER -> InlineMemory(Spill(c), op)

(***************************************************************************)
(* prev_stmt_int_value holds the literal for the next statement only.       *)
(***************************************************************************)
AfterKeepingLiteral(c, s) == [c EXCEPT !.lit = IF s[1] = "int" THEN s[2] ELSE @]

After(c, s) == [c EXCEPT !.lit = IF s[1] = "int" THEN s[2] ELSE -1]

InlineStatement(c, s) ==
    After(CASE s[1] = "int" -> PushVirtual(c, [bool |-> FALSE, raw |-> s[2]])
            [] s[1] = "bool" -> PushVirtual(c, [bool |-> TRUE, raw |-> s[2]])
            [] s[1] = "op" -> InlineOp(c, s[2]),
          s)

(***************************************************************************)
(* The specialized version: registers r.vals, whether an srem was undefined *)
(* and whether every statement so far could be specialized.                 *)
(***************************************************************************)
SpecInts(op, a, b) ==
    CASE op \in Arith \cup BitBinary \cup Logic ->
            <<IF op = "and" THEN Binary("band", a, b)
              ELSE IF op = "or" THEN Binary("bor", a, b) ELSE Binary(op, a, b)>>
      [] op \in Compares -> <<Compare(op, a, b)>>
      [] op \in Shifts -> <<EmitShift(op, a, b)>>
      [] op \in Divisions -> EmitDiv(op, a, b)

SpecUnaryWide(op, v) ==
    IF op = "clz" THEN LeadingZeros(v) ELSE Signed(Unsigned(v) ^^ Unsigned(-1))

SpecUnary(op, v) ==
    CASE op \in Counts -> EmitCount(op, v)
      [] op = "bnot" -> Signed(Unsigned(v) ^^ Unsigned(-1))
      [] op = "not" -> Signed(Unsigned(v) ^^ 1)

\* A shuffle only renames registers.
RegShuffle(r, op) ==
    [r EXCEPT !.vals = Below(@, Taken(op)) \o Shuffled(op, TopN(@, Taken(op)))]

SpecOp(r, op) ==
    LET top == TopN(r.vals, Taken(op)) IN
    CASE op \in NotSpecializable \/ (op \in {"pick", "roll"} /\ ~r.lit) ->
            [r EXCEPT !.on = FALSE, !.vals = <<>>]
      [] op \in IntPairs \cup Logic ->
            [r EXCEPT !.vals = Below(@, 2) \o SpecInts(op, top[1], top[2]),
                      !.ub = @ \/ UndefinedDiv(op, top[1], top[2])]
      [] op \in IntUnary \cup {"not"} ->
            [r EXCEPT !.vals = Below(@, 1) \o <<SpecUnary(op, top[1])>>]
      [] op \in DOMAIN Shuffles -> RegShuffle(r, op)
      [] op = "pick" -> [r EXCEPT !.vals = Below(@, 1) \o <<@[Len(@) - 1 - Last(@)]>>]
      [] op = "roll" -> [r EXCEPT !.vals = Moved(Below(@, 1), Last(@))]

SpecStatement(r, s) ==
    IF ~r.on THEN r
    ELSE [(IF s[1] = "op" THEN SpecOp(r, s[2]) ELSE [r EXCEPT !.vals = Append(@, s[2])])
          EXCEPT !.lit = s[1] = "int"]

(***************************************************************************)
(* A call of a word: its body in the runtime's terms, its stack version     *)
(* after a spill, or its specialized version on the virtual arguments,      *)
(* whose Int and Bool results both come back as virtual Ints.               *)
(***************************************************************************)
Executed(word, r) == FoldLeft(RunStatement, r, Words[word].body)
Fresh(mem) == [mem |-> mem, virt |-> <<>>, lit |-> -1, auxSp |-> 0, slots |-> <<>>]
StackVersion(word, mem) == Spill(FoldLeft(InlineStatement, Fresh(mem), Words[word].body)).mem
NewRegs(vals) == [on |-> TRUE, vals |-> vals, ub |-> FALSE, lit |-> FALSE]
SpecVersion(word, vals) == FoldLeft(SpecStatement, NewRegs(vals), Words[word].body)

PushAllReversed(c, raws) ==
    FoldLeft(LAMBDA m, v : PushVirtual(m, [bool |-> FALSE, raw |-> v]), c, Reverse(raws))

PushAll(c, raws) == FoldLeft(LAMBDA m, v : PushVirtual(m, [bool |-> FALSE, raw |-> v]), c, raws)

Dispatchable(word, c) == Len(c.virt) >= Words[word].ins

InlineCall(c, word) ==
    LET n == Words[word].ins
        args == [i \in 1 .. n |-> TopN(c.virt, n)[i].raw]
        spilled == Spill(c)
    IN  [(IF Dispatchable(word, c)
          THEN PushAll([c EXCEPT !.virt = Below(@, n)], SpecVersion(word, args).vals)
          ELSE [spilled EXCEPT !.mem = StackVersion(word, @)])
         EXCEPT !.lit = -1]

(***************************************************************************)
(* Whether a statement is well typed and in range on the reference stack.   *)
(***************************************************************************)
AllInts(slots) == \A i \in DOMAIN slots : IsInt(slots[i])
NoInts(slots) == \A i \in DOMAIN slots : ~IsInt(slots[i])

Applicable(r, op) ==
    LET top == TopN(r.st, Taken(op)) IN
    /\ Len(r.st) >= Taken(op)
    /\ op \in IntPairs \cup IntUnary \cup {"pick", "roll"} => AllInts(top)
    /\ op \in Logic \cup {"not"} => NoInts(top)
    /\ op \in {"pick", "roll"} => Payload(top[1]) \in 0 .. Len(r.st) - 2
    /\ op = ">aux" => Len(r.aux) < MaxDepth
    /\ op = "aux>" => r.aux # <<>>

InlinePushed(c) == Spill(c).mem

Init ==
    \E p \in Params :
        /\ ref = [st |-> [i \in DOMAIN p |-> TagInt(p[i])], aux |-> <<>>]
        /\ code = [Fresh([i \in DOMAIN p |-> TagInt(p[i])])
                   EXCEPT !.slots = [i \in 1 .. MaxDepth |-> 0]]
        /\ regs = NewRegs(p)
        /\ exact = TRUE
        /\ steps = 0

Execute(s) ==
    /\ ref' = RunStatement(ref, s)
    /\ code' = InlineStatement(code, s)
    /\ regs' = SpecStatement(regs, s)
    /\ exact' = (exact /\ ExactStatement(ref, s))

Literal ==
    /\ Len(ref.st) < MaxDepth
    /\ \/ \E n \in Literals : Execute(<<"int", n>>)
       \/ \E b \in {0, 1} : Execute(<<"bool", b>>)

Builtin ==
    \E op \in Vocabulary :
        /\ Applicable(ref, op)
        /\ Execute(<<"op", op>>)
        /\ Len(ref'.st) <= MaxDepth

ExactBody(word) ==
    LET Step(acc, s) == [st |-> RunStatement(acc.st, s),
                         ok |-> acc.ok /\ ExactStatement(acc.st, s)]
    IN  FoldLeft(Step, [st |-> ref, ok |-> TRUE], Words[word].body).ok

CallWord ==
    \E word \in DOMAIN Words :
        LET n == Words[word].ins IN
        /\ Len(ref.st) >= n
        /\ AllInts(TopN(ref.st, n))
        /\ ref' = Executed(word, ref)
        /\ code' = InlineCall(code, word)
        /\ regs' = IF regs.on
                   THEN LET r == SpecVersion(word, TopN(regs.vals, n))
                        IN  [r EXCEPT !.vals = Below(regs.vals, n) \o @, !.ub = @ \/ regs.ub,
                                      !.lit = FALSE]
                   ELSE regs
        /\ exact' = (exact /\ ExactBody(word))

Next == steps < MaxSteps /\ steps' = steps + 1 /\ (Literal \/ Builtin \/ CallWord)

Spec == Init /\ [][Next]_vars

-----------------------------------------------------------------------------
(***************************************************************************)
(* Properties.                                                              *)
(***************************************************************************)
Aux(c) == SubSeq(c.slots, 1, c.auxSp)

(* The virtual stack never exceeds its capacity, and slots and registers    *)
(* hold machine words.                                                      *)
TypeOK ==
    /\ Len(code.virt) <= MaxVirtual
    /\ \A i \in DOMAIN code.virt : code.virt[i].raw \in IntMin .. -IntMin - 1
    /\ \A i \in DOMAIN code.mem : code.mem[i] \in 0 .. 2^W - 1
    /\ \A i \in DOMAIN regs.vals : regs.vals[i] \in IntMin .. -IntMin - 1

(* Spilled at any point, the inlined code's stack is the stack the runtime  *)
(* functions leave, overflow included: sums and products may overflow in    *)
(* the virtual stack's wider registers, and every operation that would see  *)
(* the difference works on spilled slots.                                   *)
InlineAgrees == InlinePushed(code) = ref.st /\ Aux(code) = ref.aux

(* The same while no result has left the range of an Int: what calls of     *)
(* specialized words need, since they are given untagged registers.         *)
DispatchAgrees == exact => InlineAgrees

(* While no result has left the range of an Int, the registers of the       *)
(* specialized version hold the values the runtime functions compute.       *)
RegistersAgree ==
    exact /\ regs.on =>
        /\ Len(regs.vals) = Len(ref.st)
        /\ \A i \in DOMAIN ref.st :
              regs.vals[i] = IF IsInt(ref.st[i]) THEN Payload(ref.st[i]) ELSE ref.st[i] \div 2

(* As bitwise_i63.rs has it, the register path never drifts from the tagged *)
(* one: the values it holds are those of the tagged slots, once tagged.     *)
PathsNeverDrift ==
    regs.on => \A i \in DOMAIN ref.st :
        (IF IsInt(ref.st[i]) THEN TagInt(regs.vals[i]) ELSE TagBool(regs.vals[i])) = ref.st[i]

(* A division or modulo emitted as safe is never undefined for LLVM.        *)
SafeDivision == ~regs.ub

(* i.pow reports success only with base^exp as its result.                  *)
PowHonest == [][
    \A base, exp \in I63Min .. I63Max :
        /\ Len(ref.st) >= 2 /\ TopN(ref.st, 2) = <<TagInt(base), TagInt(exp)>>
        /\ ref' = RunOp(ref, "i.pow") /\ Last(ref'.st) = TagBool(1) /\ exp >= 0
        => FitsInt(Power(base, exp)) /\ ref'.st[Len(ref'.st) - 1] = TagInt(Power(base, exp))]_vars

====
