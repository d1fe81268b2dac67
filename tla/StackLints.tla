------------------------------- MODULE StackLints -------------------------------
(***************************************************************************)
(* The lints that simulate a word's stack: resource leaks                   *)
(* (crates/compiler/src/resource_lint, the single-word and the program-wide *)
(* analyzer) and unchecked error flags (error_flag_lint).  A word is built  *)
(* statement by statement; each statement is simulated by the lint and, for *)
(* comparison, executed with the effect the builtin really has.  A branch   *)
(* is built arm by arm; when it is complete the lint joins its two states   *)
(* and the execution is left in either of the two.                          *)
(*                                                                          *)
(* A value is known by what the lints tell apart, and by the line of the    *)
(* statement that made it.  Lines are Gap apart.                            *)
(***************************************************************************)
EXTENDS Integers, Sequences, SequencesExt, FiniteSets, FiniteSetsExt, Functions

CONSTANTS
    Analyzers,   \* among "word", "program", "flags"
    Words,       \* the vocabulary
    Branches,    \* branches a word may have: among "if", "match"
    InputCount,  \* values the word takes from its caller
    KnownCallee, \* whether the word it calls is defined before it
    Gap,
    MaxWords     \* bound on the statements of the word

VARIABLES
    analyzer,  \* the lint that runs
    line,      \* line of the next statement
    size,      \* statements so far
    real,      \* the execution
    lint,      \* the lint's StackState or FlagStack
    collect,   \* the program-wide analyzer's first pass
    warned,    \* diagnostics: what they are about
    branch     \* the branch that is being built: where, and the states set aside

vars == <<analyzer, line, size, real, lint, collect, warned, branch>>

Resources == {"Channel", "WeaveHandle"}

(* A value of the execution or of a lint; plain ones are StackValue::Unknown. *)
Value(t, id, at) == [t |-> t, id |-> id, line |-> at]
Plain == Value("plain", 0, 0)

Lines(seq) == {v.line : v \in Range(seq)} \ {0}
PopN(seq, n) == SubSeq(seq, 1, Len(seq) - Min({n, Len(seq)}))
Topmost(seq, n) == SubSeq(seq, Len(seq) - Min({n, Len(seq)}) + 1, Len(seq))

-----------------------------------------------------------------------------
(***************************************************************************)
(* The stack words: how many operands, and which of them are left, from the *)
(* lowest to the topmost.                                                   *)
(***************************************************************************)
Shuffles == [w \in {"drop", "dup", "swap", "over", "rot", "nip", "tuck", "2dup", "3drop"} |->
    CASE w = "drop" -> [takes |-> 1, leaves |-> <<>>]
      [] w = "dup" -> [takes |-> 1, leaves |-> <<1, 1>>]
      [] w = "swap" -> [takes |-> 2, leaves |-> <<2, 1>>]
      [] w = "over" -> [takes |-> 2, leaves |-> <<1, 2, 1>>]
      [] w = "rot" -> [takes |-> 3, leaves |-> <<2, 3, 1>>]
      [] w = "nip" -> [takes |-> 2, leaves |-> <<2>>]
      [] w = "tuck" -> [takes |-> 2, leaves |-> <<2, 1, 2>>]
      [] w = "2dup" -> [takes |-> 2, leaves |-> <<1, 2, 1, 2>>]
      [] w = "3drop" -> [takes |-> 3, leaves |-> <<>>]]

IsShuffle(w) == w \in DOMAIN Shuffles
Takes(w) == Shuffles[w].takes
Leaves(w) == Shuffles[w].leaves

(* A popped value that is not pushed back.                                  *)
Forgotten(w, operands, missing) ==
    SelectSeq([i \in 1 .. Len(operands) |->
                  IF i + missing \in Range(Leaves(w)) THEN Plain ELSE operands[i]],
              LAMBDA v : v # Plain)

-----------------------------------------------------------------------------
(***************************************************************************)
(* What the builtins really take and leave: the signatures the type checker *)
(* holds a program to.  "user" is a word that looks at a flag it is given,  *)
(* "callee" one that returns a channel.                                     *)
(***************************************************************************)
AnyKind == {"plain", "flag"} \cup Resources

Operands(w) ==
    CASE w \in {"lit", "chan.make", "io.read-line", "callee", "aux>"} -> <<>>
      [] w \in {"strand.weave", "strand.spawn", "file.delete", "call"} -> <<{"plain"}>>
      [] w \in {"chan.close", "chan.receive"} -> <<{"Channel"}>>
      [] w = "strand.weave-cancel" -> <<{"WeaveHandle"}>>
      [] w = "strand.resume" -> <<{"WeaveHandle"}, {"plain"}>>
      [] w = "chan.send" -> <<AnyKind, {"Channel"}>>
      [] w = "list.push" -> <<{"plain"}, AnyKind>>
      [] w = "map.set" -> <<{"plain"}, {"plain"}, AnyKind>>
      [] w = "i./" -> <<{"plain"}, {"plain"}>>
      [] w \in {"not", "user", "test.assert"} -> <<{"flag"}>>
      [] w = "and" -> <<{"flag", "plain"}, {"flag"}>>
      [] w = "dip" -> <<AnyKind, {"plain"}>>  \* [ ] dip
      [] w = "roll" -> <<AnyKind, AnyKind, {"plain"}>>  \* 1 roll
      [] w = ">aux" -> <<AnyKind>>
      [] IsShuffle(w) -> [i \in 1 .. Takes(w) |-> AnyKind]

Accepts(w, stack) ==
    /\ Len(stack) >= Len(Operands(w))
    /\ \A i \in 1 .. Len(Operands(w)) : Topmost(stack, Len(Operands(w)))[i].t \in Operands(w)[i]

Made(w, at, operands) ==
    CASE w \in {"chan.make", "callee"} -> <<Value("Channel", 0, at)>>
      [] w = "strand.weave" -> <<Value("WeaveHandle", 0, at)>>
      [] w \in {"file.delete", "chan.send"} -> <<Value("flag", 0, at)>>
      [] w \in {"i./", "io.read-line", "chan.receive"} -> <<Plain, Value("flag", 0, at)>>
      [] w = "strand.resume" -> <<operands[1], Plain, Plain>>
      [] w \in {"lit", "strand.spawn", "list.push", "map.set", "not", "and"} -> <<Plain>>
      [] w = "dip" -> <<operands[1]>>
      [] w = "roll" -> <<operands[2], operands[1]>>
      [] IsShuffle(w) -> [i \in 1 .. Len(Leaves(w)) |-> operands[Leaves(w)[i]]]
      [] OTHER -> <<>>

(* What becomes of the operands that are not left: closed, in someone       *)
(* else's hands, looked at, or dropped.                                     *)
Executed(w, at, r) ==
    LET operands == Topmost(r.stack, Len(Operands(w)))
        rest == PopN(r.stack, Len(Operands(w)))
        made == Made(w, at, operands)
        lost == IF IsShuffle(w) THEN {v.line : v \in Range(Forgotten(w, operands, 0))} ELSE {}
    IN [r EXCEPT
         !.stack = IF w = "aux>" THEN Append(rest, Last(r.aux)) ELSE rest \o made,
         !.aux = IF w = ">aux" THEN Append(@, operands[1]) ELSE IF w = "aux>" THEN Front(@) ELSE @,
         !.made = @ \cup (Lines(made) \ Lines(operands)),
         !.closed = IF w \in {"chan.close", "strand.weave-cancel"} THEN @ \cup Lines(operands) ELSE @,
         !.given = CASE w \in {"list.push", "map.set"} -> @ \cup Lines(<<Last(operands)>>)
                     [] w = "chan.send" -> @ \cup Lines(<<operands[1]>>)
                     [] w = "strand.spawn" -> @ \cup Lines(rest)
                     [] OTHER -> @,
         !.checked = IF w \in {"not", "and", "user", "test.assert"} THEN @ \cup Lines(operands) ELSE @,
         !.dropped = @ \cup {[line |-> m, at |-> at] : m \in lost},
         !.spent = @ \cup {[line |-> m, at |-> at] : m \in lost \cap (r.closed \cup r.given)}]

Runs(w, r) == Accepts(w, r.stack) /\ (w = "aux>" => r.aux # <<>>)

-----------------------------------------------------------------------------
(***************************************************************************)
(* StackState and FlagStack.                                                *)
(***************************************************************************)
Push(L, values) == [L EXCEPT !.stack = @ \o values]
Pop(L, n) == [L EXCEPT !.stack = PopN(@, n)]

push_resource(L, kind, at) ==
    [L EXCEPT !.stack = Append(@, Value(kind, L.next_id, at)), !.next_id = @ + 1]

Consume(L, values) ==
    [L EXCEPT !.consumed = @ \cup {v.id : v \in {u \in Range(values) : u.t \in Resources}}]

(* A closing word consumes what it pops if it is of its kind.               *)
(* Faulty variant: whatever it is.                                          *)
ClosesNothing(L, kind) == Pop(L, 1)

Closes(L, kind) ==
    Consume(Pop(L, 1), SelectSeq(Topmost(L.stack, 1), LAMBDA v : v.t = kind))

(* The stack words pop what there is and push it back in the new order;     *)
(* copies of what is not there are unknown to some of the analyzers.        *)
(* Faulty variant: nip drops the topmost value.                             *)
ShuffledNip(a, w, L) ==
    LET have == Min({Takes(w), Len(L.stack)})
        operands == Topmost(L.stack, Takes(w))
        leaves == SelectSeq(IF w = "nip" THEN <<1>> ELSE Leaves(w), LAMBDA i : i > Takes(w) - have)
    IN [L EXCEPT !.stack = PopN(@, have)
                           \o [i \in 1 .. Len(leaves) |-> operands[leaves[i] - (Takes(w) - have)]]]

Shuffled(a, w, L) ==
    LET have == Min({Takes(w), Len(L.stack)})
        missing == Takes(w) - have
        operands == Topmost(L.stack, Takes(w))
        leaves == SelectSeq(Leaves(w), LAMBDA i : i > missing)
        unknown == CASE w \in {"dup", "over"} /\ a = "word" -> <<Plain>>
                     [] w = "2dup" /\ a \in {"word", "program"} -> <<Plain, Plain>>
                     [] OTHER -> <<>>
    IN IF missing > 0 /\ w \in {"dup", "over", "2dup"} THEN Push(L, unknown)
       ELSE [L EXCEPT !.stack = PopN(@, have)
                                \o [i \in 1 .. Len(leaves) |-> operands[leaves[i] - missing]]]

-----------------------------------------------------------------------------
(***************************************************************************)
(* analyze_word_call and simulate_word_common.  The words neither knows     *)
(* leave the lint's stack as it is.                                         *)
(***************************************************************************)
Shared(w, L, at) ==
    CASE w = "strand.weave" -> push_resource(Pop(L, 1), "WeaveHandle", at)
      [] w = "chan.make" -> push_resource(L, "Channel", at)
      [] w = "strand.weave-cancel" -> Closes(L, "WeaveHandle")
      [] w = "chan.close" -> Closes(L, "Channel")
      [] w = "strand.spawn" -> Push(Consume(Pop(L, 1), PopN(L.stack, 1)), <<Plain>>)
      [] OTHER -> L

(* The words the first pass over a program ("collect") does not know.       *)
SecondPassOnly == {"strand.resume", "2dup", "3drop", "roll", "chan.send", "chan.receive"}

SecondPass(w, L) ==
    CASE w = "strand.resume" ->
            Push(Pop(L, 2), [i \in 1 .. 3 |->
                IF i = 3 \/ 2 - i >= Len(L.stack) THEN Plain ELSE L.stack[Len(L.stack) - (2 - i)]])
      [] w = "roll" -> Push(Pop(L, 1), <<Plain>>)
      [] w \in {"chan.send", "chan.receive"} -> Push(Pop(L, 2), <<Plain, Plain>>)

(* What only the program-wide analyzer knows: containers, and the words of  *)
(* the program that it has been through.                                    *)
ProgramWords == {"list.push", "map.set", "callee"}

ProgramWord(a, w, L, at) ==
    CASE w = "list.push" -> Push(Consume(Pop(L, 2), Topmost(L.stack, 1)), <<Plain>>)
      [] w = "map.set" -> Push(Consume(Pop(L, 3), Topmost(L.stack, 1)), <<Plain>>)
      [] w = "callee" -> IF a = "program" \/ KnownCallee THEN push_resource(L, "Channel", at) ELSE L

ResourceWord(a, w, L, at) ==
    CASE w \in SecondPassOnly -> IF a = "collect" THEN L ELSE SecondPass(w, L)
      [] w \in ProgramWords -> IF a = "word" THEN L ELSE ProgramWord(a, w, L, at)
      [] OTHER -> Shared(w, L, at)

(* fallible_op_info: inputs and values before the Bool.                     *)
Fallible == [w \in {"i./", "file.delete", "io.read-line", "chan.send", "chan.receive"} |->
    CASE w = "i./" -> <<2, 1>>
      [] w = "file.delete" -> <<1, 0>>
      [] w = "io.read-line" -> <<0, 1>>
      [] w = "chan.send" -> <<2, 0>>
      [] w = "chan.receive" -> <<1, 1>>]

(* A quotation may do anything to the flags.                                *)
NoFlags(L) == [L EXCEPT !.stack = SelectSeq(@, LAMBDA v : v.t # "flag")]

(* The words that take a flag count as a check, and so does calling a       *)
(* quotation; words it does not know leave the lint's stack as it is.       *)
(* Faulty variant: the flag comes below the value.                          *)
FlagWordBelow(w, L, at) ==
    CASE w \in DOMAIN Fallible ->
            Push(Pop(L, Fallible[w][1]),
                 <<Value("flag", 0, at)>> \o [i \in 1 .. Fallible[w][2] |-> Plain])
      [] w = "call" -> NoFlags(Pop(L, 1))
      [] w = "dip" -> Push(NoFlags(Pop(L, 2)), PopN(Topmost(L.stack, 2), 1))
      [] w = "test.assert" -> Pop(L, 1)
      [] w = "not" -> Push(Pop(L, 1), <<Plain>>)
      [] w = "and" -> Push(Pop(L, 2), <<Plain>>)
      [] w = "roll" -> Push(L, <<Plain>>)
      [] OTHER -> L

FlagWord(w, L, at) ==
    CASE w \in DOMAIN Fallible ->
            Push(Pop(L, Fallible[w][1]),
                 [i \in 1 .. Fallible[w][2] |-> Plain] \o <<Value("flag", 0, at)>>)
      [] w = "call" -> NoFlags(Pop(L, 1))
      [] w = "dip" -> Push(NoFlags(Pop(L, 2)), PopN(Topmost(L.stack, 2), 1))
      [] w = "test.assert" -> Pop(L, 1)
      [] w = "not" -> Push(Pop(L, 1), <<Plain>>)
      [] w = "and" -> Push(Pop(L, 2), <<Plain>>)
      [] w = "roll" -> Push(L, <<Plain>>)
      [] OTHER -> L

Simulated(a, w, L, at) ==
    CASE w = "lit" -> Push(L, <<Plain>>)
      [] w = ">aux" -> [Pop(L, 1) EXCEPT !.aux = @ \o Topmost(L.stack, 1)]
      [] w = "aux>" -> [Push(L, Topmost(L.aux, 1)) EXCEPT !.aux = PopN(@, 1)]
      [] IsShuffle(w) /\ ~(a = "collect" /\ w \in SecondPassOnly) -> Shuffled(a, w, L)
      [] a = "flags" -> FlagWord(w, L, at)
      [] OTHER -> ResourceWord(a, w, L, at)

Collected(w, L, at) == Simulated("collect", w, L, at)

(* The warnings of the dropping words: resources that are not consumed, and *)
(* flags that were not made on the lines just above.                        *)
(* Faulty variant: a consumed resource too.                                 *)
WarnsOfAll(a, L, v, at) == IF a = "flags" THEN at > v.line + 2 ELSE TRUE

WarnsOf(a, L, v, at) == IF a = "flags" THEN at > v.line + 2 ELSE v.id \notin L.consumed

(* Faulty variants: nip does not warn; it warns about both its operands.    *)
DropWarningsDrop(a, w, L, at) ==
    IF w \notin {"drop", "3drop"} THEN {}
    ELSE {[line |-> v.line, at |-> at] :
             v \in {u \in Range(Topmost(L.stack, Takes(w))) \ {Plain} : WarnsOf(a, L, u, at)}}

DropWarningsBoth(a, w, L, at) ==
    IF w \notin {"drop", "nip", "3drop"} THEN {}
    ELSE {[line |-> v.line, at |-> at] :
             v \in {u \in Range(Topmost(L.stack, Takes(w))) \ {Plain} : WarnsOf(a, L, u, at)}}

DropWarnings(a, w, L, at) ==
    IF ~IsShuffle(w) THEN {}
    ELSE LET operands == Topmost(L.stack, Takes(w))
             lost == Range(Forgotten(w, operands, Takes(w) - Len(operands)))
         IN {[line |-> v.line, at |-> at] : v \in {u \in lost : WarnsOf(a, L, u, at)}}

-----------------------------------------------------------------------------
(***************************************************************************)
(* Branches: merge finds what one arm consumed and the other still has,     *)
(* join makes the state to go on with.                                      *)
(***************************************************************************)
Held(L) == SelectSeq(L.stack, LAMBDA v : v.t \in Resources)

(* Faulty variant: only the second arm's consumption counts.                *)
MergeOneSided(a, L, M) ==
    {v.line : v \in {u \in Range(Held(L)) : u.id \in M.consumed \ L.consumed}}

Merge(a, L, M) ==
    {v.line : v \in {u \in Range(Held(L)) : u.id \in M.consumed \ L.consumed}}
    \cup {v.line : v \in {u \in Range(Held(M)) : u.id \in L.consumed \ M.consumed}}

Overlaid(s, t) ==
    [i \in 1 .. Len(s) |-> IF s[i] = Plain /\ i <= Len(t) THEN t[i] ELSE s[i]]

Widened(s, t) == Overlaid(s, t) \o SubSeq(t, Len(s) + 1, Len(t))

(* What the second arm holds and the joined stack does not is put on top of *)
(* it, in the order of a HashMap.                                           *)
(* Faulty variant: what either arm consumed is consumed.                    *)
JoinEither(a, L, M) ==
    {[L EXCEPT !.stack = Overlaid(L.stack, M.stack), !.consumed = L.consumed \cup M.consumed]}

Join(a, L, M) ==
    LET both == L.consumed \cap M.consumed
        stack == Overlaid(L.stack, M.stack)
        extra == {v \in Range(Held(M)) : /\ v.id \notin {u.id : u \in Range(stack) \ {Plain}}
                                         /\ v.id \notin both}
    IN IF a = "flags"
       THEN {[L EXCEPT !.stack = Widened(L.stack, M.stack), !.aux = Widened(L.aux, M.aux)]}
       ELSE {[stack |-> stack \o pushed,
              aux |-> IF Len(L.aux) >= Len(M.aux) THEN L.aux ELSE M.aux,
              consumed |-> both,
              next_id |-> Max({L.next_id, M.next_id})] : pushed \in SetToSeqs(extra)}

(* An arm that names its fields pushes them; the program-wide analyzer does *)
(* not know that.                                                           *)
(* Faulty variant: neither do the others.                                   *)
ArmBare(a, kind, L) == Pop(L, 1)

Arm(a, kind, L) ==
    IF kind = "match" /\ a \in {"word", "flags"} THEN Push(Pop(L, 1), <<Plain>>) ELSE Pop(L, 1)

RealArm(kind, r) ==
    [r EXCEPT !.stack = IF kind = "match" THEN Append(Front(@), Plain) ELSE Front(@),
              !.checked = @ \cup Lines(<<Last(r.stack)>>)]

-----------------------------------------------------------------------------
NoState == [stack |-> <<>>, aux |-> <<>>, consumed |-> {}, next_id |-> 0]
NoRun == [stack |-> [i \in 1 .. InputCount |-> Plain], aux |-> <<>>, made |-> {}, closed |-> {},
          given |-> {}, checked |-> {}, dropped |-> {}, spent |-> {}]
NoBranch == [at |-> "none", kind |-> "if", real |-> NoRun, lint |-> NoState, collect |-> NoState,
             other |-> NoRun, first |-> NoState, firstCollect |-> NoState, before |-> {},
             differ |-> {}]

Init ==
    /\ analyzer \in Analyzers
    /\ line = 1 /\ size = 0
    /\ real = NoRun
    /\ lint = NoState /\ collect = NoState
    /\ warned = [drop |-> {}, arms |-> {}]
    /\ branch = NoBranch

Statement ==
    /\ size < MaxWords
    /\ size' = size + 1
    /\ line' = line + Gap

WordCall(w) ==
    /\ Statement /\ Runs(w, real)
    /\ real' = Executed(w, line, real)
    /\ lint' = Simulated(analyzer, w, lint, line)
    /\ collect' = Collected(w, collect, line)
    /\ warned' = [warned EXCEPT !.drop = @ \cup DropWarnings(analyzer, w, lint, line)]
    /\ UNCHANGED <<analyzer, branch>>

(* if pops its condition, match its value; the first arm starts.            *)
BeginBranch(kind) ==
    /\ Statement /\ branch.at = "none" /\ real.stack # <<>>
    /\ Last(real.stack).t \in (IF kind = "if" THEN {"plain", "flag"} ELSE {"plain"})
    /\ LET r == RealArm(kind, real)
           L == Arm(analyzer, kind, lint)
           c == Arm("program", kind, collect)
       IN /\ real' = r /\ lint' = L /\ collect' = c
          /\ branch' = [NoBranch EXCEPT !.at = "first", !.kind = kind, !.real = r, !.lint = L,
                                        !.collect = c, !.before = real.made]
    /\ UNCHANGED <<analyzer, warned>>

SecondArm ==
    /\ branch.at = "first"
    /\ branch' = [branch EXCEPT !.at = "second", !.other = real, !.first = lint, !.firstCollect = collect]
    /\ real' = branch.real /\ lint' = branch.lint /\ collect' = branch.collect
    /\ UNCHANGED <<analyzer, line, size, warned>>

SameShape(r, q) ==
    LET Kinds(s) == [i \in 1 .. Len(s) |-> s[i].t]
    IN Kinds(r.stack) = Kinds(q.stack) /\ Kinds(r.aux) = Kinds(q.aux)

ClosedInOne(r, q) == (r.closed \ q.closed) \cap Lines(q.stack)

EndBranch ==
    /\ branch.at = "second" /\ SameShape(real, branch.other)
    /\ real' \in {real, branch.other}
    /\ lint' \in Join(analyzer, branch.first, lint)
    /\ collect' \in Join("collect", branch.firstCollect, collect)
    /\ warned' = [warned EXCEPT !.arms = @ \cup Merge(analyzer, branch.first, lint)]
    /\ branch' = [NoBranch EXCEPT !.at = "done", !.before = branch.before,
                                  !.differ = ClosedInOne(real, branch.other) \cup ClosedInOne(branch.other, real)]
    /\ UNCHANGED <<analyzer, line, size>>

Next ==
    \/ \E w \in Words : WordCall(w)
    \/ \E kind \in Branches : BeginBranch(kind)
    \/ SecondArm
    \/ EndBranch

Spec == Init /\ [][Next]_vars

-----------------------------------------------------------------------------
Complete == branch.at \in {"none", "done"}
Straight == branch.at \in {"none", "first"}  \* one path so far

Alike(L, r) ==
    \* a lint's stack against the execution's
    /\ Len(L) = Len(r)
    /\ \A i \in 1 .. Len(L) : {L[i].t, r[i].t} \cap Resources # {} => L[i].line = r[i].line

(* Drops that lose a resource: no copy of it is left, and it was neither    *)
(* closed nor handed on.                                                    *)
Leaks ==
    {d \in real.dropped : d.line \notin UNION {real.closed, real.given, Lines(real.stack), Lines(real.aux)}}

(* Along one path the simulation is exact: it knows every tracked value at  *)
(* its place, through every shuffle, the aux stack and into a branch.       *)
StackMirrored ==
    analyzer # "flags" /\ Straight => Alike(lint.stack, real.stack) /\ Alike(lint.aux, real.aux)

(* Along one path every drop that loses a resource is warned about.         *)
LeakWarned == analyzer # "flags" /\ Straight => Leaks \subseteq warned.drop

(* Whichever arm is taken, a word that loses a resource gets a warning.     *)
NoCleanLeak ==
    analyzer # "flags" /\ Complete /\ Leaks # {} => warned.drop # {} \/ warned.arms # {}

(* A copy that is dropped after the resource was closed through another, or *)
(* handed to another strand or into a list, is not warned about.            *)
SpentNotWarned ==
    analyzer # "flags" /\ Straight => warned.drop \cap real.spent = {}

(* A resource that one arm closes and the other still holds is warned       *)
(* about, when it was there before the branch.                              *)
ArmsCompared ==
    analyzer # "flags" => (branch.differ \cap branch.before) \subseteq warned.arms

(* Along one path a warning is about a value that really was dropped there. *)
WarnedWasDropped ==
    Straight => warned.drop \subseteq real.dropped

(* The drop of a flag nobody looked at is warned about, in whichever arm,   *)
(* unless it follows the operation within two lines.                        *)
FlagDropWarned ==
    analyzer = "flags" =>
        \A d \in real.dropped :
            d.at > d.line + 2 /\ d.line \notin real.checked => \E w \in warned.drop : w.at = d.at

(* A flag that was looked at is not reported as unchecked.                  *)
CheckedNotWarned ==
    analyzer = "flags" /\ Straight => \A w \in warned.drop : w.line \notin real.checked

(* The first pass finds what the word returns.                              *)
ReturnsTrue ==
    analyzer = "program" /\ Straight =>
        [i \in 1 .. Len(Held(collect)) |-> Held(collect)[i].t]
            = [i \in 1 .. Len(Held(real)) |-> Held(real)[i].t]

(* A warning that arms disagree is about a resource made before them.       *)
ArmsDisagree == warned.arms \subseteq branch.before

(* A warning that a resource was dropped without cleanup is about the last  *)
(* of its copies.                                                           *)
DropIsLeak ==
    Straight => \A w \in warned.drop :
        w.line \notin Lines(real.stack) \cup Lines(real.aux) \cup real.closed

====
