------------------------------ MODULE Includes ------------------------------
(* Resolution of includes, twice: the compiler's resolver, which merges     *)
(* every included file into one program and refuses what it cannot find,    *)
(* and the language server's, which collects what it can.  Both walk the    *)
(* same files depth first; the two walks are modelled by their stacks.      *)
EXTENDS Integers, Sequences, FiniteSets, SequencesExt

CONSTANTS Files,      \* source files
          Main,       \* the file that is compiled
          Embedded,   \* modules of the embedded standard library
          Ffi,        \* libraries with an FFI manifest
          Missing,    \* what no include finds
          Trees,      \* the include lists of all sources that are looked at
          Broken,     \* the sets of files that do not parse
          Defs(_),    \* the words a source defines
          MaxDepth    \* the depth limit of the language server

VARIABLES
  incs,      \* the include list of every source
  broken,    \* the files that do not parse
  stack,     \* Resolver: the sources being resolved, the innermost first
  included,  \* included_files and included_embedded
  ffi,       \* ffi_includes
  merged,    \* the sources whose words are in the program, in order
  result,    \* "none", "ok", "error"
  seen,      \* language server: visited
  found,     \* the sources whose words it lists, in order
  todo       \* its includes to resolve: a stack of [what, depth]

vars == <<incs, broken, stack, included, ffi, merged, result, seen, found, todo>>
resolver == <<stack, included, ffi, merged, result>>
lsp == <<seen, found, todo>>

Frame(s) == [of |-> s, rest |-> incs[s]]

Init ==
  /\ incs \in Trees /\ broken \in Broken
  /\ stack = <<Frame(Main)>> /\ included = {Main} /\ ffi = <<>> /\ merged = <<Main>>
  /\ result = "none"
  /\ seen = {} /\ found = <<>>
  /\ todo = [i \in DOMAIN incs[Main] |-> [what |-> incs[Main][i], depth |-> 0]]

(***************************************************************************)
(* The compiler.                                                           *)
(***************************************************************************)
\* A variant that forgets the rest of the includer.
EnterForgets(s) == /\ included' = included \cup {s}
                   /\ merged' = Append(merged, s)
                   /\ stack' = <<Frame(s), [stack[1] EXCEPT !.rest = <<>>]>> \o Tail(stack)

\* A source that is resolved for the first time: its words are merged, then
\* its includes are taken up.
Enter(s) == /\ included' = included \cup {s}
            /\ merged' = Append(merged, s)
            /\ stack' = <<Frame(s)>> \o [stack EXCEPT ![1].rest = Tail(@)]

Skip == /\ stack' = [stack EXCEPT ![1].rest = Tail(@)]
        /\ UNCHANGED <<included, merged>>

Refuse == /\ result' = "error" /\ stack' = <<>>
          /\ UNCHANGED <<included, merged, ffi>>

\* A variant that forgets what it has included.
NewSourceAlways(s) == TRUE

NewSource(s) == s \notin included

process_include ==
  /\ result = "none" /\ stack # <<>> /\ stack[1].rest # <<>>
  /\ LET what == Head(stack[1].rest)
     IN  \/ /\ what \in Ffi                               \* duplicates are dropped
            /\ ffi' = IF Contains(ffi, what) THEN ffi ELSE Append(ffi, what)
            /\ Skip /\ UNCHANGED result
         \/ /\ what \in Embedded
            /\ IF NewSource(what) THEN Enter(what) ELSE Skip
            /\ UNCHANGED <<ffi, result>>
         \/ /\ what \in Files /\ (what \notin broken \/ ~NewSource(what))
            /\ IF NewSource(what) THEN Enter(what) ELSE Skip
            /\ UNCHANGED <<ffi, result>>
         \/ /\ what \in Files /\ what \in broken /\ NewSource(what)
            /\ Refuse
         \/ /\ what \in Missing
            /\ Refuse
  /\ UNCHANGED <<incs, broken, lsp>>

\* check_collisions and check_union_collisions: a word with two definitions.
Collisions == {w \in UNION {Defs(s) : s \in Files \cup Embedded} :
                 Cardinality({i \in DOMAIN merged : w \in Defs(merged[i])}) > 1}

\* A source is done.  The result of an included file is its words: the FFI
\* libraries that were collected so far leave with it.
resolve ==
  /\ result = "none" /\ stack # <<>> /\ stack[1].rest = <<>>
  /\ IF Len(stack) = 1
     THEN /\ result' = IF Collisions = {} THEN "ok" ELSE "error"
          /\ UNCHANGED ffi
     ELSE /\ ffi' = IF stack[1].of \in Files THEN <<>> ELSE ffi
          /\ UNCHANGED result
  /\ stack' = Tail(stack)
  /\ UNCHANGED <<incs, broken, included, merged, lsp>>

(***************************************************************************)
(* The language server.                                                    *)
(***************************************************************************)
Pop == todo' = Tail(todo) /\ UNCHANGED <<seen, found>>

\* A variant that does not look into what is included.
NestedNone(t) == <<>>

Nested(t) == [i \in DOMAIN incs[t.what] |-> [what |-> incs[t.what][i], depth |-> t.depth + 1]]

resolve_include_recursive ==
  /\ result # "none" /\ todo # <<>>
  /\ LET t == Head(todo)
     IN  \/ /\ t.depth > MaxDepth \/ t.what \in Ffi \cup Missing \cup seen
            /\ Pop
         \/ /\ t.depth <= MaxDepth /\ t.what \in Files \cup Embedded /\ t.what \notin seen
            /\ seen' = seen \cup {t.what}
            /\ IF t.what \in broken
               THEN todo' = Tail(todo) /\ UNCHANGED found
               ELSE todo' = Nested(t) \o Tail(todo) /\ found' = Append(found, t.what)
  /\ UNCHANGED <<incs, broken, resolver>>

Done == result # "none" /\ todo = <<>> /\ UNCHANGED vars

Next == process_include \/ resolve \/ resolve_include_recursive \/ Done

Spec == Init /\ [][Next]_vars
-----------------------------------------------------------------------------
\* What is reached from a source over the include lists (a reference).
RECURSIVE Reach(_, _)
Reach(S, n) ==
  IF n = 0 THEN S
  ELSE Reach(S \cup {t \in Files \cup Embedded :
                       \E s \in S \ broken : Contains(incs[s], t)}, n - 1)
Reachable == Reach({Main}, Cardinality(Files \cup Embedded))

\* However the includes are wound into diamonds and cycles, the words of a
\* source enter the program once.
MergedOnce == \A i, j \in DOMAIN merged : merged[i] = merged[j] => i = j

\* A program that is accepted has the words of every source it reaches, and
\* one is refused only for a source that is missing, broken or collides.
AllMerged ==
  /\ result = "ok" => ToSet(merged) = Reachable
  /\ result = "error" =>
       \/ \E s \in Reachable \cap broken : TRUE
       \/ \E s \in Reachable, m \in Missing : Contains(incs[s], m)
       \/ \E s, t \in Reachable : s # t /\ Defs(s) \cap Defs(t) # {}

\* The language server lists the sources the compiler merges (Main itself only
\* when something includes it again).
ServerSeesProgram ==
  result = "ok" /\ todo = <<>> => ToSet(found) \cup {Main} = ToSet(merged)

\* The libraries of the result are, as its field says, the FFI libraries that
\* were included.
FfiCollected ==
  result = "ok" =>
    ToSet(ffi) = {l \in Ffi : \E s \in Reachable : Contains(incs[s], l)}
=============================================================================
