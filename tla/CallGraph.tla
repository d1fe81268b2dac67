------------------------------- MODULE CallGraph -------------------------------
(***************************************************************************)
(* The compiler's call graph and its recursive cycles: Tarjan's algorithm   *)
(* as crates/compiler/src/call_graph.rs runs it.  Words and callees are     *)
(* kept in hash sets, so the order in which they are visited is open; the   *)
(* recursion is a sequence of frames, each with the callees it has still to *)
(* look at.  The type checker asks the result which calls are divergent.    *)
(***************************************************************************)
EXTENDS Integers, Sequences, FiniteSets

CONSTANTS
    Words,  \* the program's words
    Graphs  \* the call relations considered

(* What the scan of the bodies collects: the calls of words of the program, *)
(* those within quotations and branches too; builtins are left out.         *)
IsGraph(g) == g \in [Words -> SUBSET Words]

VARIABLES
    edges,           \* word -> words it calls
    index_counter,
    indices,         \* words visited -> index
    lowlinks,        \* words visited -> lowlink
    stack,
    frames,          \* the recursion: [word, todo]
    sccs,            \* components found
    recursive_sccs   \* those that are recursive, once the search is over

vars == <<edges, index_counter, indices, lowlinks, stack, frames, sccs, recursive_sccs>>

Visited == DOMAIN indices
OnStack == {stack[i] : i \in 1 .. Len(stack)}
Top == frames[Len(frames)]
Under == SubSeq(frames, 1, Len(frames) - 1)

NoFunction == [w \in {} |-> 0]
With(f, w, n) == [u \in DOMAIN f \cup {w} |-> IF u = w THEN n ELSE f[u]]

Pending == {{}} \* recursive_sccs while the search goes on; {} is no component

Init ==
    /\ edges \in Graphs
    /\ index_counter = 0
    /\ indices = NoFunction /\ lowlinks = NoFunction
    /\ stack = <<>> /\ frames = <<>>
    /\ sccs = {} /\ recursive_sccs = Pending

(* The head of tarjan_visit: w gets the next index and goes on the stack.   *)
(* Faulty variants: the index is used again; the word goes to the bottom of *)
(* the stack.                                                               *)
EnterSame(w, below) ==
    /\ indices' = With(indices, w, index_counter)
    /\ lowlinks' = With(lowlinks, w, index_counter)
    /\ index_counter' = 0
    /\ stack' = Append(stack, w)
    /\ frames' = Append(below, [word |-> w, todo |-> edges[w]])

EnterBelow(w, below) ==
    /\ indices' = With(indices, w, index_counter)
    /\ lowlinks' = With(lowlinks, w, index_counter)
    /\ index_counter' = index_counter + 1
    /\ stack' = <<w>> \o stack
    /\ frames' = Append(below, [word |-> w, todo |-> edges[w]])

Enter(w, below) ==
    /\ indices' = With(indices, w, index_counter)
    /\ lowlinks' = With(lowlinks, w, index_counter)
    /\ index_counter' = index_counter + 1
    /\ stack' = Append(stack, w)
    /\ frames' = Append(below, [word |-> w, todo |-> edges[w]])

(* Faulty variant: the last candidate counts.                               *)
relax_lowlink_last(low, w, candidate) == [low EXCEPT ![w] = candidate]

relax_lowlink(low, w, candidate) ==
    [low EXCEPT ![w] = IF candidate < @ THEN candidate ELSE @]

(* find_sccs starts a visit at a word that has none yet.                    *)
VisitRoot(w) ==
    /\ frames = <<>> /\ w \notin Visited
    /\ Enter(w, <<>>)
    /\ UNCHANGED <<edges, sccs, recursive_sccs>>

(* One callee of the topmost visit: visited now, on the stack, or of an     *)
(* earlier component.                                                       *)
(* Faulty variant: callees on the stack are passed over.                    *)
CalleeSkipped(c) ==
    /\ frames # <<>> /\ c \in Top.todo
    /\ LET rest == Append(Under, [Top EXCEPT !.todo = @ \ {c}])
       IN IF c \notin Visited THEN Enter(c, rest)
          ELSE /\ frames' = rest
               /\ UNCHANGED <<lowlinks, indices, index_counter, stack>>
    /\ UNCHANGED <<edges, sccs, recursive_sccs>>

Callee(c) ==
    /\ frames # <<>> /\ c \in Top.todo
    /\ LET rest == Append(Under, [Top EXCEPT !.todo = @ \ {c}])
       IN IF c \notin Visited THEN Enter(c, rest)
          ELSE /\ frames' = rest
               /\ lowlinks' = IF c \in OnStack
                              THEN relax_lowlink(lowlinks, Top.word, indices[c])
                              ELSE lowlinks
               /\ UNCHANGED <<indices, index_counter, stack>>
    /\ UNCHANGED <<edges, sccs, recursive_sccs>>

(* The tail of tarjan_visit: a root takes its component off the stack; back *)
(* in the caller, its lowlink is lowered to that of the callee.             *)
Position(w) == CHOOSE i \in 1 .. Len(stack) : stack[i] = w

Leave ==
    /\ frames # <<>> /\ Top.todo = {}
    /\ LET w == Top.word
           from == Position(w)
       IN IF lowlinks[w] = indices[w]
          THEN /\ stack' = SubSeq(stack, 1, from - 1)
               /\ sccs' = sccs \cup {{stack[i] : i \in from .. Len(stack)}}
          ELSE UNCHANGED <<stack, sccs>>
    /\ lowlinks' = IF Under = <<>> THEN lowlinks
                   ELSE relax_lowlink(lowlinks, Under[Len(Under)].word, lowlinks[Top.word])
    /\ frames' = Under
    /\ UNCHANGED <<edges, index_counter, indices, recursive_sccs>>

(* find_sccs keeps the components of several words and the words that call  *)
(* themselves.                                                              *)
(* Faulty variant: only the former.                                         *)
RecursiveLarge(scc) == Cardinality(scc) > 1

Recursive(scc) == Cardinality(scc) > 1 \/ \E w \in scc : w \in edges[w]

Filter ==
    /\ frames = <<>> /\ Visited = Words /\ recursive_sccs = Pending
    /\ recursive_sccs' = {scc \in sccs : Recursive(scc)}
    /\ UNCHANGED <<edges, index_counter, indices, lowlinks, stack, frames, sccs>>

Next ==
    \/ \E w \in Words : VisitRoot(w)
    \/ \E c \in Words : Callee(c)
    \/ Leave
    \/ Filter

Spec == Init /\ [][Next]_vars

is_recursive(w) == \E scc \in recursive_sccs : w \in scc
is_self_recursive(w) == w \in edges[w]
are_mutually_recursive(u, v) == \E scc \in recursive_sccs : u \in scc /\ v \in scc

Done == recursive_sccs # Pending

-----------------------------------------------------------------------------
(***************************************************************************)
(* The reference: v can be reached from u if it is in every set of words    *)
(* that has u and is closed under calls.                                    *)
(***************************************************************************)
Closed(S) == \A w \in S : edges[w] \subseteq S
Reaches(u, v) == \A S \in SUBSET Words : u \in S /\ Closed(S) => v \in S
Calls(u, v) == \E w \in edges[u] : Reaches(w, v)  \* in one call or more

TypeOK ==
    /\ IsGraph(edges)
    /\ index_counter = Cardinality(Visited)
    /\ Visited \subseteq Words
    /\ indices \in [Visited -> 0 .. index_counter - 1]
    /\ lowlinks \in [Visited -> 0 .. index_counter - 1]
    /\ OnStack \subseteq Visited
    /\ sccs \subseteq SUBSET Visited

(* While a visit is under way, every lowlink of a word on the stack is the  *)
(* index of a word on the stack that it reaches, and never above its own.   *)
LowlinkSound ==
    \A w \in OnStack :
        /\ lowlinks[w] <= indices[w]
        /\ \E u \in OnStack : indices[u] = lowlinks[w] /\ Reaches(w, u)

(* A visit's words are on the stack, in the order of their indices, and     *)
(* each one calls the next.                                                 *)
FramesNested ==
    /\ \A i \in 1 .. Len(frames) : frames[i].word \in OnStack
    /\ \A i \in 1 .. Len(frames) - 1 : frames[i + 1].word \in edges[frames[i].word]
    /\ \A i \in 1 .. Len(stack) - 1 : indices[stack[i]] < indices[stack[i + 1]]

(* A component, as soon as it is taken off the stack, is a whole strongly   *)
(* connected component: no word is missing, none is too many.               *)
ComponentsExact ==
    \A scc \in sccs : \A u \in scc : scc = {v \in Words : Reaches(u, v) /\ Reaches(v, u)}

(* Whatever the order of the hash sets, the answers are those of the call   *)
(* relation: a word is recursive if it can come to call itself, two are     *)
(* mutually recursive if each can come to call the other.                   *)
AnswersExact ==
    Done => /\ \A w \in Words : is_recursive(w) <=> Calls(w, w)
            /\ \A w \in Words : is_self_recursive(w) => is_recursive(w)
            /\ \A u, v \in Words : are_mutually_recursive(u, v) <=> (Calls(u, v) /\ Calls(v, u))

====
