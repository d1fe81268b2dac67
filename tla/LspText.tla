------------------------------- MODULE LspText -------------------------------
(* What the language server reads off a line: the context a completion is  *)
(* asked for in, the word under the cursor, and whether a diagnostic is    *)
(* under the cursor.  A line before the cursor is a sequence of pieces:    *)
(* "w" a word, "s" a blank, "q" a quote, "#", "(", ")", ":", "I" the text  *)
(* "include ", "A" the text "seq:allow(" and "p" a part of it.  For the    *)
(* word under the cursor a line is a sequence of bytes: "w" a byte of a    *)
(* word, "s" another one, "L" and "C" the bytes of a wide symbol.          *)
EXTENDS Integers, Sequences, FiniteSets, FiniteSetsExt, SequencesExt

is_in_string(p) == Cardinality({i \in DOMAIN p : p[i] = "q"}) % 2 = 1

\* trim_start
Trimmed(p) ==
  LET code == {i \in DOMAIN p : p[i] # "s"}
  IN  IF code = {} THEN <<>> ELSE SubSeq(p, Min(code), Len(p))

Upto(p, i) == SubSeq(p, 1, i - 1)
After(p, i) == SubSeq(p, i + 1, Len(p))

\* A variant that does not look for the close.
is_in_seq_allow_open(comment) ==
  LET c == Trimmed(comment) IN c # <<>> /\ Head(c) \in {"A", "p"}

is_in_seq_allow(comment) ==
  LET c == Trimmed(comment)
  IN  \/ c # <<>> /\ Head(c) = "A" /\ ~Contains(c, ")")
      \/ c = <<"p">>

\* A variant that counts the parentheses of strings too.
count_unmatched_all(p) ==
  LET Of(S) == Cardinality({i \in DOMAIN p : p[i] \in S})
  IN  Of({"(", "A"}) - Of({")"})

count_unmatched_parens(p) ==
  LET Of(S) == Cardinality({i \in DOMAIN p : p[i] \in S /\ ~is_in_string(Upto(p, i))})
  IN  Of({"(", "A"}) - Of({")"})

LastHash(p) == Max({i \in DOMAIN p : p[i] = "#"})

\* The text after the last hash is a comment unless the hash is quoted.
InComment(p) == Contains(p, "#") /\ ~is_in_string(Upto(p, LastHash(p)))

\* An include of a standard module is an include here.
detect_context(p) ==
  LET t == Trimmed(p)
      name == Trimmed(Tail(t))
  IN  IF t # <<>> /\ Head(t) = "I" THEN "IncludeModule"
      ELSE IF is_in_string(p) THEN "InString"
      ELSE IF InComment(p)
           THEN IF is_in_seq_allow(After(p, LastHash(p))) THEN "LintAllow" ELSE "InComment"
      ELSE IF t # <<>> /\ Head(t) = ":" /\ ToSet(name) \cap {"s", "I", "(", "A"} = {}
           THEN "WordDefName"
      ELSE IF count_unmatched_parens(p) > 0 THEN "InStackEffect" ELSE "Code"

(***************************************************************************)
(* The word under the cursor: from after the last byte before the cursor   *)
(* that is not of a word up to the first one from the cursor on.  Offsets  *)
(* count from 0; the cursor may be past the line's end.                    *)
(***************************************************************************)
Wordless(l) == {i \in 0 .. Len(l) - 1 : l[i + 1] \in {"s", "L"}}

\* A variant that starts on the byte before the word.
WordStart_early(l, col) == Max({0} \cup {i \in Wordless(l) : i < col})

WordStart(l, col) == Max({0} \cup {i + 1 : i \in {j \in Wordless(l) : j < col}})
WordEnd(l, col) == Min({Len(l)} \cup {i \in Wordless(l) : i >= col})

\* get_word_at_position: an empty sequence when there is no word
get_word_at_position(l, col) == SubSeq(l, WordStart(l, col) + 1, WordEnd(l, col))

(***************************************************************************)
(* Ranges of [line, char] positions, as numbers in the order of the text.  *)
(***************************************************************************)
\* A variant that takes touching ranges for overlapping.
ranges_overlap_touch(a, b) == ~(a.end < b.start \/ b.end < a.start)

ranges_overlap(a, b) ==
  IF b.start = b.end THEN a.start <= b.start /\ b.start <= a.end
  ELSE ~(a.end <= b.start \/ b.end <= a.start)

(***************************************************************************)
(* Every line before a cursor of up to MaxLen pieces, every line of bytes  *)
(* with every cursor, and every pair of ranges.                            *)
(***************************************************************************)
CONSTANTS Pieces,  \* the pieces a line before the cursor is made of
          Chars,   \* the characters of a line, each a sequence of bytes
          MaxLen,  \* bound on the length of a line
          MaxPos   \* bound on positions

VARIABLES
  prefix,  \* the line before the cursor, in pieces
  line,    \* a line, in bytes
  col,     \* the cursor in it
  diag,    \* the range of a diagnostic
  asked    \* the range code actions are asked for

vars == <<prefix, line, col, diag, asked>>

Ranges == {r \in [start : 0..MaxPos, end : 0..MaxPos] : r.start <= r.end}

Init == prefix = <<>> /\ line = <<>> /\ col = 0 /\ diag \in Ranges /\ asked \in Ranges

First == diag = [start |-> 0, end |-> 0] /\ asked = diag

\* A piece or a character is typed; the cursor is moved, past the end too.
TypePiece == /\ First /\ line = <<>> /\ col = 0 /\ Len(prefix) < MaxLen
             /\ \E x \in Pieces : prefix' = Append(prefix, x)
             /\ UNCHANGED <<line, col, diag, asked>>
TypeChar == /\ First /\ prefix = <<>> /\ col = 0 /\ Len(line) < MaxLen
            /\ \E x \in Chars : line' = line \o x
            /\ UNCHANGED <<prefix, col, diag, asked>>
Move == /\ First /\ prefix = <<>> /\ col <= Len(line)
        /\ col' = IF col + 1 < Len(line) /\ line[col + 2] = "C" THEN col + 2 ELSE col + 1
        /\ UNCHANGED <<prefix, line, diag, asked>>

Next == TypePiece \/ TypeChar \/ Move
Spec == Init /\ [][Next]_vars

\* Where a left-to-right scan of the line, as the compiler's tokenizer makes
\* it, ends: a quote opens and closes a string, and a hash outside of one makes
\* the rest a comment.
FirstComment == {i \in DOMAIN prefix : prefix[i] = "#" /\ ~is_in_string(Upto(prefix, i))}
Truly == IF FirstComment # {} THEN "comment"
         ELSE IF is_in_string(prefix) THEN "string" ELSE "code"
Include == Trimmed(prefix) # <<>> /\ Head(Trimmed(prefix)) = "I"

\* Words are offered in code and nowhere else, on lines whose comments hold no
\* quote; types are offered only inside an open parenthesis of the code.
ContextIsTrue ==
  ~Include /\ (FirstComment = {} \/ ~Contains(After(prefix, Min(FirstComment)), "q")) =>
    LET c == detect_context(prefix)
    IN  /\ Truly = "string" <=> c = "InString"
        /\ Truly = "comment" <=> c \in {"InComment", "LintAllow"}
        /\ c = "InStackEffect" =>
             \E i \in DOMAIN prefix : /\ prefix[i] \in {"(", "A"}
                                      /\ ~is_in_string(Upto(prefix, i))
                                      /\ ~\E j \in i .. Len(prefix) :
                                            /\ prefix[j] = ")" /\ ~is_in_string(Upto(prefix, j))
                                            /\ count_unmatched_parens(SubSeq(prefix, i, j)) <= 0

\* Lint names are offered only while the annotation's parenthesis is open.
AllowIsOpen ==
  detect_context(prefix) = "LintAllow" =>
    \/ Last(prefix) = "p"
    \/ \E i \in DOMAIN prefix : prefix[i] = "A" /\ ~Contains(After(prefix, i), ")")

\* The word under the cursor is the longest run of word bytes that touches it.
WordIsMaximal ==
  LET at == Min({col, Len(line)})
      w == get_word_at_position(line, col)
      Run(i, j) == i <= at /\ at <= j /\ \A k \in i + 1 .. j : line[k] = "w"
  IN  ~Contains(line, "L") =>
        /\ Run(WordStart(line, col), WordEnd(line, col)) \/ w = <<>>
        /\ \A i, j \in 0..Len(line) : Run(i, j) => j - i <= Len(w)

\* A diagnostic is taken for the cursor's when they share a position, the end
\* of a range being its last position only for a cursor.
OverlapIsShared ==
  diag.start < diag.end =>
    (ranges_overlap(diag, asked) <=>
       IF asked.start = asked.end THEN asked.start \in diag.start .. diag.end
       ELSE (diag.start .. diag.end - 1) \cap (asked.start .. asked.end - 1) # {})

\* As the comment of InComment says, there are no completions in a comment.
NoWordsInComment ==
  ~Include /\ Truly = "comment" => detect_context(prefix) \notin {"Code", "InStackEffect"}

\* The word at a position begins and ends between characters.
WordIsText ==
  LET w == get_word_at_position(line, col)
  IN  w # <<>> => Head(w) # "C" /\ Last(w) # "L"
=============================================================================
