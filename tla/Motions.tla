------------------------------ MODULE Motions ------------------------------
(* The cursor motions of the vim-line editor: pure functions of a byte     *)
(* offset and a text.  A text is a sequence of bytes, and a byte is known  *)
(* by its kind: "k" a keyword byte, "s" a blank, "n" a newline, "p" other  *)
(* punctuation, "(" and ")" one of the four bracket pairs, "L" and "C" the *)
(* two bytes of a character that is not ASCII.  Offsets count from 0.      *)
EXTENDS Integers, Sequences, FiniteSetsExt

Byte(t, i) == t[i + 1]

is_char_boundary(t, i) == \/ i = 0 \/ i = Len(t)
                          \/ i < Len(t) /\ Byte(t, i) # "C"

Boundaries(t) == {i \in 0..Len(t) : is_char_boundary(t, i)}

Slice(t, i, j) == SubSeq(t, i + 1, j)

move_left(c, t) == IF c > 0 THEN Max({q \in Boundaries(t) : q < c}) ELSE c

move_right(c, t) == IF c < Len(t) THEN Min({q \in Boundaries(t) : q > c})
                    ELSE c

Newlines(t) == {i \in 0 .. Len(t) - 1 : Byte(t, i) = "n"}

move_line_start(c, t) == Max({0} \cup {i + 1 : i \in {j \in Newlines(t) : j < c}})

LineStop(c, t) == Min({Len(t)} \cup {i \in Newlines(t) : i >= c})

move_first_non_blank(c, t) ==
  LET from == move_line_start(c, t)
      hits == {i \in from .. Len(t) - 1 : Byte(t, i) # "s"}
  IN  IF hits = {} THEN from ELSE Min(hits)

move_line_end_insert(c, t) == LineStop(c, t)

\* A variant that steps back one byte, not one character.
move_line_end_byte(c, t) ==
  IF LineStop(c, t) = 0 THEN 0 ELSE LineStop(c, t) - 1

move_line_end(c, t) ==
  LET e == LineStop(c, t)
  IN  IF e = 0 THEN 0 ELSE Max({q \in Boundaries(t) : q < e})

(***************************************************************************)
(* Words.  A word is a maximal run of one class, a WORD one of bytes that  *)
(* are not blank.  Each loop of the code skips bytes while they are in a   *)
(* set, up to an end of the text.                                          *)
(***************************************************************************)
White == {"s", "n"}
NotWhite == {"k", "p", "(", ")", "L", "C"}

class_of(b) == IF b \in White THEN White
               ELSE IF b = "k" THEN {"k"} ELSE NotWhite \ {"k"}

SkipForward(t, i, S) ==
  Min({Len(t)} \cup {q \in i .. Len(t) - 1 : Byte(t, q) \notin S})

\* The last offset of the run of S that i is in.
RunEnd(t, i, S) == SkipForward(t, i, S) - 1

\* The first offset of the run of S that ends just before i.
SkipBackward(t, i, S) ==
  Max({0} \cup {q \in 1..i : Byte(t, q - 1) \notin S})

\* A variant of move_word_forward that stays on the blanks after a word.
move_word_forward_short(c, t) ==
  IF c >= Len(t) THEN c
  ELSE LET class == class_of(Byte(t, c)) IN SkipForward(t, c, class)

move_word_forward(c, t) ==
  IF c >= Len(t) THEN c
  ELSE LET class == class_of(Byte(t, c))
           q == IF class = White THEN c ELSE SkipForward(t, c, class)
       IN  SkipForward(t, q, White)

\* A variant that counts from the end of the buffer, not from its last byte.
move_word_backward_eob(c, t) ==
  LET q == SkipBackward(t, c, White)
  IN  IF c = 0 \/ q = 0 THEN 0
      ELSE SkipBackward(t, q, class_of(Byte(t, q - 1)))

move_word_backward(c, t) ==
  LET from == IF c < Len(t) THEN c ELSE Len(t) - 1
      q == SkipBackward(t, from, White)
  IN  IF from <= 0 \/ q = 0 THEN 0
      ELSE SkipBackward(t, q, class_of(Byte(t, q - 1)))

\* A variant that forgets to move at least one byte.
move_word_end_stuck(c, t) ==
  IF c >= Len(t) THEN c
  ELSE LET q == SkipForward(t, c, White)
       IN  IF q >= Len(t) THEN Len(t) ELSE RunEnd(t, q, class_of(Byte(t, q)))

move_word_end(c, t) ==
  IF c >= Len(t) THEN c
  ELSE LET q == SkipForward(t, c + 1, White)
       IN  IF q >= Len(t) THEN Len(t) ELSE RunEnd(t, q, class_of(Byte(t, q)))

move_word_forward_word(c, t) ==
  SkipForward(t, SkipForward(t, c, NotWhite), White)

move_word_backward_word(c, t) ==
  SkipBackward(t, SkipBackward(t, c, White), NotWhite)

move_word_end_word(c, t) ==
  LET one == IF c < Len(t) THEN c + 1 ELSE c
      q == SkipForward(t, SkipForward(t, one, White), NotWhite)
  IN  IF q > c + 1 THEN q - 1 ELSE q

(***************************************************************************)
(* Lines and brackets.                                                     *)
(***************************************************************************)
is_on_first_line(c, t) == \A i \in Newlines(t) : i >= c

is_on_last_line(c, t) == \A i \in Newlines(t) : i < c

Shorter(a, b) == IF a < b THEN a ELSE b

\* A variant that takes the column of the line above from its end.
move_up_long(c, t) ==
  LET from == move_line_start(c, t)
      above == move_line_start(from - 1, t)
  IN  IF from = 0 THEN c ELSE above + Shorter(c - from, from - above)

move_up(c, t) ==
  LET from == move_line_start(c, t)
      above == move_line_start(from - 1, t)
  IN  IF from = 0 THEN c ELSE above + Shorter(c - from, from - 1 - above)

move_down(c, t) ==
  LET below == LineStop(c, t) + 1
  IN  IF LineStop(c, t) = Len(t) THEN c
      ELSE IF below >= Len(t) THEN Len(t)
      ELSE below + Shorter(c - move_line_start(c, t), LineStop(below, t) - below)

\* Openings minus closings between two offsets.
Depth(t, i, j) ==
  Cardinality({q \in i..j : Byte(t, q) = "("})
    - Cardinality({q \in i..j : Byte(t, q) = ")"})

\* A variant whose search ignores nesting.
move_to_matching_bracket_flat(c, t) ==
  LET hits == IF c >= Len(t) THEN {}
              ELSE CASE Byte(t, c) = "(" -> {q \in c + 1 .. Len(t) - 1 : Byte(t, q) = ")"}
                     [] Byte(t, c) = ")" -> {q \in 0 .. c - 1 : Byte(t, q) = "("}
                     [] OTHER -> {}
  IN  IF hits = {} THEN c ELSE IF Byte(t, c) = "(" THEN Min(hits) ELSE Max(hits)

move_to_matching_bracket(c, t) ==
  LET hits == IF c >= Len(t) THEN {}
              ELSE CASE Byte(t, c) = "(" -> {q \in c + 1 .. Len(t) - 1 : Depth(t, c, q) = 0}
                     [] Byte(t, c) = ")" -> {q \in 0 .. c - 1 : Depth(t, q, c) = 0}
                     [] OTHER -> {}
  IN  IF hits = {} THEN c ELSE IF Byte(t, c) = "(" THEN Min(hits) ELSE Max(hits)

-----------------------------------------------------------------------------
(* What a motion from offset c of a text does, by a definition of words,   *)
(* lines and brackets that does not walk the text.                         *)
WordStart(i, t, Class(_)) ==
  /\ i < Len(t) /\ Byte(t, i) \notin White
  /\ i = 0 \/ Class(Byte(t, i - 1)) # Class(Byte(t, i))
WordStop(i, t) ==
  /\ i < Len(t) /\ Byte(t, i) \notin White
  /\ i + 1 = Len(t) \/ class_of(Byte(t, i + 1)) # class_of(Byte(t, i))
IsBlank(b) == b \in White
Starts(t, Class(_)) == {i \in 0..Len(t) : WordStart(i, t, Class)}
OnLast(c, t) == IF c < Len(t) THEN c ELSE Len(t) - 1

\* `w` and `W` land on the first start of a word, or WORD, after the cursor,
\* and at the end of the text when there is none.
ForwardToStart(c, t) ==
  /\ move_word_forward(c, t) =
       Min({Len(t)} \cup {i \in Starts(t, class_of) : i > c})
  /\ move_word_forward_word(c, t) =
       Min({Len(t)} \cup {i \in Starts(t, IsBlank) : i > c})

\* `b` lands on the last start of a word before the cursor, or before the
\* last byte when the cursor is past it; `B` on the last start of a WORD.
BackwardToStart(c, t) ==
  /\ move_word_backward(c, t) =
       Max({0} \cup {i \in Starts(t, class_of) : i < OnLast(c, t)})
  /\ move_word_backward_word(c, t) =
       Max({0} \cup {i \in Starts(t, IsBlank) : i < c})

\* `e` lands on the first end of a word after the cursor.
EndOfWord(c, t) ==
  move_word_end(c, t) =
    Min({Len(t)} \cup {i \in 0..Len(t) : i > c /\ WordStop(i, t)})

\* `%` goes from a bracket to its partner and back, and between the two the
\* brackets are balanced.
BracketsPair(c, t) ==
  LET m == move_to_matching_bracket(c, t)
  IN  m # c => /\ move_to_matching_bracket(m, t) = c
               /\ Depth(t, Min({m, c}), Max({m, c})) = 0

\* `j` and `k` go to the line next to the cursor's, to its column there or
\* to the end of a shorter line, and back unless a line was shorter.
LinesAdjacent(c, t) ==
  LET Line(p) == Cardinality({i \in Newlines(t) : i < p})
      Column(p) == p - move_line_start(p, t)
      down == move_down(c, t)
      up == move_up(c, t)
  IN  /\ ~is_on_last_line(c, t) =>
           Line(down) = Line(c) + 1 /\ Column(down) <= Column(c)
      /\ ~is_on_first_line(c, t) =>
           Line(up) = Line(c) - 1 /\ Column(up) <= Column(c)
      /\ down # c /\ Column(down) = Column(c) =>
           move_up(down, t) = c

\* Left, right, the ends of the line, `w`, `b`, `W`, `B` and `%` never land
\* inside a character of several bytes.
BoundaryMotions(c, t) ==
  \A m \in {move_left(c, t), move_right(c, t),
            move_line_start(c, t), move_first_non_blank(c, t),
            move_line_end(c, t), move_word_forward(c, t),
            move_word_backward(c, t), move_word_forward_word(c, t),
            move_word_backward_word(c, t),
            move_to_matching_bracket(c, t)} :
    is_char_boundary(t, m)

\* As the comment on move_line_end has it, `$` stays on the cursor's line.
EndOfSameLine(c, t) ==
  move_line_start(move_line_end(c, t), t) = move_line_start(c, t)
=============================================================================
