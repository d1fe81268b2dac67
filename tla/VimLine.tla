------------------------------ MODULE VimLine ------------------------------
(* VimLineEditor and its host, the REPL.  The host owns the text: it hands *)
(* each key to the editor together with the text, applies the edits that   *)
(* come back, last one first, and answers the action asked for.  The text  *)
(* is a sequence of bytes (module Motions).  A slice of the text at an     *)
(* offset past its end or inside a character is a panic in Rust.           *)
EXTENDS Motions, SequencesExt

CONSTANTS Chars,     \* the characters that are typed, as sequences of bytes
          Recalled,  \* the texts the history can bring back
          Words,     \* the words completions offer
          MaxLen,    \* bound on the length of the text
          MaxCommand \* bound on the length of the command line

VARIABLES
  text,      \* ReplState::input
  shown,     \* ReplState::cursor, the host's copy of the editor's cursor
  cursor,    \* VimLineEditor::cursor
  mode,      \* VimLineEditor::mode; an operator stands for OperatorPending
  anchor,    \* VimLineEditor::visual_anchor, -1 when there is none
  yank,      \* VimLineEditor::yank_buffer
  command,   \* [buf, cursor] of the command line
  panicked   \* a slice was out of range

vars == <<text, shown, cursor, mode, anchor, yank, command, panicked>>

Operators == {"Delete", "Change", "Yank"}
Modes == {"Normal", "Insert", "Visual", "ReplaceChar", "CommandLine"} \cup Operators
NoAnchor == -1
Empty == [buf |-> <<>>, cursor |-> 0]

Init == /\ text = <<>> /\ shown = 0 /\ cursor = 0 /\ mode = "Normal" /\ anchor = NoAnchor
        /\ yank = <<>> /\ command = Empty /\ panicked = FALSE

(***************************************************************************)
(* What every key does: clamp the cursor, then slice.                      *)
(***************************************************************************)
\* A variant that trusts the cursor.
Unclamped == cursor

Clamped == Shorter(cursor, Len(text))

\* The key slices the text at the offsets S and then does A.
Slicing(S, A) ==
  /\ ~panicked
  /\ \/ S \subseteq Boundaries(text) /\ A /\ UNCHANGED panicked
     \/ /\ ~(S \subseteq Boundaries(text))
        /\ panicked' = TRUE
        /\ UNCHANGED <<text, cursor, mode, anchor, yank, command>>

\* TextEdit::apply
Inserted(t, at, s) == Slice(t, 0, at) \o s \o Slice(t, at, Len(t))
Deleted(t, i, j) == Slice(t, 0, i) \o Slice(t, j, Len(t))

Insert(at, s) == /\ Len(text) + Len(s) <= MaxLen
                 /\ text' = Inserted(text, at, s)

\* EditResult::edit_and_yank of a deletion
Cut(i, j) == text' = Deleted(text, i, j) /\ yank' = Slice(text, i, j)

(***************************************************************************)
(* Normal mode.                                                            *)
(***************************************************************************)
MotionKeys == {"h", "l", "j", "k", "0", "^", "$", "w", "b", "e", "W", "B", "E", "%"}
Slicers == {"j", "k", "0", "^", "$", "%"}
SlicesAt(key, c) == IF key \in Slicers THEN {c} ELSE {}

dispatch_motion(key, c, t) ==
  CASE key = "h" -> move_left(c, t)
    [] key = "l" -> move_right(c, t)
    [] key = "j" -> move_down(c, t)
    [] key = "k" -> move_up(c, t)
    [] key = "0" -> move_line_start(c, t)
    [] key = "^" -> move_first_non_blank(c, t)
    [] key = "$" -> move_line_end(c, t)
    [] key = "w" -> move_word_forward(c, t)
    [] key = "b" -> move_word_backward(c, t)
    [] key = "e" -> move_word_end(c, t)
    [] key = "W" -> move_word_forward_word(c, t)
    [] key = "B" -> move_word_backward_word(c, t)
    [] key = "E" -> move_word_end_word(c, t)
    [] key = "%" -> move_to_matching_bracket(c, t)

AsksHistory(key) == \/ key = "k" /\ is_on_first_line(Clamped, text)
                    \/ key = "j" /\ is_on_last_line(Clamped, text)

\* A variant that leaves the cursor past the last character.
clamp_to_last_char_missing(c, t) == c

clamp_to_last_char(c, t) ==
  IF t # <<>> /\ c >= Len(t) THEN move_left(Len(t), t) ELSE c

NormalMotion == \E key \in MotionKeys :
  /\ mode = "Normal"
  /\ Slicing(SlicesAt(key, Clamped),
       /\ ~AsksHistory(key)
       /\ cursor' = clamp_to_last_char(dispatch_motion(key, Clamped, text), text)
       /\ UNCHANGED <<text, mode, anchor, yank, command>>)

\* The history brings back a line, or nothing, and the host then resets the
\* editor and puts the cursor at the end (sync_editor_to_input).
NormalHistory == \E t \in Recalled \cup {text} :
  /\ mode = "Normal" /\ ~panicked
  /\ text' = t /\ cursor' = Len(t) /\ shown' = cursor' /\ mode' = "Normal" /\ anchor' = NoAnchor
  /\ command' = Empty
  /\ UNCHANGED <<yank, panicked>>

\* Submit: the host runs the line and clears it, but does not reset the editor.
\* A definition it cannot place and a blank line are left as they are.
Submit == /\ mode \in {"Normal", "Insert"} /\ ~panicked
          /\ cursor' = IF mode = "Normal" THEN Clamped ELSE cursor
          /\ \/ text' = <<>> /\ shown' = 0
             \/ UNCHANGED text /\ shown' = IF mode = "Normal" THEN cursor' ELSE shown
          /\ UNCHANGED <<mode, anchor, yank, command, panicked>>

StartInsert == \E key \in {"i", "a", "A", "I"} :
  /\ mode = "Normal"
  /\ Slicing(IF key \in {"A", "I"} THEN {Clamped} ELSE {},
       /\ mode' = "Insert"
       /\ cursor' = CASE key = "i" -> Clamped
                      [] key = "a" -> move_right(Clamped, text)
                      [] key = "A" -> move_line_end_insert(Clamped, text)
                      [] key = "I" -> move_first_non_blank(Clamped, text)
       /\ UNCHANGED <<text, anchor, yank, command>>)

OpenLine == \E key \in {"o", "O", "S-Enter"} :
  LET at == CASE key = "o" -> move_line_end(Clamped, text)
              [] key = "O" -> move_line_start(Clamped, text)
              [] key = "S-Enter" -> Clamped
  IN  /\ mode = "Normal"
      /\ Slicing({Clamped},
           /\ Insert(at, <<"n">>)
           /\ mode' = "Insert"
           /\ cursor' = IF key = "O" THEN at ELSE at + 1
           /\ UNCHANGED <<anchor, yank, command>>)

EnterMode ==
  /\ mode = "Normal" /\ ~panicked
  /\ \/ mode' = "Visual" /\ anchor' = Clamped /\ UNCHANGED command
     \/ mode' \in Operators \cup {"ReplaceChar"} /\ UNCHANGED <<anchor, command>>
     \/ mode' = "CommandLine" /\ command' = Empty /\ UNCHANGED anchor
  /\ cursor' = Clamped
  /\ UNCHANGED <<text, yank, panicked>>

\* delete_char, of x in Normal and of Delete in Insert
delete_char ==
  LET c == Clamped
      end == move_right(c, text)
  IN  /\ mode \in {"Normal", "Insert"}
      /\ Slicing(IF c < Len(text) THEN {c} ELSE {},
           /\ IF c < Len(text) THEN Cut(c, end) ELSE UNCHANGED <<text, yank>>
           /\ cursor' = IF c < Len(text) /\ end = Len(text)
                        THEN move_left(c, text) ELSE c
           /\ UNCHANGED <<mode, anchor, command>>)

delete_to_end == \E key \in {"D", "C"} :
  LET c == Clamped
      end == LineStop(c, text)
  IN  /\ mode = "Normal"
      /\ Slicing({c},
           /\ IF c < end THEN Cut(c, end) ELSE UNCHANGED <<text, yank>>
           /\ mode' = IF key = "C" THEN "Insert" ELSE mode
           /\ cursor' = c
           /\ UNCHANGED <<anchor, command>>)

PasteAt(key, c, t) == IF key = "p" THEN Shorter(c + 1, Len(t)) ELSE c

\* paste_after and paste_before
Paste == \E key \in {"p", "P"} :
  LET c == Clamped
      at == PasteAt(key, c, text)
  IN  /\ mode = "Normal"
      /\ Slicing(IF yank = <<>> THEN {} ELSE {at},
           /\ Insert(at, yank)
           /\ cursor' = IF yank = <<>> THEN c
                        ELSE IF key = "p" THEN at + Len(yank) - 1
                        ELSE at + Len(yank)
           /\ UNCHANGED <<mode, anchor, yank, command>>)

(***************************************************************************)
(* Insert mode.                                                            *)
(***************************************************************************)
InsertType == \E ch \in Chars \cup {<<"n">>} :
  /\ mode = "Insert"
  /\ Slicing({Clamped},
       /\ Insert(Clamped, ch)
       /\ cursor' = Clamped + Len(ch)
       /\ UNCHANGED <<mode, anchor, yank, command>>)

\* A variant that is wired on the command line too.
BackspaceAnywhere ==
  LET c == Clamped
      start == move_left(c, text)
  IN  mode \in {"Insert", "CommandLine"} /\ Slicing({start, c},
        /\ text' = Deleted(text, start, c) /\ cursor' = start
        /\ UNCHANGED <<mode, anchor, yank, command>>)

Backspace ==
  LET c == Clamped
      start == move_left(c, text)
  IN  /\ mode = "Insert"
      /\ Slicing({start, c},
           /\ text' = Deleted(text, start, c) /\ cursor' = start
           /\ UNCHANGED <<mode, anchor, yank, command>>)

InsertMove == \E key \in {"Left", "Right", "Up", "Down", "Home", "End"} :
  LET c == Clamped
  IN  /\ mode = "Insert"
      /\ Slicing(IF key \in {"Left", "Right"} THEN {} ELSE {c},
           /\ cursor' = CASE key = "Left" -> move_left(c, text)
                          [] key = "Right" -> move_right(c, text)
                          [] key = "Up" -> move_up(c, text)
                          [] key = "Down" -> move_down(c, text)
                          [] key = "Home" -> move_line_start(c, text)
                          [] key = "End" -> move_line_end_insert(c, text)
           /\ UNCHANGED <<text, mode, anchor, yank, command>>)

InsertEscape ==
  /\ mode = "Insert" /\ ~panicked
  /\ mode' = "Normal"
  /\ cursor' = move_left(Clamped, text)
  /\ UNCHANGED <<text, anchor, yank, command, panicked>>

\* The host's own newline, for Shift+Enter in Insert: it takes the editor's
\* cursor as it is and inserts there (handle_insert_enter).
HostNewline ==
  /\ mode = "Insert"
  /\ Slicing({cursor},
       /\ Insert(cursor, <<"n">>)
       /\ cursor' = cursor + 1
       /\ UNCHANGED <<mode, anchor, yank, command>>)

\* The host accepts a completion, in any mode but on the command line, where
\* Tab is another key: the word before its cursor is replaced, and only its
\* own copy of the cursor moves (accept_completion).
AcceptCompletion == \E word \in Words :
  LET start == Max({0} \cup {i + 1 : i \in {j \in 0 .. shown - 1 : Byte(text, j) \in White}})
      new == Slice(text, 0, start) \o word \o Slice(text, shown, Len(text))
  IN  /\ mode # "CommandLine"
      /\ shown <= Len(text)
      /\ Slicing({shown}, /\ start < shown /\ Len(new) <= MaxLen
                          /\ IsPrefix(Slice(text, start, shown), word)
                          /\ text' = new /\ shown' = start + Len(word)
                          /\ UNCHANGED <<cursor, mode, anchor, yank, command>>)

(***************************************************************************)
(* An operator and its motion.                                             *)
(***************************************************************************)
\* A step past the character the motion ends on.
Past(q) == IF q < Len(text) THEN q + 1 ELSE q

OperatorTarget(op, key, c) ==
  CASE key = "e" \/ (key = "w" /\ op = "Change") -> Past(move_word_end(c, text))
    [] key = "E" \/ (key = "W" /\ op = "Change") -> Past(move_word_end_word(c, text))
    [] OTHER -> dispatch_motion(key, c, text)

\* A variant that forgets to store what it took.
ApplyForgetful(op, i, j) ==
  /\ cursor' = i
  /\ mode' = IF op = "Change" THEN "Insert" ELSE "Normal"
  /\ text' = IF op = "Yank" THEN text ELSE Deleted(text, i, j)
  /\ UNCHANGED yank

apply_operator(op, i, j) ==
  /\ cursor' = i
  /\ mode' = IF op = "Change" THEN "Insert" ELSE "Normal"
  /\ IF op = "Yank" THEN yank' = Slice(text, i, j) /\ UNCHANGED text ELSE Cut(i, j)

OperatorMotion == \E key \in MotionKeys \ {"%"} :
  LET c == Clamped
      to == OperatorTarget(mode, key, c)
  IN  /\ mode \in Operators
      /\ Slicing(SlicesAt(key, c) \cup (IF to = c THEN {} ELSE {c, to}),
           /\ IF to = c
              THEN mode' = "Normal" /\ cursor' = c /\ UNCHANGED <<text, yank>>
              ELSE apply_operator(mode, Shorter(c, to), c + to - Shorter(c, to))
           /\ UNCHANGED <<anchor, command>>)

\* The range of dd: the line and its newline, or the newline before it.
LineRange(c, t) ==
  LET from == move_line_start(c, t)
      stop == Shorter(LineStop(c, t) + 1, Len(t))
  IN  [from |-> IF stop = Len(t) /\ from > 0 THEN from - 1 ELSE from, to |-> stop]

\* apply_operator_line and delete_line
OperatorLine ==
  LET c == Clamped
      r == LineRange(c, text)
      stop == Shorter(LineStop(c, text) + 1, Len(text))
  IN  /\ mode \in Operators
      /\ Slicing({c},
           /\ IF mode = "Yank"
              THEN /\ yank' = Slice(text, move_line_start(c, text), stop)
                   /\ cursor' = c /\ UNCHANGED text
              ELSE Cut(r.from, r.to) /\ cursor' = r.from
           /\ mode' = IF mode = "Change" THEN "Insert" ELSE "Normal"
           /\ UNCHANGED <<anchor, command>>)

\* A key that is no motion, or Escape.
OperatorCancel ==
  /\ mode \in Operators /\ ~panicked
  /\ mode' = "Normal" /\ cursor' = Clamped
  /\ UNCHANGED <<text, anchor, yank, command, panicked>>

(***************************************************************************)
(* Visual mode, the replacement of one character, the command line.        *)
(***************************************************************************)
VisualMotion == \E key \in MotionKeys \ {"^", "%"} :
  /\ mode = "Visual"
  /\ Slicing(SlicesAt(key, Clamped),
       /\ cursor' = dispatch_motion(key, Clamped, text)
       /\ UNCHANGED <<text, mode, anchor, yank, command>>)

selection_range(c) == IF c < anchor THEN [from |-> c, to |-> anchor]
                      ELSE [from |-> anchor, to |-> c + 1]

VisualOperator == \E op \in Operators :
  LET r == selection_range(Clamped)
  IN  /\ mode = "Visual"
      /\ Slicing({r.from, r.to},
           /\ apply_operator(op, r.from, r.to)
           /\ anchor' = NoAnchor
           /\ UNCHANGED command)

\* A variant that keeps the anchor.
VisualEscapeKeeps ==
  /\ mode = "Visual" /\ ~panicked
  /\ mode' = "Normal" /\ cursor' = Clamped
  /\ UNCHANGED <<text, anchor, yank, command, panicked>>

VisualEscape ==
  /\ mode = "Visual" /\ ~panicked
  /\ mode' = "Normal" /\ anchor' = NoAnchor /\ cursor' = Clamped
  /\ UNCHANGED <<text, yank, command, panicked>>

\* The edits are [Insert, Delete] and the host applies the last one first.
ReplaceChar == \E ch \in Chars :
  LET c == Clamped
      rest == Deleted(text, c, move_right(c, text))
  IN  /\ mode = "ReplaceChar"
      /\ Slicing(IF c < Len(text) THEN {c} ELSE {},
           /\ Len(text) + Len(ch) - 1 <= MaxLen
           /\ text' = IF c < Len(text) THEN Inserted(rest, c, ch) ELSE text
           /\ mode' = "Normal" /\ cursor' = c
           /\ UNCHANGED <<anchor, yank, command>>)

\* Escape and every key that is no character.
ReplaceCancel ==
  /\ mode = "ReplaceChar" /\ ~panicked
  /\ mode' = "Normal" /\ cursor' = Clamped
  /\ UNCHANGED <<text, anchor, yank, command, panicked>>

exit_command_line == command' = Empty /\ mode' = "Normal"

\* Escape, Ctrl+C and Enter; the host runs the command of Enter and clears
\* its line (handle_command).
CommandDone ==
  /\ mode = "CommandLine" /\ ~panicked
  /\ exit_command_line /\ cursor' = Clamped
  /\ \/ text' = <<>> /\ shown' = 0
     \/ UNCHANGED text /\ shown' = cursor'
  /\ UNCHANGED <<anchor, yank, panicked>>

\* Every other key edits the buffer of the command line only.
handle_command_line ==
  LET b == command.buf
      c == command.cursor
      Edit(s, q) == command' = [buf |-> s, cursor |-> q]
  IN  /\ mode = "CommandLine" /\ ~panicked
      /\ \/ \E ch \in Chars : /\ Len(b) + Len(ch) <= MaxCommand
                              /\ Edit(Inserted(b, c, ch), c + Len(ch))
         \/ Edit(Deleted(b, move_left(c, b), c), move_left(c, b))
         \/ Edit(Deleted(b, c, move_right(c, b)), c)
         \/ \E q \in {move_left(c, b), move_right(c, b), 0, Len(b)} : Edit(b, q)
      /\ cursor' = Clamped
      /\ UNCHANGED <<text, mode, anchor, yank, panicked>>

\* Keys the editor handles; the host then copies the cursor.
handle_key ==
  \/ NormalMotion \/ StartInsert \/ OpenLine \/ EnterMode
  \/ delete_char \/ delete_to_end \/ Paste
  \/ InsertType \/ Backspace \/ InsertMove \/ InsertEscape \/ HostNewline
  \/ OperatorMotion \/ OperatorLine \/ OperatorCancel
  \/ VisualMotion \/ VisualOperator \/ VisualEscape
  \/ ReplaceChar \/ ReplaceCancel \/ handle_command_line

Next ==
  \/ handle_key /\ shown' = cursor'
  \/ NormalHistory \/ Submit \/ AcceptCompletion \/ CommandDone

Spec == Init /\ [][Next]_vars
-----------------------------------------------------------------------------
\* The mode, the anchor and the buffers agree: there is an anchor exactly in
\* Visual mode, and a command line only in CommandLine mode.
TypeOK == /\ mode \in Modes /\ {cursor, shown} \subseteq Nat /\ panicked \in BOOLEAN
          /\ (anchor = NoAnchor) <=> (mode # "Visual")
          /\ anchor <= Len(text)
          /\ mode # "CommandLine" => command = Empty
          /\ command.cursor \in Boundaries(command.buf)

\* On an ASCII text a key panics only in Visual mode with the cursor, and so
\* the end of the selection, past the last character, or where the host takes
\* the cursor the editor kept when its line was cleared.
PanicsKnown ==
  panicked => \/ mode = "Visual" /\ (Clamped = Len(text) \/ anchor = Len(text))
              \/ mode = "Insert" /\ cursor > Len(text)

\* After a motion in Normal mode the cursor is on a character.
MotionOnChar ==
  NormalMotion /\ text # <<>> => cursor' < Len(text)

\* What a command of Normal or Visual mode deletes can be put back: p or P
\* right after it gives the old text.
DeletionIsRecoverable ==
  Len(text') < Len(text) /\ mode \in {"Normal", "Visual"} \cup Operators
    /\ ~Submit /\ ~NormalHistory =>
    \E key \in {"p", "P"} :
      Inserted(text', PasteAt(key, cursor', text'), yank') = text

\* The command line never edits the text; the host may only clear it.
CommandLeavesText ==
  mode = "CommandLine" => text' \in {text, <<>>} /\ yank' = yank

\* What every key keeps: the state agrees, a panic is a known one, and the three
\* conditions on steps.
KeySafe == /\ TypeOK' /\ PanicsKnown'
           /\ MotionOnChar /\ DeletionIsRecoverable /\ CommandLeavesText

\* As a comment of the tests has it, the end of the buffer cannot be reached
\* by the keys of Normal mode.
NormalOnChar == mode = "Normal" /\ text # <<>> => cursor < Len(text)

\* As the tests of the clamp have it, the cursor never rests inside a
\* character.
CursorOnBoundary == Clamped \in Boundaries(text)
=============================================================================
