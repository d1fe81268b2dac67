------------------------------- MODULE MCTools -------------------------------
(***************************************************************************)
(* The tools for TLC: the line editor and its motions, the REPL's session   *)
(* file, its history and command line, the completion client with the       *)
(* language server, and what the server reads off a line.  A behavior is of *)
(* one kind; the other parts stay where they begin, the client without a    *)
(* server.  Where two parts have a variable of the same name, that of the   *)
(* editor keeps it.                                                         *)
(***************************************************************************)
EXTENDS Integers, Sequences

CONSTANTS
    Characters, Recalled, Offered, MaxText, MaxCommand,    \* VimLine
    MaxTyped, MaxPieces, MaxPos,                           \* the texts of a motion, LspText
    Exprs, Defs, Modules, MaxLines, MaxDefs, MaxDeaths,    \* ReplSession
    Inputs, Entries, Blank, Written(_), Patterns, COMMANDS, Begins(_, _), Buffers, MaxHistory,  \* ReplLine
    Typed, NoLine, MaxItems, Limits, MaxNotes, MaxFile, MaxRequests  \* LanguageServer

VARIABLES
    kind,
    text, shown, cursor, mode, anchor, yank, command, panicked,             \* VimLine
    typed, at,                                                              \* the text of a motion
    session, good, job, child, alive, crashed, deaths,                      \* ReplSession
    store, input, search, cmd, stashed,                                     \* ReplLine
    file, client, popup, toServer, toClient, server, replies, notes, ending,  \* LanguageServer
    prefix, line, col, diag, asked                                          \* LspText

-----------------------------------------------------------------------------
(* A line of words and blanks of up to three bytes; what can be recalled    *)
(* has a newline.                                                           *)
Ascii == {"k", "s", "n", "p", "(", ")"}
MCCharacters == {<<"k">>, <<"s">>}
MCRecalled == {<<"k">>, <<"k", "n", "k">>}
MCOffered == {<<"k", "k">>}
Vim == INSTANCE VimLine WITH Chars <- Characters, Words <- Offered, MaxLen <- MaxText
ASSUME EditorAssumption == Characters \cup Recalled \cup Offered \subseteq Seq(Ascii)

(* The motions over every text that a user can type, at every offset a      *)
(* motion can reach.                                                        *)
MotionInit == typed = <<>> /\ at = 0

Type ==
    \E ch \in {<<"k">>, <<"s">>, <<"n">>, <<"p">>, <<"(">>, <<")">>, <<"L", "C">>} :
        /\ Len(typed) + Len(ch) <= MaxTyped
        /\ typed' = typed \o ch
        /\ at' = 0

(* From a character to the next: every offset on a boundary is visited.     *)
Move == at < Len(typed) /\ at' = Vim!move_right(at, typed) /\ UNCHANGED typed

(* Expressions of one and of two lines, a definition with and one without a *)
(* stack.dump of its own.                                                   *)
MCExprs == {<<"a">>, <<"b1", "b2">>}
MCDefs == {[name |-> "d", dumps |-> FALSE], [name |-> "s", dumps |-> TRUE]}
Session == INSTANCE ReplSession WITH file <- session, panicked <- crashed
ASSUME SessionAssumption == MaxDeaths \in Nat

(* An empty entry, one of one line and one of two, two commands of which    *)
(* one begins with the other, and the one that forgets the history.         *)
MCEntries == {"", "m", "m1", "q", "quit", "clear", "none"}
MCWritten(l) == IF l = "" THEN <<>> ELSE IF l = "m" THEN <<"m1", "q">> ELSE <<l>>
MCCommands == <<"clear", "q", "quit">>
MCBegins(c, b) == b \in {"", c} \/ (b = "q" /\ c = "quit")
History == INSTANCE ReplLine WITH Lines <- Written
ASSUME HistoryAssumption ==
    /\ MaxHistory \in Nat \ {0}
    /\ Inputs \cup Buffers \cup {Blank, "", "clear", "none"} \subseteq Entries
    /\ COMMANDS \in Seq(Entries)
    /\ \A e \in Entries : Written(e) \in Seq(Entries)

(* Clients whose limit on skipped messages is out of reach, and clients     *)
(* whose limit is met.                                                      *)
Server == INSTANCE LanguageServer WITH Lines <- Typed
ASSUME ServerAssumption == MaxItems \in Nat /\ MaxNotes \in Nat /\ Limits \subseteq Nat

Texts == INSTANCE LspText WITH
    Pieces <- {"w", "s", "q", "#", "(", ")", ":", "I", "A", "p"}, Chars <- {<<"w">>, <<"s">>, <<"L", "C">>},
    MaxLen <- MaxPieces

-----------------------------------------------------------------------------
NoServer ==
    /\ file = 1 /\ client = [phase |-> "gone", id |-> 1, skipped |-> 0, asked |-> Server!NoDoc, limit |-> 0]
    /\ popup = Server!Hidden /\ toServer = <<>> /\ toClient = <<>>
    /\ server = [up |-> FALSE, doc |-> Server!NoDoc]
    /\ replies = <<>> /\ notes = <<>> /\ ending = "none"
NoText == prefix = <<>> /\ line = <<>> /\ col = 0 /\ Texts!First

KindInit ==
    /\ Vim!Init /\ MotionInit /\ Session!Init /\ History!Init
    /\ \/ kind \in {"vim", "motion", "session", "history"} /\ NoServer /\ NoText
       \/ kind = "server" /\ Server!Init /\ NoText
       \/ kind = "texts" /\ NoServer /\ Texts!Init

vimVars == <<text, shown, cursor, mode, anchor, yank, command, panicked>>
motionVars == <<typed, at>>
sessionVars == <<session, good, job, child, alive, crashed, deaths>>
historyVars == <<store, input, search, cmd, stashed>>
serverVars == <<file, client, popup, toServer, toClient, server, replies, notes, ending>>
textVars == <<prefix, line, col, diag, asked>>
parts == <<vimVars, motionVars, sessionVars, historyVars, serverVars, textVars>>

KindNext ==
    /\ UNCHANGED kind
    /\ \/ kind = "vim" /\ Vim!Next /\ UNCHANGED <<motionVars, sessionVars, historyVars, serverVars, textVars>>
       \/ kind = "motion" /\ (Type \/ Move) /\ UNCHANGED <<vimVars, sessionVars, historyVars, serverVars, textVars>>
       \/ kind = "session" /\ Session!Next /\ UNCHANGED <<vimVars, motionVars, historyVars, serverVars, textVars>>
       \/ kind = "history" /\ History!Next /\ UNCHANGED <<vimVars, motionVars, sessionVars, serverVars, textVars>>
       \/ kind = "server" /\ Server!Next /\ UNCHANGED <<vimVars, motionVars, sessionVars, historyVars, textVars>>
       \/ kind = "texts" /\ Texts!Next /\ UNCHANGED <<vimVars, motionVars, sessionVars, historyVars, serverVars>>

KindSpec == KindInit /\ [][KindNext]_<<kind, parts>> /\ Session!Fairness /\ Server!Fairness

-----------------------------------------------------------------------------
(* On a line of one-byte characters a key panics only in Visual mode with   *)
(* an end of the selection past the last character, or in Insert mode after *)
(* the host has cleared the line under the editor's cursor; a motion ends   *)
(* on a character, what a command deletes can be put back, and the command  *)
(* line never edits the text.                                               *)
EditorSafe == [][Vim!KeySafe]_vimVars

(* The motions and the server's scans of a line find what a definition of   *)
(* words, lines, brackets, strings and comments says, over every text.      *)
TextExact ==
    /\ kind = "motion" =>
         /\ Vim!ForwardToStart(at, typed) /\ Vim!BackwardToStart(at, typed)
         /\ Vim!EndOfWord(at, typed) /\ Vim!BracketsPair(at, typed)
         /\ Vim!LinesAdjacent(at, typed) /\ Vim!BoundaryMotions(at, typed)
    /\ kind = "texts" =>
         Texts!ContextIsTrue /\ Texts!AllowIsOpen /\ Texts!WordIsMaximal /\ Texts!OverlapIsShared

(* Between keys the session file holds what was accepted and no child is    *)
(* left, whatever failed, timed out or was killed.                          *)
SessionSound == Session!TypeOK /\ Session!OnlyAccepted /\ Session!NoChildLeft

(* The history loses nothing that was submitted but the oldest, browsing    *)
(* and searching give the line back, and a cycle is about the buffer.       *)
HistorySound == [][History!LineSafe]_historyVars

(* The popup has a selected item, never shows the answer to an earlier      *)
(* line, and the line that was typed is taken out of the server's document. *)
(* With the limit out of reach, the client does not give up on an answer.   *)
PopupHonest ==
    /\ Server!PopupOK
    /\ kind = "server" => Server!AnswerIsForTheLine /\ Server!LineIsTakenOut /\ Server!NeverGivesUp

(* A job of the REPL ends whatever its child does, and a key that asks the  *)
(* server comes back whether or not the server lives.                       *)
ToolsAnswer ==
    /\ Session!Responsive
    /\ (kind = "server" /\ Server!Waiting) ~> ~Server!Waiting
=============================================================================
