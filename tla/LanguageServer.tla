--------------------------- MODULE LanguageServer ---------------------------
(* The REPL's completion popup, its client of the language server and the  *)
(* server's document cache, over the two pipes between the processes.  The *)
(* server answers from what it has cached; the client puts the line that   *)
(* is being typed into the document for the length of one request.  What   *)
(* the server reads off a line of it is module LspText.                    *)
EXTENDS Integers, Sequences

CONSTANTS Lines,        \* the lines that are typed
          NoLine,       \* the document without one
          MaxItems,     \* items of a popup
          Limits,       \* values of MAX_SKIPPED_MESSAGES
          MaxNotes,     \* notifications the server can have unwritten
          MaxFile,      \* bound on the versions of the session file
          MaxRequests   \* bound on the requests of a client

VARIABLES
  file,      \* the version of the session file
  client,    \* LspClient: [phase, id, skipped, asked, limit]
  popup,     \* CompletionManager: [items, index, visible, source]
  toServer,  \* the server's stdin
  toClient,  \* the server's stdout
  server,    \* [up, doc]: the process and documents[uri]
  replies,   \* answers that are not written yet
  notes,     \* notifications that are not written yet
  ending     \* how the server ended: "none", "died", "exit", "killed"

vars == <<file, client, popup, toServer, toClient, server, replies, notes, ending>>

NoDoc == [file |-> 0, line |-> NoLine]
Hidden == [items |-> 0, index |-> 0, visible |-> FALSE, source |-> NoDoc]
Text(d) == [kind |-> "text", doc |-> d]
Request(m, i) == [kind |-> m, id |-> i]

\* LspClient::new spawns the server and sends initialize as its first request.
Init ==
  /\ file = 1
  /\ \E n \in Limits :
       client = [phase |-> "initialize", id |-> 1, skipped |-> 0, asked |-> NoDoc, limit |-> n]
  /\ popup = Hidden
  /\ toServer = <<Request("initialize", 1)>> /\ toClient = <<>>
  /\ server = [up |-> TRUE, doc |-> NoDoc]
  /\ replies = <<>> /\ notes = <<>> /\ ending = "none"

(***************************************************************************)
(* The server.                                                             *)
(***************************************************************************)
\* A variant that does not answer a completion.
AnswerNone(m) == IF m.kind = "completion" THEN replies
                 ELSE Append(replies, [id |-> m.id, doc |-> NoDoc, null |-> m.kind = "shutdown"])

\* A completion is answered from the cached document; shutdown with null.
Answer(m) == Append(replies, [id |-> m.id, doc |-> server.doc, null |-> m.kind = "shutdown"])

\* A message is handled up to its answer or its notification before the next
\* is taken; one that cannot write its notification holds the others up.
\* The document is replaced and its diagnostics are published.
update_document(doc) ==
  server' = [server EXCEPT !.doc = doc] /\ notes' = Append(notes, "diagnostics")

Handle ==
  /\ server.up /\ toServer # <<>> /\ Len(notes) < MaxNotes
  /\ LET m == Head(toServer)
     IN  \/ /\ m.kind \in {"initialize", "completion", "shutdown"}
            /\ replies' = Answer(m)
            /\ UNCHANGED <<notes, server, ending, toClient>>
         \/ /\ m.kind = "initialized"
            /\ notes' = Append(notes, "log")
            /\ UNCHANGED <<replies, server, ending, toClient>>
         \/ /\ m.kind = "text"                    \* did_open, did_change
            /\ update_document(m.doc)
            /\ UNCHANGED <<replies, ending, toClient>>
         \/ /\ m.kind = "exit"
            /\ server' = [server EXCEPT !.up = FALSE] /\ ending' = "exit"
            /\ UNCHANGED <<replies, notes, toClient>>
  /\ toServer' = Tail(toServer)
  /\ UNCHANGED <<file, client, popup>>

\* Answers and notifications reach the pipe from two queues, in any order.
WriteReply == /\ server.up /\ replies # <<>>
              /\ toClient' = Append(toClient, Head(replies)) /\ replies' = Tail(replies)
              /\ UNCHANGED <<file, client, popup, toServer, server, notes, ending>>
WriteNote == /\ server.up /\ notes # <<>>
             /\ toClient' = Append(toClient, [id |-> 0, doc |-> NoDoc, null |-> TRUE])
             /\ notes' = Tail(notes)
             /\ UNCHANGED <<file, client, popup, toServer, server, replies, ending>>

ServerDies == /\ server.up /\ client.phase # "gone"
              /\ server' = [server EXCEPT !.up = FALSE] /\ ending' = "died"
              /\ UNCHANGED <<file, client, popup, toServer, toClient, replies, notes>>

(***************************************************************************)
(* The client.                                                             *)
(***************************************************************************)
Waiting == client.phase \in {"initialize", "wait", "shutdown"}

\* show_items
Shown(n, source) == [items |-> n, index |-> 0, visible |-> n > 0,
                      source |-> IF n > 0 THEN source ELSE NoDoc]

\* builtin_completions
Builtins == \E n \in 0..MaxItems : popup' = Shown(n, NoDoc)

Sent(ms) == toServer' = IF server.up THEN toServer \o ms ELSE toServer

\* initialize was answered: initialized and did_open follow; when they cannot
\* be written the client is discarded.
Opened ==
  /\ client' = IF server.up THEN [client EXCEPT !.phase = "idle", !.skipped = 0]
               ELSE [client EXCEPT !.phase = "gone"]
  /\ Sent(<<Request("initialized", 0), Text([file |-> file, line |-> NoLine])>>)
  /\ UNCHANGED popup

\* A variant that leaves the line in the document.
CompletedLeaves(r) == \E n \in 0..MaxItems :
  /\ client' = [client EXCEPT !.phase = "idle", !.skipped = 0]
  /\ popup' = Shown(n, r.doc) /\ UNCHANGED toServer

\* A variant that goes on counting what it skipped.
CompletedCounts(r) == \E n \in 0..MaxItems :
  /\ client' = [client EXCEPT !.phase = "idle"]
  /\ popup' = Shown(n, r.doc)
  /\ Sent(<<Text([client.asked EXCEPT !.line = NoLine])>>)

\* The document is restored and what begins with the prefix is shown.
Completed(r) == \E n \in 0..MaxItems :
  /\ client' = [client EXCEPT !.phase = "idle", !.skipped = 0]
  /\ popup' = Shown(n, r.doc)
  /\ Sent(<<Text([client.asked EXCEPT !.line = NoLine])>>)

\* drop: shutdown's answer is null, which reads as a missing result, so exit
\* is not sent and the process, which is still there, is killed.
Dropped == /\ client' = [client EXCEPT !.phase = "gone"]
           /\ server' = [server EXCEPT !.up = FALSE]
           /\ ending' = IF server.up THEN "killed" ELSE ending
           /\ UNCHANGED <<popup, toServer>>

\* What failed: the start, which leaves a REPL without server; a request,
\* after which the document is restored; the shutdown.
Failed ==
  CASE client.phase = "initialize" ->
         Dropped
    [] client.phase = "wait" ->
         /\ client' = [client EXCEPT !.phase = "idle", !.skipped = 0]
         /\ Sent(<<Text([client.asked EXCEPT !.line = NoLine])>>)
         /\ Builtins /\ UNCHANGED <<server, ending>>
    [] client.phase = "shutdown" -> Dropped

\* A variant that takes the first answer, whatever it answers.
MineAny(r) == r.id # 0

Mine(r) == r.id = client.id

\* read_response: the expected answer, another message, or one too many.
Read ==
  /\ Waiting /\ toClient # <<>>
  /\ toClient' = Tail(toClient)
  /\ LET r == Head(toClient)
     IN  \/ /\ Mine(r) /\ client.phase = "initialize"
            /\ Opened /\ UNCHANGED <<server, ending>>
         \/ /\ Mine(r) /\ client.phase = "wait"
            /\ Completed(r) /\ UNCHANGED <<server, ending>>
         \/ /\ Mine(r) /\ client.phase = "shutdown" /\ r.null
            /\ Failed
         \/ /\ ~Mine(r) /\ client.skipped + 1 < client.limit
            /\ client' = [client EXCEPT !.skipped = @ + 1]
            /\ UNCHANGED <<popup, toServer, server, ending>>
         \/ /\ ~Mine(r) /\ client.skipped + 1 >= client.limit
            /\ Failed
  /\ UNCHANGED <<file, replies, notes>>

\* The pipe ends: a header cannot be read.
ReadEnd ==
  /\ Waiting /\ toClient = <<>> /\ ~server.up
  /\ Failed
  /\ UNCHANGED <<file, toClient, replies, notes>>

Ready == client.phase = "idle"

\* Tab with a prefix: the line is put before the dump and the server asked; a
\* file without a dump, or a server that is gone, leaves the builtins.
RequestCompletions == \E l \in Lines, dump \in BOOLEAN :
  /\ Ready /\ ~popup.visible /\ client.id < MaxRequests
  /\ IF dump /\ server.up
     THEN LET d == [file |-> file, line |-> l]
          IN  /\ client' = [phase |-> "wait", id |-> client.id + 1, asked |-> d,
                            skipped |-> client.skipped, limit |-> client.limit]
              /\ Sent(<<Text(d), Request("completion", client.id + 1)>>)
              /\ UNCHANGED popup
     ELSE Builtins /\ UNCHANGED <<client, toServer>>
  /\ UNCHANGED <<file, toClient, server, replies, notes, ending>>

\* Without a client the builtins are all there is.
RequestWithout ==
  /\ client.phase = "gone" /\ ~popup.visible
  /\ Builtins
  /\ UNCHANGED <<file, client, toServer, toClient, server, replies, notes, ending>>

\* A variant of the step up that does not wrap.
UpOpen(i, n) == i - 1

Up(i, n) == IF i > 0 THEN i - 1 ELSE n - 1
Down(i, n) == (i + 1) % n

PopupMoves ==
  /\ client.phase \in {"idle", "gone"} /\ popup.visible
  /\ \E i \in {Up(popup.index, popup.items), Down(popup.index, popup.items)} :
       popup' = [popup EXCEPT !.index = i]
  /\ UNCHANGED <<file, client, toServer, toClient, server, replies, notes, ending>>

\* Escape, Enter (accept) and any other key hide the popup.
PopupHides ==
  /\ client.phase \in {"idle", "gone"} /\ popup.visible
  /\ popup' = Hidden
  /\ UNCHANGED <<file, client, toServer, toClient, server, replies, notes, ending>>

\* The session file is written by what the user runs; the server is not told.
FileChanges ==
  /\ Ready /\ file < MaxFile
  /\ file' = file + 1
  /\ UNCHANGED <<client, popup, toServer, toClient, server, replies, notes, ending>>

\* The REPL ends: the client is dropped.
Quit ==
  /\ Ready
  /\ IF server.up
     THEN /\ client' = [client EXCEPT !.phase = "shutdown", !.id = @ + 1, !.skipped = 0]
          /\ Sent(<<Request("shutdown", client.id + 1)>>)
     ELSE client' = [client EXCEPT !.phase = "gone"] /\ UNCHANGED toServer
  /\ UNCHANGED <<file, popup, toClient, server, replies, notes, ending>>

Next ==
  \/ Handle \/ WriteReply \/ WriteNote \/ ServerDies
  \/ Read \/ ReadEnd \/ RequestCompletions \/ RequestWithout
  \/ PopupMoves \/ PopupHides \/ FileChanges \/ Quit

\* The server's loop and the client's read go on; nobody has to press a key.
Fairness == /\ WF_vars(Handle) /\ WF_vars(WriteReply) /\ WF_vars(WriteNote)
            /\ WF_vars(Read) /\ WF_vars(ReadEnd)

Spec == Init /\ [][Next]_vars /\ Fairness
-----------------------------------------------------------------------------
\* A popup that shows has a selected item.
PopupOK == popup.visible => popup.index \in 0 .. popup.items - 1

\* What the server's items were found in is the file and the line of the
\* request: no answer to an earlier line is shown for this one.
AnswerIsForTheLine ==
  popup.visible /\ popup.source # NoDoc => popup.source = client.asked

\* Once the server has read everything, the line that was only being typed is
\* not in its document.
LineIsTakenOut ==
  Ready /\ toServer = <<>> /\ server.up => server.doc.line = NoLine

\* Notifications pile up unread between requests, yet never so many that a
\* client whose limit exceeds what the server holds back gives up on an answer.
NeverGivesUp == client.limit > MaxNotes + 4 => client.skipped + 1 < client.limit

\* As the comment of drop says, the server is asked to end: one that answers
\* is not killed.
ShutdownIsGraceful == ending # "killed"
=============================================================================
