----------------------------- MODULE ToolsProofs -----------------------------
(***************************************************************************)
(* Proofs about the tools: the REPL's session file, its history and        *)
(* command line, the completion client with the language server, the line  *)
(* editor, its motions and the server's scans of a line, for any           *)
(* expressions, definitions, lines, texts and limits.                      *)
(***************************************************************************)
EXTENDS MCTools, SequenceTheorems, FiniteSetTheorems, WellFoundedInduction, TLAPS

-----------------------------------------------------------------------------
(***************************************************************************)
(* The session file.  What makes OnlyAccepted inductive is what a job that *)
(* is under way can go back to: the content it began with is what was      *)
(* accepted, or it changed nothing.                                        *)
(***************************************************************************)
JobInv ==
    job # Session!NoJob =>
      /\ job = [kind |-> job.kind, what |-> job.what, phase |-> job.phase, original |-> job.original]
      /\ job.kind \in {"def", "expr", "include", "stack"} /\ alive
      /\ IF job.kind = "stack" THEN session = good ELSE job.original = good
      /\ \/ job.phase = "compile" /\ child = "none"
         \/ job.phase = "run" /\ job.kind \in {"expr", "stack"}
            /\ child \in {"running", "success", "failure"}

SessionInv ==
    /\ child \in {"none", "running", "success", "failure", "orphan"}
    /\ alive \in BOOLEAN /\ crashed \in BOOLEAN /\ deaths \in 0..MaxDeaths
    /\ JobInv
    /\ job = Session!NoJob => session = good /\ child \in {"none", "orphan"}
    /\ job = Session!NoJob /\ alive => child = "none"

LEMMA SessionInit == Session!Init => SessionInv
<1> SUFFICES ASSUME Session!Init PROVE SessionInv
  OBVIOUS
<1>1. job = Session!NoJob /\ session = good /\ child = "none" /\ alive = TRUE /\ crashed = FALSE
  BY DEF Session!Init
<1>2. deaths \in 0..MaxDeaths
  BY SessionAssumption DEF Session!Init
<1> QED
  BY <1>1, <1>2 DEF SessionInv, JobInv

(* A job has a kind, and none has not.                                     *)
LEMMA JobsDiffer ==
    ASSUME NEW k \in {"def", "expr", "include", "stack"}, NEW w, NEW p, NEW o
    PROVE  [kind |-> k, what |-> w, phase |-> p, original |-> o] # Session!NoJob
<1>1. [kind |-> k, what |-> w, phase |-> p, original |-> o].kind # Session!NoJob.kind
  BY DEF Session!NoJob
<1> QED
  BY <1>1

(* A key starts a job on what was accepted.                                *)
LEMMA JobStarts ==
    ASSUME SessionInv, Session!Idle, NEW k \in {"def", "expr", "include", "stack"}, NEW w,
           Session!Start(k, w),
           IF k = "stack" THEN good' = session' ELSE good' = good,
           UNCHANGED <<child, alive, crashed, deaths>>
    PROVE  SessionInv'
<1>1. job' = [kind |-> k, what |-> w, phase |-> "compile", original |-> session]
  BY DEF Session!Start
<1>2. job' # Session!NoJob
  BY <1>1, JobsDiffer
<1>3. JobInv'
  BY <1>1 DEF SessionInv, Session!Idle, JobInv
<1> QED
  BY <1>2, <1>3 DEF SessionInv

(* A write that failed: good has what it left.                             *)
LEMMA NothingWritten ==
    ASSUME SessionInv, Session!Idle, Session!Unwritten, UNCHANGED <<job, child, alive, crashed, deaths>>
    PROVE  SessionInv'
  BY DEF SessionInv, JobInv, Session!Idle, Session!Unwritten

(* A key writes and starts a job, or could not write.                      *)
LEMMA JobWrites ==
    ASSUME SessionInv, Session!Idle, NEW k \in {"def", "expr", "include"}, NEW w, NEW new,
           Session!Write(k, w, new), UNCHANGED <<child, alive, crashed, deaths>>
    PROVE  SessionInv'
<1>1. CASE Session!Start(k, w) /\ UNCHANGED good
  BY <1>1, JobStarts
<1>2. CASE Session!Unwritten /\ UNCHANGED job
  BY <1>2, NothingWritten
<1> QED
  BY <1>1, <1>2 DEF Session!Write

(* The job ends: what is refused is taken out, or good learns that it was  *)
(* not.                                                                    *)
LEMMA JobEnds ==
    ASSUME SessionInv, job # Session!NoJob, job' = Session!NoJob, child' = "none",
           UNCHANGED <<alive, crashed, deaths>>,
           session' = good' \/ (job.kind # "stack" /\ Session!Rollback)
                            \/ (job.kind = "stack" /\ UNCHANGED <<session, good>>)
    PROVE  SessionInv'
  BY DEF SessionInv, JobInv, Session!Rollback, Session!Unwritten

LEMMA SessionStep == SessionInv /\ [Session!Next]_sessionVars => SessionInv'
<1> SUFFICES ASSUME SessionInv, [Session!Next]_sessionVars PROVE SessionInv'
  OBVIOUS
<1>1. CASE Session!try_definition
  <2>1. PICK d, new : /\ Session!Idle /\ Session!Write("def", d, new)
                      /\ UNCHANGED <<child, alive, crashed, deaths>>
    BY <1>1 DEF Session!try_definition
  <2> QED
    BY <2>1, JobWrites
<1>2. CASE Session!try_expression
  <2>1. Session!Idle /\ UNCHANGED <<child, alive, crashed, deaths>>
    BY <1>2 DEF Session!try_expression
  <2>2. CASE Session!Start("expr", "stack.dump") /\ UNCHANGED <<session, good>>
    BY <2>1, <2>2, JobStarts
  <2>3. CASE \E e, new : Session!Write("expr", e, new)
    BY <2>1, <2>3, JobWrites
  <2> QED
    BY <1>2, <2>2, <2>3 DEF Session!try_expression
<1>3. CASE Session!try_include
  <2>1. PICK m, new : /\ Session!Idle /\ Session!Write("include", m, new)
                      /\ UNCHANGED <<child, alive, crashed, deaths>>
    BY <1>3 DEF Session!try_include
  <2> QED
    BY <2>1, JobWrites
<1>4. CASE Session!pop_last_expression
  <2>1. CASE Session!DumpInDef
    BY <1>4, <2>1 DEF Session!pop_last_expression, Session!Idle, SessionInv, JobInv
  <2>2. CASE ~Session!DumpInDef
    <3>1. Session!Idle /\ UNCHANGED <<child, alive, crashed, deaths>>
      BY <1>4, <2>2 DEF Session!pop_last_expression
    <3>2. CASE Session!Start("stack", "pop") /\ good' = session'
      BY <3>1, <3>2, JobStarts
    <3>3. CASE Session!Unwritten /\ UNCHANGED job
      BY <3>1, <3>3, NothingWritten
    <3> QED
      BY <1>4, <2>2, <3>2, <3>3 DEF Session!pop_last_expression
  <2> QED
    BY <2>1, <2>2
<1>5. CASE Session!compile_and_show_stack
  <2>1. /\ Session!Idle /\ Session!Start("stack", "stack")
        /\ UNCHANGED <<session, good, child, alive, crashed, deaths>>
    BY <1>5 DEF Session!compile_and_show_stack
  <2>2. good' = session'
    BY <2>1 DEF Session!Idle, SessionInv
  <2> QED
    BY <2>1, <2>2, JobStarts
<1>6. CASE Session!clear_session \/ Session!Edit
  BY <1>6 DEF Session!clear_session, Session!Edit, Session!Unwritten, Session!Idle, SessionInv, JobInv
<1>7. CASE Session!CompileFails
  <2>1. /\ job # Session!NoJob /\ job.phase = "compile" /\ job' = Session!NoJob
        /\ IF job.kind = "stack" THEN UNCHANGED <<session, good>> ELSE Session!Rollback
        /\ UNCHANGED <<child, alive, crashed, deaths>>
    BY <1>7 DEF Session!CompileFails
  <2>2. child' = "none"
    BY <2>1 DEF SessionInv, JobInv
  <2> QED
    BY <2>1, <2>2, JobEnds
<1>8. CASE Session!CompileSucceeds
  <2>1. CASE job.kind \in {"def", "include"}
    <3>1. child' = "none" /\ session' = good' /\ job # Session!NoJob /\ job' = Session!NoJob
          /\ UNCHANGED <<alive, crashed, deaths>>
      BY <1>8, <2>1 DEF Session!CompileSucceeds, SessionInv, JobInv
    <3> QED
      BY <3>1, JobEnds
  <2>2. CASE job.kind \notin {"def", "include"}
    <3>1. /\ job # Session!NoJob /\ job' = [job EXCEPT !.phase = "run"]
          /\ child' \in {"running", "failure"}
          /\ UNCHANGED <<session, good, alive, crashed, deaths>>
      BY <1>8, <2>2 DEF Session!CompileSucceeds
    <3>2. job = [kind |-> job.kind, what |-> job.what, phase |-> job.phase, original |-> job.original]
      BY <3>1 DEF SessionInv, JobInv
    <3>3. job' = [kind |-> job.kind, what |-> job.what, phase |-> "run", original |-> job.original]
      BY <3>1, <3>2
    <3>4. /\ job'.kind = job.kind /\ job'.what = job.what /\ job'.phase = "run"
          /\ job'.original = job.original
      BY <3>3
    <3>5. job' # Session!NoJob
      BY <3>1, <3>3, JobsDiffer DEF SessionInv, JobInv
    <3> QED
      BY <2>2, <3>1, <3>3, <3>4, <3>5 DEF SessionInv, JobInv
  <2> QED
    BY <2>1, <2>2
<1>9. CASE Session!ChildExits
  <2>1. /\ child = "running" /\ child' \in {"success", "failure"}
        /\ UNCHANGED <<session, good, job, alive, crashed, deaths>>
    BY <1>9 DEF Session!ChildExits
  <2> QED
    BY <2>1 DEF SessionInv, JobInv
<1>10. CASE Session!Polled \/ Session!TimesOut
  <2>1. /\ job # Session!NoJob /\ job' = Session!NoJob /\ child' = "none"
        /\ UNCHANGED <<alive, crashed, deaths>>
        /\ \/ job.kind = "expr" /\ session' = session /\ good' = session
           \/ job.kind # "expr" /\ UNCHANGED <<session, good>>
           \/ job.kind = "expr" /\ Session!Rollback
    BY <1>10 DEF Session!Polled, Session!TimesOut, Session!Refused
  <2>2. job.kind # "expr" => job.kind = "stack"
    BY <1>10, <2>1 DEF Session!Polled, Session!TimesOut, SessionInv, JobInv
  <2> QED
    BY <2>1, <2>2, JobEnds
<1>11. CASE Session!Killed
  <2>1. deaths' \in 0..MaxDeaths
    BY <1>11, SessionAssumption DEF Session!Killed, SessionInv
  <2>2. child' \in {"none", "orphan"} /\ alive' = FALSE /\ crashed' = crashed
        /\ job' = Session!NoJob /\ good' = session'
    BY <1>11 DEF Session!Killed
  <2> QED
    BY <2>1, <2>2 DEF SessionInv, JobInv
<1>12. CASE Session!with_file
  <2>1. /\ ~alive /\ alive' = TRUE /\ crashed' = FALSE /\ child' = "none"
        /\ UNCHANGED <<session, good, job, deaths>>
    BY <1>12 DEF Session!with_file
  <2>2. job = Session!NoJob
    BY <2>1 DEF SessionInv, JobInv
  <2> QED
    BY <2>1, <2>2 DEF SessionInv, JobInv
<1>13. CASE UNCHANGED sessionVars
  BY <1>13 DEF sessionVars, SessionInv, JobInv
<1> QED
  BY <1>1, <1>2, <1>3, <1>4, <1>5, <1>6, <1>7, <1>8, <1>9, <1>10, <1>11, <1>12, <1>13
  DEF Session!Next

LEMMA SessionFollows == SessionInv => SessionSound
  BY DEF SessionInv, JobInv, SessionSound, Session!TypeOK, Session!OnlyAccepted, Session!NoChildLeft,
         Session!Idle

-----------------------------------------------------------------------------
(***************************************************************************)
(* The completion client and the language server.  AnswerInv says where    *)
(* the request of a waiting client is and that the line it asks about is   *)
(* before it; LineInv that what an idle client sent last takes the line    *)
(* out; PileInv counts what is under way between the two processes.  Every *)
(* message the server takes becomes one message to the client, so that the *)
(* number changes only when the client sends or reads.                     *)
(***************************************************************************)
Docs == [file : Nat, line : Typed \cup {NoLine}]
Questions == {"initialize", "completion", "shutdown"}
Messages == [kind : {"text"}, doc : Docs] \cup [kind : Questions \cup {"initialized"}, id : Nat]
Answers == [id : Nat, doc : Docs, null : BOOLEAN]
Clients == [phase : {"initialize", "idle", "wait", "shutdown", "gone"}, id : Nat \ {0},
            skipped : Nat, asked : Docs, limit : Nat]
Popups == [items : Nat, index : Nat, visible : BOOLEAN, source : Docs]

ServerTypes ==
    /\ file \in Nat /\ client \in Clients /\ popup \in Popups
    /\ toServer \in Seq(Messages) /\ toClient \in Seq(Answers) /\ replies \in Seq(Answers)
    /\ notes \in Seq({"log", "diagnostics"})
    /\ server \in [up : BOOLEAN, doc : Docs]

Asks(m) == m.kind \in Questions

PopupInv ==
    popup.visible => /\ popup.index < popup.items
                     /\ popup.source \in {Server!NoDoc, client.asked}

AnswerInv ==
    /\ \A i \in 1..Len(toClient) : toClient[i].id <= client.id
    /\ \A i \in 1..Len(replies) : replies[i].id <= client.id
    /\ \A i \in 1..Len(toServer) : Asks(toServer[i]) => toServer[i].id <= client.id
    /\ client.phase = "wait" =>
         /\ \A i \in 1..Len(toClient) : toClient[i].id = client.id => toClient[i].doc = client.asked
         /\ \A i \in 1..Len(replies) : replies[i].id = client.id => replies[i].doc = client.asked
         /\ \A i \in 1..(Len(toServer) - 1) : Asks(toServer[i]) => toServer[i].id < client.id
         /\ server.up /\ Len(toServer) = 1 => server.doc = client.asked
         /\ server.up /\ Len(toServer) > 1 => toServer[Len(toServer) - 1] = Server!Text(client.asked)

LineInv ==
    client.phase = "idle" /\ server.up =>
        IF toServer = <<>> THEN server.doc.line = NoLine
        ELSE /\ toServer[Len(toServer)].kind = "text"
             /\ toServer[Len(toServer)].doc.line = NoLine

UnderWay == Len(toServer) + Len(replies) + Len(notes) + Len(toClient)
Unasked(s) == \A i \in 1..Len(s) : s[i].id = 0

(* One question is open: it is the last message to the server, or its      *)
(* answer is the only one, with no more behind it than was held back.      *)
OneOpen ==
    /\ \A i \in 1..(Len(toServer) - 1) : ~Asks(toServer[i])
    /\ Len(replies) # 0 => /\ Len(toServer) = 0 /\ Len(replies) = 1 /\ Len(notes) < MaxNotes
                           /\ Unasked(toClient)
    /\ \A j \in 1..Len(toClient) : toClient[j].id # 0 =>
         /\ Len(toServer) = 0 /\ Len(replies) = 0 /\ Len(toClient) - j + Len(notes) < MaxNotes
         /\ \A i \in 1..Len(toClient) : i # j => toClient[i].id = 0

NoneOpen ==
    /\ \A i \in 1..Len(toServer) : ~Asks(toServer[i])
    /\ Len(replies) = 0 /\ Unasked(toClient)
    /\ UnderWay <= MaxNotes + 1

PileInv ==
    /\ client.phase = "idle" => client.skipped = 0
    /\ client.limit > MaxNotes + 4 =>
         /\ client.skipped <= MaxNotes + 3
         /\ Server!Waiting => client.skipped + UnderWay <= MaxNotes + 3
         /\ Server!Waiting /\ server.up => OneOpen
         /\ client.phase = "idle" /\ server.up => NoneOpen

ServerInv == ServerTypes /\ PopupInv /\ AnswerInv /\ LineInv /\ PileInv

(* Sequences: what is taken off the front, put at the end.                 *)
LEMMA TakenOff ==
    ASSUME NEW S, NEW s \in Seq(S), s # <<>>
    PROVE  /\ Tail(s) \in Seq(S) /\ Head(s) \in S /\ Head(s) = s[1]
           /\ Len(s) \in Nat /\ Len(s) >= 1 /\ Len(Tail(s)) = Len(s) - 1
           /\ \A i \in 1..(Len(s) - 1) : Tail(s)[i] = s[i + 1]
  BY HeadTailProperties, LenProperties, EmptySeq, ElementOfSeq

LEMMA PutOn ==
    ASSUME NEW S, NEW s \in Seq(S), NEW e \in S
    PROVE  /\ Append(s, e) \in Seq(S) /\ Len(s) \in Nat /\ Len(Append(s, e)) = Len(s) + 1
           /\ Append(s, e)[Len(s) + 1] = e
           /\ \A i \in 1..Len(s) : Append(s, e)[i] = s[i]
  BY AppendProperties, LenProperties

LEMMA PutOne ==
    ASSUME NEW S, NEW s \in Seq(S), NEW e \in S
    PROVE  /\ s \o <<e>> \in Seq(S) /\ Len(s) \in Nat /\ Len(s \o <<e>>) = Len(s) + 1
           /\ (s \o <<e>>)[Len(s) + 1] = e
           /\ \A i \in 1..Len(s) : (s \o <<e>>)[i] = s[i]
<1>1. <<e>> \in Seq(S) /\ Len(<<e>>) = 1 /\ <<e>>[1] = e
  OBVIOUS
<1> QED
  BY <1>1, ConcatProperties, LenProperties

LEMMA PutTwo ==
    ASSUME NEW S, NEW s \in Seq(S), NEW d \in S, NEW e \in S
    PROVE  /\ s \o <<d, e>> \in Seq(S) /\ Len(s) \in Nat /\ Len(s \o <<d, e>>) = Len(s) + 2
           /\ (s \o <<d, e>>)[Len(s) + 1] = d /\ (s \o <<d, e>>)[Len(s) + 2] = e
           /\ \A i \in 1..Len(s) : (s \o <<d, e>>)[i] = s[i]
<1>1. <<d, e>> \in Seq(S) /\ Len(<<d, e>>) = 2 /\ <<d, e>>[1] = d /\ <<d, e>>[2] = e
  OBVIOUS
<1> QED
  BY <1>1, ConcatProperties, LenProperties

LEMMA NothingLeft == ASSUME NEW S, NEW s \in Seq(S) PROVE s = <<>> <=> Len(s) = 0
  BY LenProperties, EmptySeq

(* The texts and the questions are messages; a text asks nothing.          *)
LEMMA MessageOfText ==
    ASSUME NEW d \in Docs
    PROVE  /\ Server!Text(d) \in Messages /\ ~Asks(Server!Text(d))
           /\ Server!Text(d).kind = "text" /\ Server!Text(d).doc = d
  BY DEF Server!Text, Messages, Asks, Questions

LEMMA MessageOfRequest ==
    ASSUME NEW m \in Questions \cup {"initialized"}, NEW i \in Nat
    PROVE  /\ Server!Request(m, i) \in Messages
           /\ Server!Request(m, i).kind = m /\ Server!Request(m, i).id = i
           /\ Asks(Server!Request(m, i)) <=> m \in Questions
  BY DEF Server!Request, Messages, Asks, Questions

LEMMA DocOf == ASSUME NEW f \in Nat, NEW l \in Typed \cup {NoLine} PROVE [file |-> f, line |-> l] \in Docs
  BY DEF Docs

LEMMA ClientOf ==
    ASSUME NEW p \in {"initialize", "idle", "wait", "shutdown", "gone"}, NEW i \in Nat \ {0},
           NEW k \in Nat, NEW a \in Docs, NEW l \in Nat, NEW c,
           c = [phase |-> p, id |-> i, skipped |-> k, asked |-> a, limit |-> l]
    PROVE  c \in Clients /\ c.phase = p /\ c.id = i /\ c.skipped = k /\ c.asked = a /\ c.limit = l
  BY DEF Clients

LEMMA OneMore ==
    ASSUME NEW c \in Clients
    PROVE  \A d : d = [c EXCEPT !.skipped = @ + 1] =>
             /\ d \in Clients /\ d.phase = c.phase /\ d.id = c.id /\ d.skipped = c.skipped + 1
             /\ d.asked = c.asked /\ d.limit = c.limit
<1> DEFINE e == [phase |-> c.phase, id |-> c.id, skipped |-> c.skipped + 1, asked |-> c.asked,
                 limit |-> c.limit]
<1>1. [c EXCEPT !.skipped = @ + 1] = e
  BY DEF Clients
<1>2. /\ c.phase \in {"initialize", "idle", "wait", "shutdown", "gone"} /\ c.id \in Nat \ {0}
      /\ c.skipped + 1 \in Nat /\ c.asked \in Docs /\ c.limit \in Nat
  BY DEF Clients
<1>3. /\ e \in Clients /\ e.phase = c.phase /\ e.id = c.id /\ e.skipped = c.skipped + 1
      /\ e.asked = c.asked /\ e.limit = c.limit
  BY <1>2, ClientOf
<1> HIDE DEF e
<1> QED
  BY <1>1, <1>3, Zenon

LEMMA NextId ==
    ASSUME NEW c \in Clients, NEW p \in {"wait", "shutdown"}, NEW a \in Docs
    PROVE  \A d : d = [phase |-> p, id |-> c.id + 1, skipped |-> 0, asked |-> a, limit |-> c.limit] =>
             /\ d \in Clients /\ d.phase = p /\ d.id = c.id + 1 /\ d.skipped = 0
             /\ d.asked = a /\ d.limit = c.limit
<1> DEFINE e == [phase |-> p, id |-> c.id + 1, skipped |-> 0, asked |-> a, limit |-> c.limit]
<1>1. c.id + 1 \in Nat \ {0} /\ c.limit \in Nat /\ 0 \in Nat
  BY DEF Clients
<1>2. /\ e \in Clients /\ e.phase = p /\ e.id = c.id + 1 /\ e.skipped = 0
      /\ e.asked = a /\ e.limit = c.limit
  BY <1>1, ClientOf
<1> HIDE DEF e
<1> QED
  BY <1>2, Zenon DEF e

LEMMA NoDocIsDoc == Server!NoDoc \in Docs
  BY DEF Server!NoDoc, Docs

LEMMA HiddenIsPopup == Server!Hidden \in Popups /\ ~Server!Hidden.visible
  BY NoDocIsDoc DEF Server!Hidden, Popups

LEMMA ServerInit == Server!Init \/ NoServer => ServerInv
<1>1. ASSUME Server!Init PROVE ServerInv
  <2>1. PICK n \in Limits :
          client = [phase |-> "initialize", id |-> 1, skipped |-> 0, asked |-> Server!NoDoc, limit |-> n]
    BY <1>1 DEF Server!Init
  <2>2. n \in Nat
    BY ServerAssumption
  <2>3. client \in Clients
    BY <2>1, <2>2, NoDocIsDoc DEF Clients
  <2>4. client.phase = "initialize" /\ client.id = 1 /\ client.skipped = 0
    BY <2>1
  <2>5. Server!Request("initialize", 1) \in Messages
    BY MessageOfRequest DEF Questions
  <2>6. /\ toServer \in Seq(Messages) /\ Len(toServer) = 1
        /\ toServer[1] = Server!Request("initialize", 1)
    BY <1>1, <2>5 DEF Server!Init
  <2>7. toServer[1].id = 1
    BY <2>6, MessageOfRequest DEF Questions
  <2>8. /\ toClient = <<>> /\ Len(toClient) = 0 /\ replies = <<>> /\ Len(replies) = 0
        /\ notes = <<>> /\ Len(notes) = 0
    BY <1>1 DEF Server!Init
  <2>9. ServerTypes
    BY <1>1, <2>3, <2>6, NoDocIsDoc, HiddenIsPopup DEF ServerTypes, Server!Init
  <2>10. PopupInv
    BY <1>1, HiddenIsPopup DEF PopupInv, Server!Init
  <2>11. AnswerInv /\ LineInv
    BY <2>4, <2>6, <2>7, <2>8 DEF AnswerInv, LineInv
  <2>12. PileInv
    BY <2>4, <2>6, <2>8, ServerAssumption DEF PileInv, OneOpen, UnderWay, Unasked
  <2> QED
    BY <2>9, <2>10, <2>11, <2>12 DEF ServerInv
<1>2. ASSUME NoServer PROVE ServerInv
  <2>1. client \in Clients /\ client.phase = "gone" /\ client.skipped = 0 /\ client.limit = 0
    BY <1>2, NoDocIsDoc DEF NoServer, Clients
  <2>2. /\ Len(toClient) = 0 /\ Len(replies) = 0 /\ Len(toServer) = 0 /\ Len(notes) = 0
    BY <1>2 DEF NoServer
  <2>3. ServerTypes
    BY <1>2, <2>1, NoDocIsDoc, HiddenIsPopup DEF ServerTypes, NoServer
  <2>4. PopupInv
    BY <1>2, HiddenIsPopup DEF PopupInv, NoServer
  <2>5. AnswerInv /\ LineInv
    BY <2>1, <2>2 DEF AnswerInv, LineInv
  <2>6. PileInv
    BY <2>1, <2>2, ServerAssumption DEF PileInv, Server!Waiting
  <2> QED
    BY <2>3, <2>4, <2>5, <2>6 DEF ServerInv
<1> QED
  BY <1>1, <1>2

(* The lengths and the fields that the steps below talk about.             *)
LEMMA ServerFields ==
    ASSUME ServerTypes
    PROVE  /\ Len(toServer) \in Nat /\ Len(toClient) \in Nat /\ Len(replies) \in Nat /\ Len(notes) \in Nat
           /\ client.id \in Nat \ {0} /\ client.skipped \in Nat /\ client.limit \in Nat
           /\ client.phase \in {"initialize", "idle", "wait", "shutdown", "gone"}
           /\ client.asked \in Docs /\ client.asked.file \in Nat
           /\ server.up \in BOOLEAN /\ server.doc \in Docs
           /\ toServer = <<>> <=> Len(toServer) = 0
           /\ \A i \in 1..Len(toClient) : toClient[i] \in Answers /\ toClient[i].id \in Nat
           /\ \A i \in 1..Len(replies) : replies[i] \in Answers /\ replies[i].id \in Nat
<1>1. /\ client.id \in Nat \ {0} /\ client.skipped \in Nat /\ client.limit \in Nat
      /\ client.phase \in {"initialize", "idle", "wait", "shutdown", "gone"} /\ client.asked \in Docs
  BY DEF ServerTypes, Clients
<1>2. client.asked.file \in Nat
  BY <1>1 DEF Docs
<1>3. server.up \in BOOLEAN /\ server.doc \in Docs
  BY DEF ServerTypes
<1>4. /\ Len(toServer) \in Nat /\ Len(toClient) \in Nat /\ Len(replies) \in Nat /\ Len(notes) \in Nat
      /\ toServer = <<>> <=> Len(toServer) = 0
  BY LenProperties, EmptySeq DEF ServerTypes
<1>5. \A a \in Answers : a.id \in Nat
  BY DEF Answers
<1>6. /\ \A i \in 1..Len(toClient) : toClient[i] \in Answers
      /\ \A i \in 1..Len(replies) : replies[i] \in Answers
  BY ElementOfSeq DEF ServerTypes
<1> QED
  BY <1>1, <1>2, <1>3, <1>4, <1>5, <1>6

(* A question is answered from the document.                               *)
LEMMA QuestionHandled ==
    ASSUME ServerInv, server.up, toServer # <<>>, Len(notes) < MaxNotes, Asks(Head(toServer)),
           replies' = Server!Answer(Head(toServer)), toServer' = Tail(toServer),
           UNCHANGED <<file, client, popup, toClient, server, notes>>
    PROVE  ServerInv'
<1> DEFINE m == Head(toServer)
<1>1. ServerTypes
  BY DEF ServerInv
<1>0. /\ Len(toServer) \in Nat /\ Len(toClient) \in Nat /\ Len(replies) \in Nat /\ Len(notes) \in Nat
      /\ client.id \in Nat
  BY <1>1, ServerFields
<1>2. /\ m \in Messages /\ m = toServer[1] /\ toServer' \in Seq(Messages)
      /\ Len(toServer) >= 1 /\ Len(toServer') = Len(toServer) - 1
      /\ \A i \in 1..(Len(toServer) - 1) : toServer'[i] = toServer[i + 1]
  BY <1>1, TakenOff DEF ServerTypes
<1>3. m.id \in Nat
  BY <1>2 DEF Messages, Asks, Questions
<1>4. PICK a \in Answers : a.id = m.id /\ a.doc = server.doc /\ replies' = Append(replies, a)
  <2> DEFINE b == [id |-> m.id, doc |-> server.doc, null |-> m.kind = "shutdown"]
  <2>1. b \in Answers /\ b.id = m.id /\ b.doc = server.doc
    BY <1>1, <1>3, ServerFields DEF Answers
  <2>2. replies' = Append(replies, b)
    BY DEF Server!Answer
  <2> HIDE DEF b
  <2> QED
    BY <2>1, <2>2
<1>5. replies \in Seq(Answers)
  BY <1>1 DEF ServerTypes
<1> HIDE DEF m
<1>6. /\ replies' \in Seq(Answers) /\ Len(replies') = Len(replies) + 1
      /\ replies'[Len(replies) + 1] = a
      /\ \A i \in 1..Len(replies) : replies'[i] = replies[i]
  <2>1. /\ Append(replies, a) \in Seq(Answers) /\ Len(Append(replies, a)) = Len(replies) + 1
        /\ Append(replies, a)[Len(replies) + 1] = a
        /\ \A i \in 1..Len(replies) : Append(replies, a)[i] = replies[i]
    BY <1>5, PutOn
  <2> QED
    BY <1>4, <2>1, Zenon
<1>7. ServerTypes'
  BY <1>1, <1>2, <1>6 DEF ServerTypes
<1>8. PopupInv'
  BY DEF ServerInv, PopupInv
<1>9. m.id <= client.id
  BY <1>1, <1>2, ServerFields DEF ServerInv, AnswerInv, m
<1>10. AnswerInv'
  <2>1. /\ \A i \in 1..Len(toClient') : toClient'[i].id <= client'.id
        /\ \A i \in 1..Len(replies') : replies'[i].id <= client'.id
        /\ \A i \in 1..Len(toServer') : Asks(toServer'[i]) => toServer'[i].id <= client'.id
    <3>1. \A i \in 1..Len(replies') : replies'[i].id <= client'.id
      BY <1>0, <1>4, <1>6, <1>9, SMTT(60) DEF ServerInv, AnswerInv
    <3>2. \A i \in 1..Len(toServer') : Asks(toServer'[i]) => toServer'[i].id <= client'.id
      BY <1>0, <1>2 DEF ServerInv, AnswerInv
    <3> QED
      BY <3>1, <3>2 DEF ServerInv, AnswerInv
  <2>2. ASSUME client.phase = "wait"
        PROVE  /\ a.id = client.id => a.doc = client.asked
               /\ \A i \in 1..(Len(toServer') - 1) : Asks(toServer'[i]) => toServer'[i].id < client.id
               /\ Len(toServer') = 1 => FALSE
               /\ Len(toServer') > 1 => toServer'[Len(toServer') - 1] = Server!Text(client.asked)
    <3>1. Len(toServer) = 1 => a.doc = client.asked
      BY <1>4, <2>2 DEF ServerInv, AnswerInv
    <3>2. Len(toServer) > 1 => m.id < client.id
      BY <1>1, <1>2, <2>2, ServerFields, SMTT(60) DEF ServerInv, AnswerInv, m
    <3>3. Len(toServer) # 2
      <4>1. Len(toServer) = 2 => m = Server!Text(client.asked)
        BY <1>2, <2>2 DEF ServerInv, AnswerInv
      <4> QED
        BY <1>1, <4>1, MessageOfText, ServerFields DEF m
    <3>4. a.id = client.id => a.doc = client.asked
      BY <1>0, <1>2, <1>3, <1>4, <3>1, <3>2
    <3>5. \A i \in 1..(Len(toServer') - 1) : Asks(toServer'[i]) => toServer'[i].id < client.id
      BY <1>0, <1>2, <2>2, SMTT(60) DEF ServerInv, AnswerInv
    <3>6. ASSUME Len(toServer') > 1
          PROVE  toServer'[Len(toServer') - 1] = Server!Text(client.asked)
      <4>1. Len(toServer') - 1 \in 1..(Len(toServer) - 1) /\ Len(toServer) > 1
            /\ (Len(toServer') - 1) + 1 = Len(toServer) - 1
        BY <1>0, <1>2, <3>6
      <4> QED
        BY <1>2, <2>2, <4>1 DEF ServerInv, AnswerInv
    <3> QED
      BY <1>0, <1>2, <3>3, <3>4, <3>5, <3>6, SMTT(60)
  <2> QED
    <3>1. ASSUME client.phase = "wait"
          PROVE  \A i \in 1..Len(replies') : replies'[i].id = client.id => replies'[i].doc = client.asked
      BY <1>0, <1>6, <2>2, <3>1, SMTT(60) DEF ServerInv, AnswerInv
    <3> QED
      BY <2>1, <2>2, <3>1 DEF ServerInv, AnswerInv
<1>11. LineInv'
  <2>1. ASSUME client.phase = "idle"
        PROVE  /\ Len(toServer) # 1
               /\ toServer'[Len(toServer')].kind = "text" /\ toServer'[Len(toServer')].doc.line = NoLine
    BY <1>1, <1>2, <2>1, ServerFields, SMTT(60) DEF ServerInv, LineInv, Asks, Questions, m
  <2>2. Len(toServer) # 1 => toServer' # <<>>
    <3>1. toServer' = <<>> <=> Len(toServer') = 0
      BY <1>2, NothingLeft, Zenon
    <3> QED
      BY <1>0, <1>2, <3>1
  <2> QED
    BY <2>1, <2>2 DEF LineInv
<1>12. PileInv'
  <2>1. UnderWay' = UnderWay
    <3>1. /\ Len(toServer') = Len(toServer) - 1 /\ Len(replies') = Len(replies) + 1
          /\ notes' = notes /\ toClient' = toClient
      BY <1>2, <1>6
    <3> QED
      BY <1>0, <3>1 DEF UnderWay
  <2>2. OneOpen => OneOpen'
    <3> SUFFICES ASSUME OneOpen PROVE OneOpen'
      OBVIOUS
    <3>1. Len(toServer) = 1
      BY <1>0, <1>2 DEF OneOpen, m
    <3>2. Len(replies) = 0 /\ Unasked(toClient)
      BY <1>0, <3>1 DEF OneOpen, Unasked
    <3> QED
      BY <1>0, <1>2, <1>6, <3>1, <3>2 DEF OneOpen, Unasked
  <2>3. ~NoneOpen
    BY <1>1, <1>2, ServerFields DEF NoneOpen, m
  <2> QED
    BY <2>1, <2>2, <2>3 DEF ServerInv, PileInv, Server!Waiting
<1> QED
  BY <1>7, <1>8, <1>10, <1>11, <1>12 DEF ServerInv

(* A text is put into the cache; it and initialized leave a notification.  *)
LEMMA NotificationHandled ==
    ASSUME ServerInv, server.up, toServer # <<>>, Len(notes) < MaxNotes, ~Asks(Head(toServer)),
           NEW n \in {"log", "diagnostics"}, notes' = Append(notes, n), toServer' = Tail(toServer),
           server' = IF Head(toServer).kind = "text" THEN [server EXCEPT !.doc = Head(toServer).doc]
                                                     ELSE server,
           UNCHANGED <<file, client, popup, toClient, replies>>
    PROVE  ServerInv'
<1> DEFINE m == Head(toServer)
<1>1. ServerTypes
  BY DEF ServerInv
<1>0. /\ Len(toServer) \in Nat /\ Len(toClient) \in Nat /\ Len(replies) \in Nat /\ Len(notes) \in Nat
      /\ client.id \in Nat
  BY <1>1, ServerFields
<1>2. /\ m \in Messages /\ m = toServer[1] /\ toServer' \in Seq(Messages)
      /\ Len(toServer) >= 1 /\ Len(toServer') = Len(toServer) - 1
      /\ \A i \in 1..(Len(toServer) - 1) : toServer'[i] = toServer[i + 1]
  BY <1>1, TakenOff DEF ServerTypes
<1>3. m.kind = "text" => m.doc \in Docs
  BY <1>2 DEF Messages, Questions
<1>4. /\ server' \in [up : BOOLEAN, doc : Docs] /\ server'.up
      /\ server'.doc = IF m.kind = "text" THEN m.doc ELSE server.doc
  BY <1>1, <1>3 DEF ServerTypes
<1>5. notes' \in Seq({"log", "diagnostics"}) /\ Len(notes') = Len(notes) + 1
  BY <1>1, PutOn DEF ServerTypes
<1> HIDE DEF m
<1>6. ServerTypes'
  BY <1>1, <1>2, <1>4, <1>5 DEF ServerTypes
<1>7. PopupInv'
  BY DEF ServerInv, PopupInv
<1>8. AnswerInv'
  <2>1. /\ \A i \in 1..Len(toClient') : toClient'[i].id <= client'.id
        /\ \A i \in 1..Len(replies') : replies'[i].id <= client'.id
        /\ \A i \in 1..Len(toServer') : Asks(toServer'[i]) => toServer'[i].id <= client'.id
    BY <1>1, <1>2, ServerFields, SMTT(60) DEF ServerInv, AnswerInv
  <2>2. ASSUME client.phase = "wait"
        PROVE  /\ \A i \in 1..(Len(toServer') - 1) : Asks(toServer'[i]) => toServer'[i].id < client.id
               /\ Len(toServer') = 1 => server'.doc = client.asked
               /\ Len(toServer') > 1 => toServer'[Len(toServer') - 1] = Server!Text(client.asked)
    <3>1. Len(toServer) = 2 => m = Server!Text(client.asked)
      BY <1>2, <2>2 DEF ServerInv, AnswerInv
    <3>2. Len(toServer') = 1 => server'.doc = client.asked
      BY <1>1, <1>2, <1>4, <3>1, MessageOfText, ServerFields
    <3>3. ASSUME NEW i \in 1..(Len(toServer') - 1), Asks(toServer'[i])
          PROVE  toServer'[i].id < client.id
      <4>1. i + 1 \in 1..(Len(toServer) - 1) /\ toServer'[i] = toServer[i + 1]
        BY <1>0, <1>2
      <4> QED
        BY <2>2, <3>3, <4>1 DEF ServerInv, AnswerInv
    <3>4. ASSUME Len(toServer') > 1
          PROVE  toServer'[Len(toServer') - 1] = Server!Text(client.asked)
      <4>1. Len(toServer') - 1 \in 1..(Len(toServer) - 1) /\ Len(toServer) > 1
            /\ (Len(toServer') - 1) + 1 = Len(toServer) - 1
        BY <1>0, <1>2, <3>4
      <4> QED
        BY <1>2, <2>2, <4>1 DEF ServerInv, AnswerInv
    <3> QED
      BY <3>2, <3>3, <3>4
  <2> QED
    BY <1>1, <1>2, <2>1, <2>2, ServerFields DEF ServerInv, AnswerInv
<1>9. LineInv'
  <2>1. ASSUME client.phase = "idle", Len(toServer) = 1
        PROVE  server'.doc.line = NoLine
    BY <1>1, <1>2, <1>4, <2>1, ServerFields DEF ServerInv, LineInv
  <2>2. ASSUME client.phase = "idle", Len(toServer) # 1
        PROVE  toServer'[Len(toServer')].kind = "text" /\ toServer'[Len(toServer')].doc.line = NoLine
    BY <1>1, <1>2, <2>2, ServerFields DEF ServerInv, LineInv
  <2>3. toServer' = <<>> <=> Len(toServer) = 1
    <3>1. toServer' = <<>> <=> Len(toServer') = 0
      BY <1>2, NothingLeft, Zenon
    <3> QED
      BY <1>0, <1>2, <3>1, SMTT(60)
  <2> QED
    BY <2>1, <2>2, <2>3 DEF LineInv
<1>10. PileInv'
  <2>1. UnderWay' = UnderWay
    BY <1>1, <1>2, <1>5, ServerFields DEF UnderWay
  <2>2. OneOpen => OneOpen'
    <3> SUFFICES ASSUME OneOpen PROVE OneOpen'
      OBVIOUS
    <3>1. Len(replies) = 0 /\ Unasked(toClient)
      BY <1>0, <1>2 DEF OneOpen, Unasked
    <3>2. \A i \in 1..(Len(toServer') - 1) : ~Asks(toServer'[i])
      BY <1>0, <1>2, SMTT(60) DEF OneOpen
    <3> QED
      BY <1>0, <3>1, <3>2 DEF OneOpen, Unasked
  <2>3. NoneOpen => NoneOpen'
    BY <1>1, <1>2, <2>1, ServerFields DEF NoneOpen, Unasked
  <2> QED
    BY <2>1, <2>2, <2>3 DEF ServerInv, PileInv, Server!Waiting
<1> QED
  BY <1>6, <1>7, <1>8, <1>9, <1>10 DEF ServerInv

LEMMA HandleHolds == ASSUME ServerInv, Server!Handle PROVE ServerInv'
<1> DEFINE m == Head(toServer)
<1>1. ServerTypes
  BY DEF ServerInv
<1>2. /\ server.up /\ toServer # <<>> /\ Len(notes) < MaxNotes /\ toServer' = Tail(toServer)
      /\ UNCHANGED <<file, client, popup, toClient>>
  BY DEF Server!Handle
<1>3. m \in Messages
  BY <1>1, <1>2, TakenOff DEF ServerTypes
<1>4. m.kind # "exit"
  BY <1>3 DEF Messages, Questions
<1>5. CASE m.kind \in Questions
  <2>1. replies' = Server!Answer(m) /\ UNCHANGED <<notes, server>>
    BY <1>4, <1>5 DEF Server!Handle, Questions
  <2> QED
    BY <1>2, <1>5, <2>1, QuestionHandled DEF Asks
<1>6. CASE m.kind \notin Questions
  <2>1. PICK n \in {"log", "diagnostics"} :
          /\ notes' = Append(notes, n) /\ UNCHANGED replies
          /\ server' = IF m.kind = "text" THEN [server EXCEPT !.doc = m.doc] ELSE server
    BY <1>4, <1>6 DEF Server!Handle, Server!update_document, Questions
  <2> QED
    BY <1>2, <1>6, <2>1, NotificationHandled DEF Asks
<1> QED
  BY <1>5, <1>6

(* An answer or a notification that is written is one message for the      *)
(* client, whichever queue it comes from.                                  *)
LEMMA ReplyWritten == ASSUME ServerInv, Server!WriteReply PROVE ServerInv'
<1> DEFINE a == Head(replies)
<1>1. ServerTypes
  BY DEF ServerInv
<1>0. /\ Len(toServer) \in Nat /\ Len(toClient) \in Nat /\ Len(replies) \in Nat /\ Len(notes) \in Nat
      /\ client.id \in Nat
  BY <1>1, ServerFields
<1>2. /\ server.up /\ replies # <<>> /\ toClient' = Append(toClient, a) /\ replies' = Tail(replies)
      /\ UNCHANGED <<file, client, popup, toServer, server, notes>>
  BY DEF Server!WriteReply
<1>3. /\ a \in Answers /\ a = replies[1] /\ replies' \in Seq(Answers)
      /\ Len(replies) >= 1 /\ Len(replies') = Len(replies) - 1
      /\ \A i \in 1..(Len(replies) - 1) : replies'[i] = replies[i + 1]
  <2>1. replies \in Seq(Answers) /\ replies # <<>>
    BY <1>1, <1>2 DEF ServerTypes
  <2> QED
    BY <1>2, <2>1, TakenOff
<1> HIDE DEF a
<1>4. /\ toClient' \in Seq(Answers) /\ Len(toClient') = Len(toClient) + 1
      /\ toClient'[Len(toClient) + 1] = a
      /\ \A i \in 1..Len(toClient) : toClient'[i] = toClient[i]
  <2>1. /\ Append(toClient, a) \in Seq(Answers) /\ Len(Append(toClient, a)) = Len(toClient) + 1
        /\ Append(toClient, a)[Len(toClient) + 1] = a
        /\ \A i \in 1..Len(toClient) : Append(toClient, a)[i] = toClient[i]
    BY <1>1, <1>3, PutOn DEF ServerTypes
  <2> QED
    BY <1>2, <2>1, Zenon
<1>5. ServerTypes'
  BY <1>1, <1>2, <1>3, <1>4 DEF ServerTypes
<1>6. PopupInv' /\ LineInv'
  BY <1>2 DEF ServerInv, PopupInv, LineInv
<1>7. AnswerInv'
  <2>1. a.id <= client.id /\ (client.phase = "wait" /\ a.id = client.id => a.doc = client.asked)
    BY <1>0, <1>3 DEF ServerInv, AnswerInv
  <2>2. /\ \A i \in 1..Len(toClient') : toClient'[i].id <= client.id
        /\ client.phase = "wait" =>
             \A i \in 1..Len(toClient') : toClient'[i].id = client.id => toClient'[i].doc = client.asked
    <3>1. /\ \A i \in 1..Len(toClient) : toClient[i].id <= client.id
          /\ client.phase = "wait" =>
               \A i \in 1..Len(toClient) : toClient[i].id = client.id => toClient[i].doc = client.asked
      BY Zenon DEF ServerInv, AnswerInv
    <3>2. \A i \in 1..Len(toClient') : i \in 1..Len(toClient) \/ i = Len(toClient) + 1
      BY <1>0, <1>4
    <3>3. \A i \in 1..Len(toClient') : toClient'[i] = a \/ (i \in 1..Len(toClient) /\ toClient'[i] = toClient[i])
      BY <1>4, <3>2, Zenon
    <3> QED
      BY <2>1, <3>1, <3>3, Zenon
  <2>3. /\ \A i \in 1..Len(replies') : replies'[i].id <= client.id
        /\ client.phase = "wait" =>
             \A i \in 1..Len(replies') : replies'[i].id = client.id => replies'[i].doc = client.asked
    <3>1. /\ \A i \in 1..Len(replies) : replies[i].id <= client.id
          /\ client.phase = "wait" =>
               \A i \in 1..Len(replies) : replies[i].id = client.id => replies[i].doc = client.asked
      BY Zenon DEF ServerInv, AnswerInv
    <3>2. \A i \in 1..Len(replies') : i \in 1..(Len(replies) - 1) /\ i + 1 \in 1..Len(replies)
      BY <1>0, <1>3
    <3>3. \A i \in 1..Len(replies') : \E j \in 1..Len(replies) : replies'[i] = replies[j]
      BY <1>3, <3>2, Zenon
    <3> QED
      BY <3>1, <3>3, Zenon
  <2> QED
    BY <1>2, <2>2, <2>3 DEF ServerInv, AnswerInv
<1>8. PileInv'
  <2>1. UnderWay' = UnderWay
    BY <1>0, <1>2, <1>3, <1>4 DEF UnderWay
  <2>2. ASSUME OneOpen PROVE OneOpen'
    <3>1. Len(toServer) = 0 /\ Len(replies) = 1 /\ Len(notes) < MaxNotes /\ Unasked(toClient)
      BY <1>0, <1>3, <2>2 DEF OneOpen
    <3>2. \A i \in 1..Len(toClient') : i # Len(toClient') => toClient'[i].id = 0
      BY <1>0, <1>4, <3>1 DEF Unasked
    <3> QED
      BY <1>0, <1>2, <1>3, <1>4, <3>1, <3>2 DEF OneOpen
  <2>3. ~NoneOpen
    BY <1>0, <1>3 DEF NoneOpen
  <2> QED
    BY <1>2, <2>1, <2>2, <2>3 DEF ServerInv, PileInv, Server!Waiting
<1> QED
  BY <1>5, <1>6, <1>7, <1>8 DEF ServerInv

LEMMA NoteWritten == ASSUME ServerInv, Server!WriteNote PROVE ServerInv'
<1>1. ServerTypes
  BY DEF ServerInv
<1>0. /\ Len(toServer) \in Nat /\ Len(toClient) \in Nat /\ Len(replies) \in Nat /\ Len(notes) \in Nat
      /\ client.id \in Nat \ {0}
  BY <1>1, ServerFields
<1>2. PICK a \in Answers :
        /\ a.id = 0 /\ server.up /\ notes # <<>> /\ toClient' = Append(toClient, a) /\ notes' = Tail(notes)
        /\ UNCHANGED <<file, client, popup, toServer, server, replies>>
  <2> DEFINE b == [id |-> 0, doc |-> Server!NoDoc, null |-> TRUE]
  <2>1. b \in Answers /\ b.id = 0
    BY NoDocIsDoc DEF Answers
  <2>2. /\ server.up /\ notes # <<>> /\ toClient' = Append(toClient, b) /\ notes' = Tail(notes)
        /\ UNCHANGED <<file, client, popup, toServer, server, replies>>
    BY DEF Server!WriteNote
  <2> HIDE DEF b
  <2> QED
    BY <2>1, <2>2
<1>3. /\ notes' \in Seq({"log", "diagnostics"}) /\ Len(notes) >= 1 /\ Len(notes') = Len(notes) - 1
  <2>1. notes \in Seq({"log", "diagnostics"}) /\ notes # <<>>
    BY <1>1, <1>2 DEF ServerTypes
  <2> QED
    BY <1>2, <2>1, TakenOff
<1>4. /\ toClient' \in Seq(Answers) /\ Len(toClient') = Len(toClient) + 1
      /\ toClient'[Len(toClient) + 1] = a
      /\ \A i \in 1..Len(toClient) : toClient'[i] = toClient[i]
  <2>1. /\ Append(toClient, a) \in Seq(Answers) /\ Len(Append(toClient, a)) = Len(toClient) + 1
        /\ Append(toClient, a)[Len(toClient) + 1] = a
        /\ \A i \in 1..Len(toClient) : Append(toClient, a)[i] = toClient[i]
    BY <1>1, PutOn DEF ServerTypes
  <2> QED
    BY <1>2, <2>1, Zenon
<1>5. ServerTypes'
  BY <1>1, <1>2, <1>3, <1>4 DEF ServerTypes
<1>6. PopupInv' /\ LineInv'
  BY <1>2 DEF ServerInv, PopupInv, LineInv
<1>7. AnswerInv'
  <2>1. /\ \A i \in 1..Len(toClient') : toClient'[i].id <= client.id
        /\ client.phase = "wait" =>
             \A i \in 1..Len(toClient') : toClient'[i].id = client.id => toClient'[i].doc = client.asked
    BY <1>0, <1>2, <1>4 DEF ServerInv, AnswerInv
  <2> QED
    BY <1>2, <2>1 DEF ServerInv, AnswerInv
<1>8. PileInv'
  <2>1. UnderWay' = UnderWay
    BY <1>0, <1>2, <1>3, <1>4 DEF UnderWay
  <2>2. ASSUME OneOpen PROVE OneOpen'
    <3>1. /\ \A i \in 1..(Len(toServer') - 1) : ~Asks(toServer'[i])
          /\ Len(replies') # 0 => /\ Len(toServer') = 0 /\ Len(replies') = 1 /\ Len(notes') < MaxNotes
                                  /\ Unasked(toClient')
      BY <1>0, <1>2, <1>3, <1>4, <2>2, ServerAssumption DEF OneOpen, Unasked
    <3>2. ASSUME NEW j \in 1..Len(toClient'), toClient'[j].id # 0
          PROVE  /\ Len(toServer') = 0 /\ Len(replies') = 0 /\ Len(toClient') - j + Len(notes') < MaxNotes
                 /\ \A i \in 1..Len(toClient') : i # j => toClient'[i].id = 0
      <4>1. j \in 1..Len(toClient) /\ toClient[j].id # 0
        BY <1>0, <1>2, <1>4, <3>2
      <4>2. /\ Len(toServer) = 0 /\ Len(replies) = 0 /\ Len(toClient) - j + Len(notes) < MaxNotes
            /\ \A i \in 1..Len(toClient) : i # j => toClient[i].id = 0
        BY <2>2, <4>1 DEF OneOpen
      <4>3. \A i \in 1..Len(toClient') : i # j => toClient'[i].id = 0
        BY <1>0, <1>2, <1>4, <4>2
      <4>4. Len(toClient') - j + Len(notes') = Len(toClient) - j + Len(notes)
        BY <1>0, <1>3, <1>4
      <4> QED
        BY <1>2, <4>2, <4>3, <4>4
    <3> QED
      BY <3>1, <3>2 DEF OneOpen
  <2>3. ASSUME NoneOpen PROVE NoneOpen'
    BY <1>0, <1>2, <1>4, <2>1, <2>3 DEF NoneOpen, Unasked
  <2> QED
    BY <1>2, <2>1, <2>2, <2>3 DEF ServerInv, PileInv, Server!Waiting
<1> QED
  BY <1>5, <1>6, <1>7, <1>8 DEF ServerInv

(* A server that is gone answers nothing: what is promised of one that is  *)
(* up need not hold any more.                                              *)
LEMMA ServerGone ==
    ASSUME ServerInv, server' = [server EXCEPT !.up = FALSE],
           UNCHANGED <<file, client, popup, toServer, toClient, replies, notes>>
    PROVE  ServerInv'
<1>1. server' \in [up : BOOLEAN, doc : Docs] /\ ~server'.up
  BY DEF ServerInv, ServerTypes
<1>2. ServerTypes'
  BY <1>1 DEF ServerInv, ServerTypes
<1>3. PopupInv' /\ LineInv' /\ AnswerInv'
  BY <1>1 DEF ServerInv, PopupInv, LineInv, AnswerInv
<1>4. PileInv'
  BY <1>1 DEF ServerInv, PileInv, Server!Waiting, UnderWay
<1> QED
  BY <1>2, <1>3, <1>4 DEF ServerInv

(* Keys that touch the popup alone, and the file.                          *)
LEMMA PopupChanges ==
    ASSUME ServerInv, file' \in Nat, popup' \in Popups,
           popup'.visible => popup'.index < popup'.items /\ popup'.source \in {Server!NoDoc, client.asked},
           UNCHANGED <<client, toServer, toClient, server, replies, notes>>
    PROVE  ServerInv'
<1>1. ServerTypes'
  BY DEF ServerInv, ServerTypes
<1>2. PopupInv' /\ LineInv' /\ AnswerInv'
  BY DEF ServerInv, PopupInv, LineInv, AnswerInv
<1>3. PileInv'
  <2>1. (OneOpen' <=> OneOpen) /\ (NoneOpen' <=> NoneOpen) /\ UnderWay' = UnderWay
    BY DEF OneOpen, NoneOpen, UnderWay, Unasked
  <2> QED
    BY <2>1 DEF ServerInv, PileInv, Server!Waiting
<1> QED
  BY <1>1, <1>2, <1>3 DEF ServerInv

LEMMA ShownIsHonest ==
    ASSUME NEW n \in 0..MaxItems, NEW d \in Docs
    PROVE  /\ Server!Shown(n, d) \in Popups
           /\ Server!Shown(n, d).visible => /\ Server!Shown(n, d).index < Server!Shown(n, d).items
                                            /\ Server!Shown(n, d).source = d
<1>1. n \in Nat
  BY ServerAssumption
<1>2. CASE n > 0
  <2>1. Server!Shown(n, d) = [items |-> n, index |-> 0, visible |-> TRUE, source |-> d]
    BY <1>1, <1>2 DEF Server!Shown
  <2> QED
    BY <1>1, <1>2, <2>1 DEF Popups
<1>3. CASE ~(n > 0)
  <2>1. Server!Shown(n, d) = [items |-> n, index |-> 0, visible |-> FALSE, source |-> Server!NoDoc]
    <3>1. (n > 0) = FALSE
      BY <1>3
    <3> QED
      BY <3>1, Zenon DEF Server!Shown
  <2> QED
    BY <1>1, <2>1, NoDocIsDoc DEF Popups
<1> QED
  BY <1>2, <1>3

LEMMA PopupMoved ==
    ASSUME ServerInv, popup.visible,
           NEW i \in {Server!Up(popup.index, popup.items), Server!Down(popup.index, popup.items)},
           popup' = [popup EXCEPT !.index = i]
    PROVE  popup' \in Popups /\ popup'.index < popup'.items /\ popup'.source \in {Server!NoDoc, client.asked}
<1>1. popup \in Popups /\ popup.index < popup.items /\ popup.source \in {Server!NoDoc, client.asked}
  BY DEF ServerInv, ServerTypes, PopupInv
<1>2. popup.index \in Nat /\ popup.items \in Nat
  BY <1>1 DEF Popups
<1>3. i \in Nat /\ i < popup.items
  BY <1>1, <1>2 DEF Server!Up, Server!Down
<1> QED
  BY <1>1, <1>3 DEF Popups

(* The keys that ask nothing of the server.                                *)
LEMMA BuiltinsShown ==
    ASSUME ServerInv, Server!Builtins, UNCHANGED <<file, client, toServer, toClient, server, replies, notes>>
    PROVE  ServerInv'
<1>1. PICK n \in 0..MaxItems : popup' = Server!Shown(n, Server!NoDoc)
  BY DEF Server!Builtins
<1>2. popup' \in Popups
      /\ (popup'.visible => popup'.index < popup'.items /\ popup'.source = Server!NoDoc)
  BY <1>1, ShownIsHonest, NoDocIsDoc
<1>3. file' \in Nat
  BY DEF ServerInv, ServerTypes
<1> QED
  BY <1>2, <1>3, PopupChanges

LEMMA KeysHold ==
    ASSUME ServerInv,
           Server!RequestWithout \/ Server!PopupMoves \/ Server!PopupHides \/ Server!FileChanges
    PROVE  ServerInv'
<1>1. file \in Nat /\ popup \in Popups
      /\ (popup.visible => popup.index < popup.items /\ popup.source \in {Server!NoDoc, client.asked})
  BY DEF ServerInv, ServerTypes, PopupInv
<1>2. CASE Server!RequestWithout
  BY <1>2, BuiltinsShown DEF Server!RequestWithout
<1>3. CASE Server!PopupMoves
  <2>1. PICK i \in {Server!Up(popup.index, popup.items), Server!Down(popup.index, popup.items)} :
          popup' = [popup EXCEPT !.index = i]
    BY <1>3 DEF Server!PopupMoves
  <2>2. popup.visible /\ UNCHANGED <<file, client, toServer, toClient, server, replies, notes>>
    BY <1>3 DEF Server!PopupMoves
  <2>3. popup' \in Popups /\ popup'.index < popup'.items /\ popup'.source \in {Server!NoDoc, client.asked}
    BY <2>1, <2>2, PopupMoved
  <2> QED
    BY <1>1, <2>2, <2>3, PopupChanges
<1>4. CASE Server!PopupHides
  <2>1. popup' = Server!Hidden /\ UNCHANGED <<file, client, toServer, toClient, server, replies, notes>>
    BY <1>4 DEF Server!PopupHides
  <2> QED
    BY <1>1, <2>1, HiddenIsPopup, PopupChanges
<1>5. CASE Server!FileChanges
  <2>1. file' = file + 1 /\ UNCHANGED <<popup, client, toServer, toClient, server, replies, notes>>
    BY <1>5 DEF Server!FileChanges
  <2> QED
    BY <1>1, <2>1, PopupChanges
<1> QED
  BY <1>2, <1>3, <1>4, <1>5

(* What was read is off the pipe; the rest is as it was.                   *)
Consumed == toClient' = toClient \/ (toClient # <<>> /\ toClient' = Tail(toClient))

LEMMA ConsumedRest ==
    ASSUME ServerInv, Consumed
    PROVE  /\ toClient' \in Seq(Answers) /\ Len(toClient') \in Nat
           /\ \A i \in 1..Len(toClient') : \E j \in 1..Len(toClient) : toClient'[i] = toClient[j]
<1>1. toClient \in Seq(Answers) /\ Len(toClient) \in Nat
  BY LenProperties DEF ServerInv, ServerTypes
<1>2. CASE toClient' = toClient
  BY <1>1, <1>2
<1>3. CASE toClient # <<>> /\ toClient' = Tail(toClient)
  <2>1. /\ Tail(toClient) \in Seq(Answers) /\ Len(toClient) >= 1 /\ Len(Tail(toClient)) = Len(toClient) - 1
        /\ \A i \in 1..(Len(toClient) - 1) : Tail(toClient)[i] = toClient[i + 1]
    BY <1>1, <1>3, TakenOff
  <2>2. toClient' \in Seq(Answers) /\ Len(toClient') = Len(toClient) - 1
    BY <1>3, <2>1, Zenon
  <2>3. \A i \in 1..(Len(toClient) - 1) : toClient'[i] = toClient[i + 1]
    BY <1>3, <2>1, Zenon
  <2> QED
    BY <1>1, <2>1, <2>2, <2>3
<1> QED
  BY <1>2, <1>3 DEF Consumed

(* The client is done with a request.  Whatever it sends, the last of it   *)
(* is a text without the line.                                             *)
LEMMA ClientReturns ==
    ASSUME ServerInv, Consumed, client' = [client EXCEPT !.phase = "idle", !.skipped = 0],
           NEW d \in Docs, d.line = NoLine, NEW ms \in Seq(Messages), Len(ms) \in 1..2,
           \A i \in 1..Len(ms) : ~Asks(ms[i]), ms[Len(ms)] = Server!Text(d), Server!Sent(ms),
           popup' \in Popups,
           popup'.visible => popup'.index < popup'.items /\ popup'.source \in {Server!NoDoc, client.asked},
           client.limit > MaxNotes + 4 /\ server.up =>
             Len(toServer) = 0 /\ Len(replies) = 0 /\ Unasked(toClient') /\ Len(toClient') + Len(notes) < MaxNotes,
           UNCHANGED <<file, server, replies, notes>>
    PROVE  ServerInv'
<1>1. ServerTypes
  BY DEF ServerInv
<1>0. /\ Len(toServer) \in Nat /\ Len(toClient) \in Nat /\ Len(replies) \in Nat /\ Len(notes) \in Nat
      /\ client.id \in Nat /\ client.limit \in Nat
  BY <1>1, ServerFields
<1>2. /\ toClient' \in Seq(Answers) /\ Len(toClient') \in Nat
      /\ \A i \in 1..Len(toClient') : \E j \in 1..Len(toClient) : toClient'[i] = toClient[j]
  BY ConsumedRest
<1>3. client' = [phase |-> "idle", id |-> client.id, skipped |-> 0, asked |-> client.asked,
                 limit |-> client.limit]
  BY <1>1 DEF ServerTypes, Clients
<1>4. /\ client' \in Clients /\ client'.phase = "idle" /\ client'.id = client.id /\ client'.skipped = 0
      /\ client'.asked = client.asked /\ client'.limit = client.limit
  <2>1. client.id \in Nat \ {0} /\ client.asked \in Docs
    BY <1>1, ServerFields
  <2> QED
    BY <1>0, <1>3, <2>1 DEF Clients
<1>5. /\ toServer \o ms \in Seq(Messages) /\ Len(toServer \o ms) = Len(toServer) + Len(ms)
      /\ \A i \in 1..Len(toServer) : (toServer \o ms)[i] = toServer[i]
      /\ \A i \in 1..Len(ms) : (toServer \o ms)[Len(toServer) + i] = ms[i]
  <2>1. toServer \in Seq(Messages)
    BY <1>1 DEF ServerTypes
  <2> QED
    BY <2>1, <1>0, ConcatProperties, SMTT(60)
<1>6. CASE server.up
  <2>1. toServer' = toServer \o ms
    BY <1>6 DEF Server!Sent
  <2>2. /\ toServer' \in Seq(Messages) /\ Len(toServer') = Len(toServer) + Len(ms)
        /\ \A i \in 1..Len(toServer) : toServer'[i] = toServer[i]
        /\ \A i \in 1..Len(ms) : toServer'[Len(toServer) + i] = ms[i]
    BY <1>5, <2>1, Zenon
  <2>3. ServerTypes'
    BY <1>1, <1>2, <1>4, <2>2 DEF ServerTypes
  <2>4. PopupInv'
    BY <1>4 DEF PopupInv
  <2>5. AnswerInv'
    <3>1. \A i \in 1..Len(toClient') : toClient'[i].id <= client.id
      BY <1>2 DEF ServerInv, AnswerInv
    <3>2. ASSUME NEW i \in 1..Len(toServer'), Asks(toServer'[i]) PROVE toServer'[i].id <= client.id
      <4>1. CASE i \in 1..Len(toServer)
        BY <2>2, <3>2, <4>1 DEF ServerInv, AnswerInv
      <4>2. CASE i \notin 1..Len(toServer)
        <5>1. i - Len(toServer) \in 1..Len(ms) /\ i = Len(toServer) + (i - Len(toServer))
          BY <1>0, <2>2, <4>2
        <5> QED
          BY <2>2, <3>2, <5>1
      <4> QED
        BY <4>1, <4>2
    <3> QED
      BY <1>4, <3>1, <3>2 DEF ServerInv, AnswerInv
  <2>6. LineInv'
    <3>1. toServer'[Len(toServer')] = Server!Text(d)
      <4>1. Len(ms) \in 1..Len(ms)
        BY SMTT(60)
      <4>2. toServer'[Len(toServer) + Len(ms)] = ms[Len(ms)]
        BY <2>2, <4>1
      <4> QED
        BY <2>2, <4>2, Zenon
    <3>2. Len(toServer') # 0
      <4>1. \A a \in Nat, b \in 1..2 : a + b # 0
        OBVIOUS
      <4> QED
        BY <1>0, <2>2, <4>1, Zenon
    <3>3. toServer' # <<>>
      BY <2>2, <3>2, NothingLeft, Zenon
    <3> QED
      BY <3>1, <3>3, MessageOfText DEF LineInv
  <2>7. PileInv'
    <3>1. ASSUME client.limit > MaxNotes + 4 PROVE NoneOpen'
      <4>1. \A i \in 1..Len(toServer') : ~Asks(toServer'[i])
        BY <1>0, <2>2, <3>1, <1>6
      <4>2. UnderWay' <= MaxNotes + 1
        BY <1>0, <1>2, <2>2, <3>1, <1>6, ServerAssumption, SMTT(60) DEF UnderWay
      <4> QED
        BY <3>1, <4>1, <4>2, <1>6 DEF NoneOpen
    <3> QED
      BY <1>0, <1>4, <3>1, ServerAssumption DEF PileInv, Server!Waiting
  <2> QED
    BY <2>3, <2>4, <2>5, <2>6, <2>7 DEF ServerInv
<1>7. CASE ~server.up
  <2>1. toServer' = toServer /\ ~server'.up
    BY <1>7 DEF Server!Sent
  <2>2. ServerTypes'
    BY <1>1, <1>2, <1>4, <2>1 DEF ServerTypes
  <2>3. PopupInv'
    BY <1>4 DEF PopupInv
  <2>4. AnswerInv'
    <3>1. \A i \in 1..Len(toClient') : toClient'[i].id <= client.id
      BY <1>2 DEF ServerInv, AnswerInv
    <3> QED
      BY <1>4, <2>1, <3>1 DEF ServerInv, AnswerInv
  <2>5. LineInv' /\ PileInv'
    BY <1>0, <1>4, <2>1, ServerAssumption DEF LineInv, PileInv, Server!Waiting
  <2> QED
    BY <2>2, <2>3, <2>4, <2>5 DEF ServerInv
<1> QED
  BY <1>1, <1>6, <1>7, ServerFields

(* The client is dropped: there is nothing left to ask about.              *)
LEMMA ClientGone ==
    ASSUME ServerInv, Consumed, client' = [client EXCEPT !.phase = "gone"],
           server' \in {server, [server EXCEPT !.up = FALSE]},
           UNCHANGED <<file, popup, toServer, replies, notes>>
    PROVE  ServerInv'
<1>1. ServerTypes
  BY DEF ServerInv
<1>2. client' = [phase |-> "gone", id |-> client.id, skipped |-> client.skipped, asked |-> client.asked,
                 limit |-> client.limit]
  BY <1>1 DEF ServerTypes, Clients
<1>3. /\ client' \in Clients /\ client'.phase = "gone" /\ client'.id = client.id
      /\ client'.skipped = client.skipped /\ client'.asked = client.asked /\ client'.limit = client.limit
  <2>1. /\ client.id \in Nat \ {0} /\ client.asked \in Docs /\ client.skipped \in Nat
        /\ client.limit \in Nat
    BY <1>1, ServerFields
  <2> QED
    BY <1>2, <2>1 DEF Clients
<1>4. /\ toClient' \in Seq(Answers)
      /\ \A i \in 1..Len(toClient') : \E j \in 1..Len(toClient) : toClient'[i] = toClient[j]
  BY ConsumedRest
<1>5. server' \in [up : BOOLEAN, doc : Docs]
  BY <1>1 DEF ServerTypes
<1>6. ServerTypes'
  BY <1>1, <1>3, <1>4, <1>5 DEF ServerTypes
<1>7. PopupInv'
  BY <1>3 DEF ServerInv, PopupInv
<1>8. AnswerInv'
  <2>1. \A i \in 1..Len(toClient') : toClient'[i].id <= client.id
    BY <1>4 DEF ServerInv, AnswerInv
  <2> QED
    BY <1>3, <2>1 DEF ServerInv, AnswerInv
<1>9. LineInv' /\ PileInv'
  BY <1>3 DEF ServerInv, LineInv, PileInv, Server!Waiting
<1> QED
  BY <1>6, <1>7, <1>8, <1>9 DEF ServerInv

(* A message that is not the answer is counted and passed over.            *)
LEMMA MessageSkipped ==
    ASSUME ServerInv, Server!Waiting, toClient # <<>>, toClient' = Tail(toClient),
           client' = [client EXCEPT !.skipped = @ + 1],
           UNCHANGED <<file, popup, toServer, server, replies, notes>>
    PROVE  ServerInv'
<1>1. ServerTypes
  BY DEF ServerInv
<1>0. /\ Len(toServer) \in Nat /\ Len(toClient) \in Nat /\ Len(replies) \in Nat /\ Len(notes) \in Nat
      /\ client.id \in Nat \ {0} /\ client.asked \in Docs /\ client.skipped \in Nat /\ client.limit \in Nat
      /\ client.phase \in {"initialize", "idle", "wait", "shutdown", "gone"}
  BY <1>1, ServerFields
<1>3. /\ client' \in Clients /\ client'.phase = client.phase /\ client'.id = client.id
      /\ client'.skipped = client.skipped + 1 /\ client'.asked = client.asked
      /\ client'.limit = client.limit
  BY <1>1, OneMore DEF ServerTypes
<1>4. /\ toClient' \in Seq(Answers) /\ Len(toClient) >= 1 /\ Len(toClient') = Len(toClient) - 1
      /\ \A i \in 1..(Len(toClient) - 1) : toClient'[i] = toClient[i + 1]
  <2>1. toClient \in Seq(Answers)
    BY <1>1 DEF ServerTypes
  <2>2. /\ Tail(toClient) \in Seq(Answers) /\ Len(toClient) >= 1 /\ Len(Tail(toClient)) = Len(toClient) - 1
        /\ \A i \in 1..(Len(toClient) - 1) : Tail(toClient)[i] = toClient[i + 1]
    BY <2>1, TakenOff
  <2> QED
    BY <2>2, Zenon
<1>5. ServerTypes'
  BY <1>1, <1>3, <1>4 DEF ServerTypes
<1>6. PopupInv' /\ LineInv'
  BY <1>3 DEF ServerInv, PopupInv, LineInv
<1>7. AnswerInv'
  <2>1. /\ \A i \in 1..Len(toClient') : toClient'[i].id <= client.id
        /\ client.phase = "wait" =>
             \A i \in 1..Len(toClient') : toClient'[i].id = client.id => toClient'[i].doc = client.asked
    BY <1>0, <1>4, SMTT(60) DEF ServerInv, AnswerInv
  <2> QED
    BY <1>3, <2>1 DEF ServerInv, AnswerInv
<1>8. PileInv'
  <2>1. UnderWay' = UnderWay - 1 /\ UnderWay \in Nat /\ UnderWay >= 1
    BY <1>0, <1>4 DEF UnderWay
  <2>2. ASSUME OneOpen PROVE OneOpen'
    <3>1. ASSUME Unasked(toClient) PROVE Unasked(toClient')
      BY <1>0, <1>4, <3>1 DEF Unasked
    <3>2. ASSUME NEW j \in 1..Len(toClient'), toClient'[j].id # 0
          PROVE  /\ Len(toServer') = 0 /\ Len(replies') = 0 /\ Len(toClient') - j + Len(notes') < MaxNotes
                 /\ \A i \in 1..Len(toClient') : i # j => toClient'[i].id = 0
      <4>1. j + 1 \in 1..Len(toClient) /\ toClient[j + 1].id # 0
        BY <1>0, <1>4, <3>2
      <4>2. /\ Len(toServer) = 0 /\ Len(replies) = 0 /\ Len(toClient) - (j + 1) + Len(notes) < MaxNotes
            /\ \A i \in 1..Len(toClient) : i # j + 1 => toClient[i].id = 0
        BY <2>2, <4>1 DEF OneOpen
      <4>3. \A i \in 1..Len(toClient') : i # j => toClient'[i].id = 0
        BY <1>0, <1>4, <4>2
      <4>4. Len(toClient') - j + Len(notes') = Len(toClient) - (j + 1) + Len(notes)
        BY <1>0, <1>4
      <4> QED
        BY <4>2, <4>3, <4>4
    <3> QED
      BY <2>2, <3>1, <3>2 DEF OneOpen
  <2>3. ASSUME client.limit > MaxNotes + 4
        PROVE  /\ client'.skipped <= MaxNotes + 3 /\ client'.skipped + UnderWay' <= MaxNotes + 3
               /\ (server'.up => OneOpen')
    BY <1>0, <1>3, <2>1, <2>2, <2>3, ServerAssumption, SMTT(60) DEF ServerInv, PileInv
  <2>4. client'.phase # "idle"
    BY <1>3 DEF Server!Waiting
  <2> QED
    BY <1>3, <2>3, <2>4 DEF PileInv
<1> QED
  BY <1>5, <1>6, <1>7, <1>8 DEF ServerInv

(* The document goes back to the one without the line, with the builtins   *)
(* or with what the server found.                                          *)
LEMMA ClientRestores ==
    ASSUME ServerInv, Consumed, client.phase = "wait",
           client' = [client EXCEPT !.phase = "idle", !.skipped = 0],
           Server!Sent(<<Server!Text([client.asked EXCEPT !.line = NoLine])>>),
           NEW n \in 0..MaxItems, NEW d \in {Server!NoDoc, client.asked}, popup' = Server!Shown(n, d),
           client.limit > MaxNotes + 4 /\ server.up =>
             Len(toServer) = 0 /\ Len(replies) = 0 /\ Unasked(toClient') /\ Len(toClient') + Len(notes) < MaxNotes,
           UNCHANGED <<file, server, replies, notes>>
    PROVE  ServerInv'
<1> DEFINE e == [client.asked EXCEPT !.line = NoLine]
           ms == <<Server!Text(e)>>
<1>1. ServerTypes
  BY DEF ServerInv
<1>2. client.asked \in Docs
  BY <1>1, ServerFields
<1>3. e \in Docs /\ e.line = NoLine
  BY <1>2 DEF Docs
<1> HIDE DEF e
<1>4. Server!Text(e) \in Messages /\ ~Asks(Server!Text(e))
  BY <1>3, MessageOfText
<1>5. /\ ms \in Seq(Messages) /\ Len(ms) = 1 /\ ms[1] = Server!Text(e)
  BY <1>4
<1>6. Server!Sent(ms)
  BY DEF e
<1>7. popup' \in Popups
      /\ (popup'.visible => popup'.index < popup'.items /\ popup'.source \in {Server!NoDoc, client.asked})
  BY <1>2, NoDocIsDoc, ShownIsHonest
<1> HIDE DEF ms
<1>8. Len(ms) \in 1..2 /\ (\A i \in 1..Len(ms) : ~Asks(ms[i])) /\ ms[Len(ms)] = Server!Text(e)
  BY <1>4, <1>5
<1> QED
  BY <1>3, <1>5, <1>6, <1>7, <1>8, ClientReturns

LEMMA ClientOpens ==
    ASSUME ServerInv, Consumed, Server!Opened,
           client.limit > MaxNotes + 4 /\ server.up =>
             Len(toServer) = 0 /\ Len(replies) = 0 /\ Unasked(toClient') /\ Len(toClient') + Len(notes) < MaxNotes,
           UNCHANGED <<file, server, replies, notes>>
    PROVE  ServerInv'
<1> DEFINE e == [file |-> file, line |-> NoLine]
           ms == <<Server!Request("initialized", 0), Server!Text(e)>>
<1>1. e \in Docs /\ e.line = NoLine
  BY DocOf DEF ServerInv, ServerTypes
<1>2. Server!Sent(ms) /\ UNCHANGED popup
  BY DEF Server!Opened
<1> HIDE DEF e
<1>3. /\ Server!Text(e) \in Messages /\ ~Asks(Server!Text(e))
      /\ Server!Request("initialized", 0) \in Messages /\ ~Asks(Server!Request("initialized", 0))
  BY <1>1, MessageOfText, MessageOfRequest DEF Questions
<1>4. /\ ms \in Seq(Messages) /\ Len(ms) = 2 /\ ms[2] = Server!Text(e)
      /\ ms[1] = Server!Request("initialized", 0)
  BY <1>3
<1> HIDE DEF ms
<1>5. Len(ms) \in 1..2 /\ (\A i \in 1..Len(ms) : ~Asks(ms[i])) /\ ms[Len(ms)] = Server!Text(e)
  BY <1>3, <1>4
<1>6. popup' \in Popups
      /\ (popup'.visible => popup'.index < popup'.items /\ popup'.source \in {Server!NoDoc, client.asked})
  BY <1>2 DEF ServerInv, ServerTypes, PopupInv
<1>7. CASE server.up
  <2>1. client' = [client EXCEPT !.phase = "idle", !.skipped = 0]
    BY <1>7 DEF Server!Opened
  <2> QED
    BY <1>1, <1>2, <1>4, <1>5, <1>6, <2>1, ClientReturns
<1>8. CASE ~server.up
  <2>1. client' = [client EXCEPT !.phase = "gone"] /\ UNCHANGED toServer
    BY <1>2, <1>8 DEF Server!Opened, Server!Sent
  <2> QED
    BY <1>2, <2>1, ClientGone
<1> QED
  BY <1>7, <1>8

LEMMA FailedHolds ==
    ASSUME ServerInv, Consumed, Server!Waiting, Server!Failed,
           client.phase = "wait" => ~(client.limit > MaxNotes + 4 /\ server.up),
           UNCHANGED <<file, replies, notes>>
    PROVE  ServerInv'
<1>1. CASE client.phase = "wait"
  <2>1. /\ client' = [client EXCEPT !.phase = "idle", !.skipped = 0]
        /\ Server!Sent(<<Server!Text([client.asked EXCEPT !.line = NoLine])>>)
        /\ Server!Builtins /\ UNCHANGED server
    BY <1>1 DEF Server!Failed
  <2>2. PICK n \in 0..MaxItems : popup' = Server!Shown(n, Server!NoDoc)
    BY <2>1 DEF Server!Builtins
  <2> QED
    BY <1>1, <2>1, <2>2, ClientRestores
<1>2. CASE client.phase \in {"initialize", "shutdown"}
  <2>1. Server!Dropped
    BY <1>2 DEF Server!Failed
  <2>2. /\ client' = [client EXCEPT !.phase = "gone"] /\ server' = [server EXCEPT !.up = FALSE]
        /\ UNCHANGED <<popup, toServer>>
    BY <2>1 DEF Server!Dropped
  <2> QED
    BY <2>2, ClientGone
<1> QED
  BY <1>1, <1>2 DEF Server!Waiting

(* The answer itself was the only one under way: what is still between the *)
(* two processes are the notifications behind it.                          *)
LEMMA AnswerWasLast ==
    ASSUME ServerInv, Server!Waiting, toClient # <<>>, toClient' = Tail(toClient),
           Server!Mine(Head(toClient)), client.limit > MaxNotes + 4, server.up
    PROVE  Len(toServer) = 0 /\ Len(replies) = 0 /\ Unasked(toClient') /\ Len(toClient') + Len(notes) < MaxNotes
<1>1. ServerTypes /\ OneOpen
  BY DEF ServerInv, PileInv
<1>2. /\ Len(toClient) \in Nat /\ Len(notes) \in Nat /\ client.id \in Nat \ {0}
  BY <1>1, ServerFields
<1>3. /\ Len(toClient) >= 1 /\ Len(toClient') = Len(toClient) - 1 /\ Head(toClient) = toClient[1]
      /\ \A i \in 1..(Len(toClient) - 1) : toClient'[i] = toClient[i + 1]
  <2>1. toClient \in Seq(Answers)
    BY <1>1 DEF ServerTypes
  <2>2. /\ Len(toClient) >= 1 /\ Len(Tail(toClient)) = Len(toClient) - 1 /\ Head(toClient) = toClient[1]
        /\ \A i \in 1..(Len(toClient) - 1) : Tail(toClient)[i] = toClient[i + 1]
    BY <2>1, TakenOff
  <2> QED
    BY <2>2, Zenon
<1>4. 1 \in 1..Len(toClient) /\ toClient[1].id # 0
  BY <1>2, <1>3 DEF Server!Mine
<1>5. /\ Len(toServer) = 0 /\ Len(replies) = 0 /\ Len(toClient) - 1 + Len(notes) < MaxNotes
      /\ \A i \in 1..Len(toClient) : i # 1 => toClient[i].id = 0
  BY <1>1, <1>4 DEF OneOpen
<1>6. Unasked(toClient')
  BY <1>2, <1>3, <1>5 DEF Unasked
<1>7. Len(toClient') + Len(notes) < MaxNotes
  BY <1>2, <1>3, <1>5
<1> QED
  BY <1>5, <1>6, <1>7

LEMMA ReadHolds == ASSUME ServerInv, Server!Read PROVE ServerInv'
<1> DEFINE r == Head(toClient)
<1>1. /\ Server!Waiting /\ toClient # <<>> /\ toClient' = Tail(toClient) /\ Consumed
      /\ UNCHANGED <<file, replies, notes>>
  BY DEF Server!Read, Consumed
<1>2. CASE Server!Mine(r)
  <2>1. client.limit > MaxNotes + 4 /\ server.up =>
          Len(toServer) = 0 /\ Len(replies) = 0 /\ Unasked(toClient') /\ Len(toClient') + Len(notes) < MaxNotes
    BY <1>1, <1>2, AnswerWasLast
  <2>2. CASE client.phase = "initialize"
    <3>1. Server!Opened /\ UNCHANGED server
      BY <1>2, <2>2 DEF Server!Read
    <3> QED
      BY <1>1, <2>1, <3>1, ClientOpens
  <2>3. CASE client.phase = "wait"
    <3>1. Server!Completed(r) /\ UNCHANGED server
      BY <1>2, <2>3 DEF Server!Read
    <3>2. PICK n \in 0..MaxItems : /\ client' = [client EXCEPT !.phase = "idle", !.skipped = 0]
                                   /\ popup' = Server!Shown(n, r.doc)
                                   /\ Server!Sent(<<Server!Text([client.asked EXCEPT !.line = NoLine])>>)
      BY <3>1 DEF Server!Completed
    <3>3. r = toClient[1] /\ 1 \in 1..Len(toClient)
      BY <1>1, TakenOff DEF ServerInv, ServerTypes
    <3>4. r.doc = client.asked
      BY <1>2, <2>3, <3>3 DEF ServerInv, AnswerInv, Server!Mine
    <3> QED
      BY <1>1, <2>1, <2>3, <3>1, <3>2, <3>4, ClientRestores
  <2>4. CASE client.phase = "shutdown"
    <3>1. Server!Failed
      BY <1>2, <2>4 DEF Server!Read
    <3> QED
      BY <1>1, <2>4, <3>1, FailedHolds
  <2> QED
    BY <1>1, <2>2, <2>3, <2>4 DEF Server!Waiting
<1>3. CASE ~Server!Mine(r)
  <2>1. CASE client.skipped + 1 < client.limit
    <3>1. client' = [client EXCEPT !.skipped = @ + 1] /\ UNCHANGED <<popup, toServer, server>>
      BY <1>3, <2>1, ServerFields DEF Server!Read, ServerInv
    <3> QED
      BY <1>1, <3>1, MessageSkipped
  <2>2. CASE ~(client.skipped + 1 < client.limit)
    <3>1. Server!Failed
      BY <1>3, <2>2 DEF Server!Read
    <3>2. client.skipped \in Nat /\ client.limit \in Nat
      BY ServerFields DEF ServerInv
    <3>3. ~(client.limit > MaxNotes + 4)
      BY <2>2, <3>2, ServerAssumption DEF ServerInv, PileInv
    <3> QED
      BY <1>1, <3>1, <3>3, FailedHolds
  <2> QED
    BY <2>1, <2>2
<1> QED
  BY <1>2, <1>3

LEMMA ReadEndHolds == ASSUME ServerInv, Server!ReadEnd PROVE ServerInv'
<1>1. /\ Server!Waiting /\ ~server.up /\ Server!Failed /\ UNCHANGED <<file, toClient, replies, notes>>
  BY DEF Server!ReadEnd
<1> QED
  BY <1>1, FailedHolds DEF Consumed

(* A question is put after everything the client sent before, with an id   *)
(* that nothing under way has.                                             *)
LEMMA ClientAsks ==
    ASSUME ServerInv, client.phase = "idle", server.up, NEW p \in {"wait", "shutdown"}, NEW a \in Docs,
           client' = [phase |-> p, id |-> client.id + 1, skipped |-> 0, asked |-> a, limit |-> client.limit],
           popup.visible => a = client.asked,
           NEW ms \in Seq(Messages), Len(ms) \in 1..2, ms[Len(ms)].id = client.id + 1,
           \A i \in 1..(Len(ms) - 1) : ~Asks(ms[i]),
           p = "wait" => Len(ms) = 2 /\ ms[1] = Server!Text(a),
           toServer' = toServer \o ms, UNCHANGED <<file, popup, toClient, server, replies, notes>>
    PROVE  ServerInv'
<1>1. ServerTypes
  BY DEF ServerInv
<1>0. /\ Len(toServer) \in Nat /\ Len(toClient) \in Nat /\ Len(replies) \in Nat /\ Len(notes) \in Nat
      /\ client.id \in Nat \ {0} /\ client.limit \in Nat
      /\ \A i \in 1..Len(toClient) : toClient[i].id \in Nat
      /\ \A i \in 1..Len(replies) : replies[i].id \in Nat
  BY <1>1, ServerFields
<1>2. /\ client' \in Clients /\ client'.phase = p /\ client'.id = client.id + 1 /\ client'.skipped = 0
      /\ client'.asked = a /\ client'.limit = client.limit
  <2>1. client \in Clients
    BY <1>1 DEF ServerTypes
  <2>2. \A d : d = [phase |-> p, id |-> client.id + 1, skipped |-> 0, asked |-> a, limit |-> client.limit] =>
             /\ d \in Clients /\ d.phase = p /\ d.id = client.id + 1 /\ d.skipped = 0
             /\ d.asked = a /\ d.limit = client.limit
    BY <2>1, NextId
  <2> QED
    BY <2>2, Zenon
<1>3. /\ toServer \o ms \in Seq(Messages) /\ Len(toServer \o ms) = Len(toServer) + Len(ms)
      /\ \A i \in 1..Len(toServer) : (toServer \o ms)[i] = toServer[i]
      /\ \A i \in 1..Len(ms) : (toServer \o ms)[Len(toServer) + i] = ms[i]
  <2>1. toServer \in Seq(Messages)
    BY <1>1 DEF ServerTypes
  <2> QED
    BY <2>1, <1>0, ConcatProperties
<1>4. /\ toServer' \in Seq(Messages) /\ Len(toServer') = Len(toServer) + Len(ms)
      /\ \A i \in 1..Len(toServer) : toServer'[i] = toServer[i]
      /\ \A i \in 1..Len(ms) : toServer'[Len(toServer) + i] = ms[i]
  BY <1>3, Zenon
<1>5. ServerTypes'
  BY <1>1, <1>2, <1>4 DEF ServerTypes
<1>6. PopupInv' /\ LineInv'
  BY <1>2 DEF ServerInv, PopupInv, LineInv
<1>7. ASSUME NEW i \in 1..Len(toServer'), Asks(toServer'[i])
      PROVE  toServer'[i].id <= client.id + 1 /\ (i # Len(toServer') => toServer'[i].id < client.id + 1)
  <2>1. CASE i \in 1..Len(toServer)
    <3>1. Asks(toServer[i]) /\ toServer[i] \in Messages
      BY <1>1, <1>4, <1>7, <2>1, ElementOfSeq DEF ServerTypes
    <3>2. toServer[i].id \in Nat
      BY <3>1 DEF Asks, Messages, Questions
    <3>3. toServer[i].id <= client.id
      BY <2>1, <3>1 DEF ServerInv, AnswerInv
    <3> QED
      BY <1>0, <1>4, <2>1, <3>2, <3>3, SMTT(60)
  <2>2. CASE i \notin 1..Len(toServer)
    <3>1. i - Len(toServer) \in 1..Len(ms) /\ i = Len(toServer) + (i - Len(toServer))
      BY <1>0, <1>4, <2>2
    <3>2. toServer'[i] = ms[i - Len(toServer)]
      BY <1>4, <3>1
    <3>3. i - Len(toServer) = Len(ms)
      BY <1>0, <1>7, <3>1, <3>2, SMTT(60)
    <3> QED
      BY <1>0, <1>4, <3>2, <3>3
  <2> QED
    BY <2>1, <2>2
<1>8. AnswerInv'
  <2>1. /\ \A i \in 1..Len(toClient) : toClient[i].id < client.id + 1
        /\ \A i \in 1..Len(replies) : replies[i].id < client.id + 1
    BY <1>0, SMTT(60) DEF ServerInv, AnswerInv
  <2>2. p = "wait" => Len(toServer') > 1 /\ toServer'[Len(toServer') - 1] = Server!Text(a)
    <3>0. (\A x \in Nat : \A y : y = x + 2 => y - 1 = x + 1 /\ y > 1) /\ 1 \in 1..2
      OBVIOUS
    <3>a. p = "wait" => Len(ms) = 2
      OBVIOUS
    <3>b. Len(toServer') = Len(toServer) + Len(ms) /\ Len(toServer) \in Nat
      BY <1>0, <1>4, Zenon
    <3>1. p = "wait" => Len(toServer') - 1 = Len(toServer) + 1 /\ 1 \in 1..Len(ms)
      <4>1. p = "wait" => Len(toServer') = Len(toServer) + 2
        BY <3>a, <3>b, Zenon
      <4>2. p = "wait" => 1 \in 1..Len(ms)
        BY <3>0, <3>a, <3>b, Zenon
      <4> QED
        BY <3>0, <3>b, <4>1, <4>2, Zenon
    <3>2. p = "wait" => Len(toServer') > 1
      BY <3>0, <3>a, <3>b
    <3>3. p = "wait" => toServer'[Len(toServer') - 1] = ms[1]
      BY <1>4, <3>1, Zenon
    <3> QED
      BY <3>2, <3>3, Zenon
  <2>3. p = "wait" => \A i \in 1..(Len(toServer') - 1) : Asks(toServer'[i]) => toServer'[i].id < client.id + 1
    <3>1. Len(toServer') \in Nat
      BY <1>0, <1>4
    <3>2. \A n \in Nat : \A i \in 1..(n - 1) : i \in 1..n /\ i # n
      OBVIOUS
    <3>3. \A i \in 1..(Len(toServer') - 1) : i \in 1..Len(toServer') /\ i # Len(toServer')
      BY <3>1, <3>2, Zenon
    <3> QED
      BY <1>7, <3>3, Zenon
  <2>4. \A i \in 1..Len(toServer') : Asks(toServer'[i]) => toServer'[i].id <= client.id + 1
    BY <1>7
  <2>5. /\ \A i \in 1..Len(toClient) : toClient[i].id <= client.id + 1 /\ toClient[i].id # client.id + 1
        /\ \A i \in 1..Len(replies) : replies[i].id <= client.id + 1 /\ replies[i].id # client.id + 1
    <3>1. \A m \in Nat, n \in Nat : m < n + 1 => m <= n + 1 /\ m # n + 1
      OBVIOUS
    <3> QED
      BY <1>0, <2>1, <3>1, Zenon
  <2>6. p = "wait" => Len(toServer') # 1
    <3>1. \A n : n > 1 => n # 1
      OBVIOUS
    <3> QED
      BY <2>2, <3>1, Zenon
  <2> QED
    BY <1>2, <2>2, <2>3, <2>4, <2>5, <2>6 DEF AnswerInv
<1>9. PileInv'
  <2>1. ASSUME client.limit > MaxNotes + 4
        PROVE  UnderWay' <= MaxNotes + 3 /\ OneOpen'
    <3>1. NoneOpen
      BY <2>1 DEF ServerInv, PileInv
    <3>2. UnderWay' = UnderWay + Len(ms)
      BY <1>0, <1>4 DEF UnderWay
    <3>3. UnderWay' <= MaxNotes + 3
      <4>1. UnderWay \in Nat /\ UnderWay <= MaxNotes + 1
        BY <1>0, <3>1 DEF UnderWay, NoneOpen
      <4> QED
        BY <3>2, <4>1, ServerAssumption
    <3>4. ASSUME NEW i \in 1..(Len(toServer') - 1) PROVE ~Asks(toServer'[i])
      <4>1. CASE i \in 1..Len(toServer)
        BY <1>4, <3>1, <4>1 DEF NoneOpen
      <4>2. CASE i \notin 1..Len(toServer)
        <5>1. i - Len(toServer) \in 1..(Len(ms) - 1) /\ i = Len(toServer) + (i - Len(toServer))
          BY <1>0, <1>4, <4>2
        <5>2. i - Len(toServer) \in 1..Len(ms)
          BY <5>1
        <5> QED
          BY <1>4, <5>1, <5>2
      <4> QED
        BY <4>1, <4>2
    <3> QED
      BY <1>0, <3>1, <3>3, <3>4 DEF NoneOpen, OneOpen, Unasked
  <2>2. UnderWay' \in Nat
    BY <1>0, <1>4 DEF UnderWay
  <2>3. client'.phase # "idle"
    BY <1>2
  <2>4. 0 <= MaxNotes + 3 /\ \A n \in Nat : 0 + n = n
    BY ServerAssumption
  <2> QED
    BY <1>2, <2>1, <2>2, <2>3, <2>4, Zenon DEF PileInv
<1> QED
  BY <1>5, <1>6, <1>8, <1>9 DEF ServerInv

LEMMA RequestHolds == ASSUME ServerInv, Server!RequestCompletions PROVE ServerInv'
<1>1. PICK l \in Typed, dump \in BOOLEAN :
        /\ client.phase = "idle" /\ ~popup.visible
        /\ IF dump /\ server.up
           THEN /\ client' = [phase |-> "wait", id |-> client.id + 1, asked |-> [file |-> file, line |-> l],
                              skipped |-> client.skipped, limit |-> client.limit]
                /\ Server!Sent(<<Server!Text([file |-> file, line |-> l]),
                                 Server!Request("completion", client.id + 1)>>)
                /\ UNCHANGED popup
           ELSE Server!Builtins /\ UNCHANGED <<client, toServer>>
        /\ UNCHANGED <<file, toClient, server, replies, notes>>
  BY DEF Server!RequestCompletions, Server!Ready
<1>2. CASE dump /\ server.up
  <2> DEFINE d == [file |-> file, line |-> l]
             ms == <<Server!Text(d), Server!Request("completion", client.id + 1)>>
  <2>1. d \in Docs
    BY DocOf DEF ServerInv, ServerTypes
  <2>2. client.skipped = 0
    BY <1>1 DEF ServerInv, PileInv
  <2>3. /\ client' = [phase |-> "wait", id |-> client.id + 1, skipped |-> 0, asked |-> d,
                      limit |-> client.limit]
        /\ Server!Sent(ms) /\ UNCHANGED popup
    BY <1>1, <1>2, <2>2
  <2> HIDE DEF d
  <2>4. client.id + 1 \in Nat
    BY ServerFields DEF ServerInv
  <2>5. /\ Server!Text(d) \in Messages /\ ~Asks(Server!Text(d))
        /\ Server!Request("completion", client.id + 1) \in Messages
        /\ Server!Request("completion", client.id + 1).id = client.id + 1
    BY <2>1, <2>4, MessageOfText, MessageOfRequest DEF Questions
  <2>6. /\ ms \in Seq(Messages) /\ Len(ms) = 2 /\ ms[1] = Server!Text(d)
        /\ ms[2] = Server!Request("completion", client.id + 1)
    BY <2>5
  <2> HIDE DEF ms
  <2>7. /\ Len(ms) \in 1..2 /\ ms[Len(ms)].id = client.id + 1
        /\ \A i \in 1..(Len(ms) - 1) : ~Asks(ms[i])
    BY <2>5, <2>6
  <2>8. toServer' = toServer \o ms
    BY <1>2, <2>3 DEF Server!Sent
  <2> QED
    BY <1>1, <1>2, <2>1, <2>3, <2>6, <2>7, <2>8, ClientAsks
<1>3. CASE ~(dump /\ server.up)
  BY <1>1, <1>3, BuiltinsShown
<1> QED
  BY <1>2, <1>3

LEMMA QuitHolds == ASSUME ServerInv, Server!Quit PROVE ServerInv'
<1>1. ServerTypes
  BY DEF ServerInv
<1>2. CASE server.up
  <2> DEFINE ms == <<Server!Request("shutdown", client.id + 1)>>
  <2>1. /\ client' = [client EXCEPT !.phase = "shutdown", !.id = @ + 1, !.skipped = 0]
        /\ toServer' = toServer \o ms /\ client.phase = "idle"
        /\ UNCHANGED <<file, popup, toClient, server, replies, notes>>
    BY <1>2 DEF Server!Quit, Server!Ready, Server!Sent
  <2>2. client' = [phase |-> "shutdown", id |-> client.id + 1, skipped |-> 0, asked |-> client.asked,
                   limit |-> client.limit]
    BY <1>1, <2>1 DEF ServerTypes, Clients
  <2>3. client.id + 1 \in Nat /\ client.asked \in Docs
    BY <1>1, ServerFields
  <2>4. /\ Server!Request("shutdown", client.id + 1) \in Messages
        /\ Server!Request("shutdown", client.id + 1).id = client.id + 1
    BY <2>3, MessageOfRequest DEF Questions
  <2>5. ms \in Seq(Messages) /\ Len(ms) = 1 /\ ms[1] = Server!Request("shutdown", client.id + 1)
    BY <2>4
  <2> HIDE DEF ms
  <2>6. /\ Len(ms) \in 1..2 /\ ms[Len(ms)].id = client.id + 1
        /\ \A i \in 1..(Len(ms) - 1) : ~Asks(ms[i])
    BY <2>4, <2>5
  <2> QED
    BY <1>2, <2>1, <2>2, <2>3, <2>5, <2>6, ClientAsks
<1>3. CASE ~server.up
  <2>1. /\ client' = [client EXCEPT !.phase = "gone"]
        /\ UNCHANGED <<file, popup, toServer, toClient, server, replies, notes>>
    BY <1>3 DEF Server!Quit
  <2> QED
    BY <2>1, ClientGone DEF Consumed
<1> QED
  BY <1>1, <1>2, <1>3, ServerFields

LEMMA ServerStep == ServerInv /\ [Server!Next]_serverVars => ServerInv'
<1> SUFFICES ASSUME ServerInv, [Server!Next]_serverVars PROVE ServerInv'
  OBVIOUS
<1>1. CASE Server!Handle
  BY <1>1, HandleHolds
<1>2. CASE Server!WriteReply
  BY <1>2, ReplyWritten
<1>3. CASE Server!WriteNote
  BY <1>3, NoteWritten
<1>4. CASE Server!ServerDies
  BY <1>4, ServerGone DEF Server!ServerDies
<1>5. CASE Server!Read
  BY <1>5, ReadHolds
<1>6. CASE Server!ReadEnd
  BY <1>6, ReadEndHolds
<1>7. CASE Server!RequestCompletions
  BY <1>7, RequestHolds
<1>8. CASE Server!RequestWithout \/ Server!PopupMoves \/ Server!PopupHides \/ Server!FileChanges
  BY <1>8, KeysHold
<1>9. CASE Server!Quit
  BY <1>9, QuitHolds
<1>10. CASE UNCHANGED serverVars
  <2>1. /\ file' \in Nat /\ popup' \in Popups
        /\ popup'.visible => popup'.index < popup'.items /\ popup'.source \in {Server!NoDoc, client.asked}
        /\ UNCHANGED <<client, toServer, toClient, server, replies, notes>>
    BY <1>10 DEF serverVars, ServerInv, ServerTypes, PopupInv
  <2> QED
    BY <2>1, PopupChanges
<1> QED
  BY <1>1, <1>2, <1>3, <1>4, <1>5, <1>6, <1>7, <1>8, <1>9, <1>10 DEF Server!Next

LEMMA PopupFollows == ServerInv => PopupHonest
<1> SUFFICES ASSUME ServerInv PROVE PopupHonest
  OBVIOUS
<1>1. ServerTypes
  BY DEF ServerInv
<1>2. Server!PopupOK
  <2>1. popup.index \in Nat /\ popup.items \in Nat
    BY <1>1 DEF ServerTypes, Popups
  <2> QED
    BY <2>1 DEF ServerInv, PopupInv, Server!PopupOK
<1>3. Server!AnswerIsForTheLine
  BY DEF ServerInv, PopupInv, Server!AnswerIsForTheLine
<1>4. Server!LineIsTakenOut
  BY DEF ServerInv, LineInv, Server!LineIsTakenOut, Server!Ready
<1>5. Server!NeverGivesUp
  <2>1. client.skipped \in Nat /\ client.limit \in Nat
    BY <1>1, ServerFields
  <2> QED
    BY <2>1, ServerAssumption DEF ServerInv, PileInv, Server!NeverGivesUp
<1> QED
  BY <1>2, <1>3, <1>4, <1>5 DEF PopupHonest

-----------------------------------------------------------------------------
(***************************************************************************)
(* The history.  Its operators are recursive functions; a set of numbers   *)
(* that has 0 and with a number the next has them all, which is induction  *)
(* without an operator for the property.                                   *)
(***************************************************************************)
LEMMA LeastOf ==
    ASSUME NEW S \in SUBSET Nat, S # {}
    PROVE  \E m \in S : \A i \in S : m <= i
<1>1. \E m \in S : \A i \in S : ~(<<i, m>> \in OpToRel(<, Nat))
  BY NatLessThanWellFounded, WFMin
<1>2. \A i, m \in Nat : i < m => <<i, m>> \in OpToRel(<, Nat)
  BY DEF OpToRel
<1>3. PICK m \in S : \A i \in S : ~(<<i, m>> \in OpToRel(<, Nat))
  BY <1>1
<1>4. \A i \in S : ~(i < m)
  BY <1>2, <1>3
<1> QED
  BY <1>4

LEMMA AllReached ==
    ASSUME NEW N \in Nat, NEW G, 0 \in G, \A n \in 1..N : n - 1 \in G => n \in G
    PROVE  \A n \in 0..N : n \in G
<1> DEFINE Bad == {n \in 0..N : n \notin G}
<1> SUFFICES ASSUME Bad # {} PROVE FALSE
  OBVIOUS
<1>1. PICK m \in Bad : \A i \in Bad : m <= i
  <2>1. Bad \in SUBSET Nat
    OBVIOUS
  <2> HIDE DEF Bad
  <2> QED
    BY <2>1, LeastOf
<1>2. m \in 1..N
  BY <1>1
<1>3. m - 1 \in 0..N /\ m - 1 \notin Bad
  BY <1>1, <1>2
<1> QED
  BY <1>1, <1>2, <1>3

(* A step that stays in A has a recursive function.                        *)
Runs(g, m, A, a, step) ==
    g \in [0..m -> A] /\ g[0] = a /\ \A n \in 1..m : g[n] = step[n][g[n - 1]]

LEMMA RecursionExists ==
    ASSUME NEW N \in Nat, NEW A, NEW a \in A, NEW step \in [1..N -> [A -> A]]
    PROVE  \E g : Runs(g, N, A, a, step)
<1> DEFINE G == {m \in 0..N : \E g : Runs(g, m, A, a, step)}
<1>1. 0 \in G
  <2>1. Runs([k \in 0..0 |-> a], 0, A, a, step)
    BY DEF Runs
  <2> QED
    BY <2>1
<1>2. ASSUME NEW m \in 1..N, m - 1 \in G PROVE m \in G
  <2>1. PICK g : Runs(g, m - 1, A, a, step)
    BY <1>2
  <2> DEFINE h == [k \in 0..m |-> IF k = m THEN step[m][g[m - 1]] ELSE g[k]]
  <2>2. g[m - 1] \in A /\ \A k \in 0..(m - 1) : g[k] \in A
    BY <2>1 DEF Runs
  <2>3. step[m][g[m - 1]] \in A
    BY <2>2
  <2>4. h \in [0..m -> A]
    BY <2>2, <2>3
  <2>5. h[0] = a /\ (\A k \in 0..(m - 1) : h[k] = g[k]) /\ h[m] = step[m][g[m - 1]]
    BY <2>1 DEF Runs
  <2> HIDE DEF h
  <2>6. \A n \in 1..m : h[n] = step[n][h[n - 1]]
    BY <2>1, <2>5 DEF Runs
  <2>7. Runs(h, m, A, a, step)
    BY <2>4, <2>5, <2>6 DEF Runs
  <2> QED
    BY <2>7
<1>3. N \in G
  <2>1. N \in 0..N
    OBVIOUS
  <2> HIDE DEF G
  <2>2. \A n \in 0..N : n \in G
    BY <1>1, <1>2, AllReached, Zenon
  <2> QED
    BY <2>1, <2>2
<1> QED
  BY <1>3

-----------------------------------------------------------------------------
(* What is picked from a sequence is of its members.                       *)
LEMMA PickedIs ==
    ASSUME NEW S, NEW s \in Seq(S), NEW I
    PROVE  History!Picked(s, I) \in Seq(S)
<1> DEFINE N == Len(s)
           A == Seq(S)
           step == [n \in 1..N |-> [x \in A |-> IF n \in I THEN Append(x, s[n]) ELSE x]]
           h == History!Picks(s, I)
<1>1. N \in Nat /\ \A n \in 1..N : s[n] \in S
  BY LenProperties, ElementOfSeq
<1>2. \A n \in 1..N, x \in A : Append(x, s[n]) \in A
  BY <1>1, PutOn
<1>3. <<>> \in A
  BY EmptySeq
<1>4. step \in [1..N -> [A -> A]]
  BY <1>2
<1>5. \A n \in 1..N, x \in A : step[n][x] = IF n \in I THEN Append(x, s[n]) ELSE x
  OBVIOUS
<1> HIDE DEF step, A, N
<1>6. PICK g : g \in [0..N -> A] /\ g[0] = <<>> /\ \A n \in 1..N : g[n] = step[n][g[n - 1]]
  <2>1. N \in Nat
    BY <1>1
  <2>2. PICK g : Runs(g, N, A, <<>>, step)
    BY <1>3, <1>4, <2>1, RecursionExists
  <2> QED
    BY <2>2 DEF Runs
<1>7. \A n \in 1..N : g[n] = IF n \in I THEN Append(g[n - 1], s[n]) ELSE g[n - 1]
  <2>1. \A n \in 1..N : g[n - 1] \in A
    BY <1>1, <1>6
  <2> QED
    BY <1>5, <1>6, <2>1, Zenon
<1>8. g = [n \in 0..N |-> IF n = 0 THEN <<>> ELSE IF n \in I THEN Append(g[n - 1], s[n]) ELSE g[n - 1]]
  <2>1. g = [n \in 0..N |-> g[n]]
    BY <1>6
  <2>2. \A n \in 0..N : g[n] = IF n = 0 THEN <<>>
                               ELSE IF n \in I THEN Append(g[n - 1], s[n]) ELSE g[n - 1]
    <3>1. \A n \in 0..N : n = 0 \/ n \in 1..N
      BY <1>1
    <3>2. 0 \notin 1..N
      BY <1>1, SMTT(60)
    <3> QED
      BY <1>6, <1>7, <3>1, <3>2, Zenon
  <2> QED
    BY <2>1, <2>2
<1>9. h = [n \in 0..N |-> IF n = 0 THEN <<>> ELSE IF n \in I THEN Append(h[n - 1], s[n]) ELSE h[n - 1]]
  BY <1>8, ZenonT(60) DEF History!Picks, N
<1> HIDE DEF h
<1>10. h[0] = <<>> /\ \A n \in 1..N : h[n] = IF n \in I THEN Append(h[n - 1], s[n]) ELSE h[n - 1]
  <2>1. \A n \in 0..N : h[n] = IF n = 0 THEN <<>>
                               ELSE IF n \in I THEN Append(h[n - 1], s[n]) ELSE h[n - 1]
    BY <1>9
  <2> QED
    BY <1>1, <2>1
<1> DEFINE G == {n \in 0..N : h[n] \in A}
<1>11. 0 \in G
  BY <1>1, <1>3, <1>10
<1>12. \A n \in 1..N : n - 1 \in G => n \in G
  BY <1>1, <1>2, <1>10, SMTT(60)
<1> HIDE DEF G
<1>13. N \in G
  <2>1. N \in 0..N
    BY <1>1
  <2>2. \A n \in 0..N : n \in G
    BY <1>1, <1>11, <1>12, AllReached, Zenon
  <2> QED
    BY <2>1, <2>2
<1> QED
  BY <1>13 DEF G, History!Picked, h, N, A

-----------------------------------------------------------------------------
(* The stores a session can have.                                          *)
Kept == Entries \ {Blank}
Stores == [entries : Seq(Kept), cursor : Nat, draft : Entries]
Differ(es) == \A i \in 2..Len(es) : es[i] # es[i - 1]
Bounded == {st \in Stores : /\ st.cursor \in 0..Len(st.entries) /\ Len(st.entries) <= MaxHistory
                            /\ Differ(st.entries)}

LEMMA StoreOf ==
    ASSUME NEW es \in Seq(Kept), NEW c \in Nat, NEW d \in Entries
    PROVE  \A st : st = [entries |-> es, cursor |-> c, draft |-> d] =>
             st \in Stores /\ st.entries = es /\ st.cursor = c /\ st.draft = d
  BY DEF Stores

LEMMA NewStoreBounded == History!NewStore \in Bounded /\ History!NewStore.entries = <<>> /\ History!NewStore.cursor = 0
<1>1. <<>> \in Seq(Kept) /\ Blank \in Entries /\ 0 \in Nat /\ Len(<<>>) = 0
  BY HistoryAssumption, EmptySeq
<1>2. /\ History!NewStore \in Stores /\ History!NewStore.entries = <<>> /\ History!NewStore.cursor = 0
  BY <1>1 DEF History!NewStore, Stores
<1> QED
  <2>1. Len(<<>>) <= MaxHistory /\ 0 \in 0..Len(<<>>)
    <3>0. MaxHistory \in Nat
      BY HistoryAssumption
    <3>1. 0 <= MaxHistory /\ 0 \in 0..0
      BY <3>0
    <3> QED
      BY <1>1, <3>1, Zenon
  <2>2. Differ(<<>>)
    BY <1>1 DEF Differ
  <2> QED
    BY <1>2, <2>1, <2>2, Zenon DEF Bounded

(* A line that is pushed is the newest, unless it is blank.                *)
LEMMA PushRawHolds ==
    ASSUME NEW es \in Seq(Kept), Len(es) <= MaxHistory, Differ(es), NEW e \in Entries
    PROVE  /\ History!push_raw(es, e) \in Seq(Kept) /\ Len(History!push_raw(es, e)) <= MaxHistory
           /\ Differ(History!push_raw(es, e))
           /\ e # Blank => /\ History!push_raw(es, e) # <<>>
                           /\ History!push_raw(es, e)[Len(History!push_raw(es, e))] = e
<1>0. Len(es) \in Nat /\ MaxHistory \in Nat \ {0}
  BY LenProperties, HistoryAssumption
<1>1. CASE e = Blank \/ (es # <<>> /\ es[Len(es)] = e)
  <2>1. History!push_raw(es, e) = es
    BY <1>1 DEF History!push_raw, History!Last
  <2> QED
    BY <1>1, <2>1
<1>2. CASE ~(e = Blank \/ (es # <<>> /\ es[Len(es)] = e))
  <2> DEFINE t == Append(es, e)
  <2>1. e \in Kept
    BY <1>2 DEF Kept
  <2>2. /\ t \in Seq(Kept) /\ Len(t) = Len(es) + 1 /\ t[Len(es) + 1] = e
        /\ \A i \in 1..Len(es) : t[i] = es[i]
    BY <2>1, PutOn
  <2>3. History!push_raw(es, e) = IF Len(t) > MaxHistory THEN Tail(t) ELSE t
    BY <1>2 DEF History!push_raw, History!Capped, History!Last
  <2> HIDE DEF t
  <2>4. es # <<>> => es[Len(es)] # e
    BY <1>2
  <2>5. Len(es) # 0 => es # <<>>
    BY <1>0, NothingLeft
  <2>6. ASSUME NEW i \in 2..Len(t) PROVE t[i] # t[i - 1]
    <3>1. CASE i = Len(t)
      <4>1. t[i] = e /\ t[i - 1] = es[Len(es)] /\ Len(es) # 0
        BY <1>0, <2>2, <3>1
      <4> QED
        BY <2>4, <2>5, <4>1
    <3>2. CASE i # Len(t)
      <4>1. i \in 2..Len(es) /\ t[i] = es[i] /\ t[i - 1] = es[i - 1]
        BY <1>0, <2>2, <3>2
      <4> QED
        BY <4>1 DEF Differ
    <3> QED
      BY <3>1, <3>2
  <2>7. CASE Len(t) > MaxHistory
    <3>1. t # <<>>
      BY <1>0, <2>2, NothingLeft
    <3>2. /\ Tail(t) \in Seq(Kept) /\ Len(Tail(t)) = Len(t) - 1
          /\ \A i \in 1..(Len(t) - 1) : Tail(t)[i] = t[i + 1]
      BY <2>2, <3>1, TakenOff
    <3> DEFINE u == Tail(t)
    <3>3. History!push_raw(es, e) = u
      BY <2>3, <2>7
    <3>4. /\ u \in Seq(Kept) /\ Len(u) = Len(t) - 1
          /\ \A i \in 1..(Len(t) - 1) : u[i] = t[i + 1]
      BY <3>2
    <3> HIDE DEF u
    <3>5. Len(u) = Len(es) /\ Len(es) = MaxHistory
      BY <1>0, <2>2, <2>7, <3>4
    <3>6. Differ(u)
      <4> SUFFICES ASSUME NEW i \in 2..Len(u) PROVE u[i] # u[i - 1]
        BY DEF Differ
      <4>1. u[i] = t[i + 1] /\ u[i - 1] = t[(i + 1) - 1] /\ i + 1 \in 2..Len(t)
        BY <1>0, <2>2, <3>4, <3>5
      <4> QED
        BY <2>6, <4>1
    <3>7. u[Len(u)] = e
      BY <1>0, <2>2, <3>4, <3>5
    <3>8. u # <<>>
      BY <1>0, <3>4, <3>5, NothingLeft
    <3> QED
      BY <1>0, <3>3, <3>4, <3>5, <3>6, <3>7, <3>8
  <2>8. CASE ~(Len(t) > MaxHistory)
    <3>1. History!push_raw(es, e) = t
      BY <2>3, <2>8
    <3>2. Len(t) <= MaxHistory /\ t[Len(t)] = e
      BY <1>0, <2>2, <2>8
    <3>3. t # <<>>
      BY <1>0, <2>2, NothingLeft
    <3>4. Differ(t)
      BY <2>6 DEF Differ
    <3> QED
      BY <2>2, <3>1, <3>2, <3>3, <3>4
  <2> QED
    BY <2>7, <2>8
<1> QED
  BY <1>1, <1>2

LEMMA PushHolds ==
    ASSUME NEW st \in Bounded, NEW e \in Entries
    PROVE  /\ History!push(st, e) \in Bounded
           /\ History!push(st, e).entries = History!push_raw(st.entries, e)
           /\ History!push(st, e).cursor = 0
           /\ e # Blank => /\ History!push(st, e).entries # <<>>
                           /\ History!push(st, e).entries[Len(History!push(st, e).entries)] = e
<1>1. st.entries \in Seq(Kept) /\ Len(st.entries) <= MaxHistory /\ Differ(st.entries)
  BY DEF Bounded, Stores
<1> DEFINE es == History!push_raw(st.entries, e)
<1>2. /\ es \in Seq(Kept) /\ Len(es) <= MaxHistory /\ Differ(es)
      /\ e # Blank => es # <<>> /\ es[Len(es)] = e
  BY <1>1, PushRawHolds
<1>3. History!push(st, e) = [entries |-> es, cursor |-> 0, draft |-> Blank]
  BY DEF History!push
<1> HIDE DEF es
<1>4. Blank \in Entries /\ 0 \in Nat
  BY HistoryAssumption
<1>5. /\ History!push(st, e) \in Stores /\ History!push(st, e).entries = es
      /\ History!push(st, e).cursor = 0
  BY <1>2, <1>3, <1>4, StoreOf
<1>6. Len(es) \in Nat
  BY <1>2, LenProperties
<1>7. 0 \in 0..Len(es)
  BY <1>6
<1>8. History!push(st, e) \in Bounded
  BY <1>2, <1>5, <1>7, Zenon DEF Bounded
<1>9. History!push(st, e).entries = History!push_raw(st.entries, e)
  BY <1>5 DEF es
<1> QED
  BY <1>2, <1>5, <1>8, <1>9, Zenon

-----------------------------------------------------------------------------
(* What is written, and what is read back.                                 *)
LEMMA SavesRun ==
    ASSUME NEW es \in Seq(Kept)
    PROVE  /\ History!Saves(es)[0] = <<>>
           /\ \A n \in 1..Len(es) : History!Saves(es)[n] = History!Saves(es)[n - 1] \o Written(es[n])
           /\ \A n \in 0..Len(es) : History!Saves(es)[n] \in Seq(Entries)
<1> DEFINE N == Len(es)
           A == Seq(Entries)
           step == [n \in 1..N |-> [x \in A |-> x \o Written(es[n])]]
           h == History!Saves(es)
<1>1. N \in Nat /\ \A n \in 1..N : es[n] \in Entries
  BY LenProperties, ElementOfSeq DEF Kept
<1>2. \A n \in 1..N, x \in A : x \o Written(es[n]) \in A
  <2>1. \A n \in 1..N : Written(es[n]) \in A
    BY <1>1, HistoryAssumption
  <2> QED
    BY <2>1, ConcatProperties
<1>3. <<>> \in A
  BY EmptySeq
<1>4. step \in [1..N -> [A -> A]]
  BY <1>2
<1>5. \A n \in 1..N, x \in A : step[n][x] = x \o Written(es[n])
  OBVIOUS
<1> HIDE DEF step, A, N
<1>6. PICK g : g \in [0..N -> A] /\ g[0] = <<>> /\ \A n \in 1..N : g[n] = step[n][g[n - 1]]
  <2>1. N \in Nat
    BY <1>1
  <2>2. PICK g : Runs(g, N, A, <<>>, step)
    BY <1>3, <1>4, <2>1, RecursionExists
  <2> QED
    BY <2>2 DEF Runs
<1>7. \A n \in 1..N : g[n] = g[n - 1] \o Written(es[n])
  <2>1. \A n \in 1..N : g[n - 1] \in A
    BY <1>1, <1>6
  <2> QED
    BY <1>5, <1>6, <2>1, Zenon
<1>8. g = [n \in 0..N |-> IF n = 0 THEN <<>> ELSE g[n - 1] \o Written(es[n])]
  <2>1. g = [n \in 0..N |-> g[n]]
    BY <1>6
  <2>2. \A n \in 0..N : g[n] = IF n = 0 THEN <<>> ELSE g[n - 1] \o Written(es[n])
    <3>1. \A n \in 0..N : n = 0 \/ n \in 1..N
      BY <1>1
    <3>2. 0 \notin 1..N
      BY <1>1, SMTT(60)
    <3> QED
      BY <1>6, <1>7, <3>1, <3>2, Zenon
  <2> QED
    BY <2>1, <2>2
<1>9. h = [n \in 0..N |-> IF n = 0 THEN <<>> ELSE h[n - 1] \o Written(es[n])]
  BY <1>8, ZenonT(60) DEF History!Saves, N
<1> HIDE DEF h
<1>10. h[0] = <<>> /\ \A n \in 1..N : h[n] = h[n - 1] \o Written(es[n])
  <2>1. \A n \in 0..N : h[n] = IF n = 0 THEN <<>> ELSE h[n - 1] \o Written(es[n])
    BY <1>9
  <2>2. 0 \in 0..N /\ \A n \in 1..N : n \in 0..N /\ n # 0
    BY <1>1
  <2> QED
    BY <2>1, <2>2, Zenon
<1> DEFINE G == {n \in 0..N : h[n] \in A}
<1>11. 0 \in G
  BY <1>1, <1>3, <1>10
<1>12. \A n \in 1..N : n - 1 \in G => n \in G
  <2>1. \A n \in 1..N : n \in 0..N
    BY <1>1
  <2> QED
    BY <1>2, <1>10, <2>1, Zenon
<1> HIDE DEF G
<1>13. \A n \in 0..N : n \in G
  BY <1>1, <1>11, <1>12, AllReached, Zenon
<1>14. \A n \in 0..N : h[n] \in A
  BY <1>13 DEF G
<1> QED
  BY <1>10, <1>14 DEF h, N, A

LEMMA LoadsRun ==
    ASSUME NEW f \in Seq(Entries), NEW start \in Nat
    PROVE  /\ \A n \in 0..Len(f) : History!Loads(f, start)[n] =
                IF n <= start THEN History!NewStore ELSE History!push(History!Loads(f, start)[n - 1], f[n])
           /\ \A n \in 0..Len(f) : History!Loads(f, start)[n] \in Bounded /\ History!Loads(f, start)[n].cursor = 0
<1> DEFINE N == Len(f)
           A == {st \in Bounded : st.cursor = 0}
           Body(n, x) == IF n <= start THEN History!NewStore ELSE History!push(x, f[n])
           step == [n \in 1..N |-> [x \in A |-> Body(n, x)]]
           h == History!Loads(f, start)
<1>1. N \in Nat /\ \A n \in 1..N : f[n] \in Entries
  BY LenProperties, ElementOfSeq
<1>2. History!NewStore \in A
  BY NewStoreBounded
<1>3. \A n \in 1..N, x \in A : Body(n, x) \in A
  BY <1>1, <1>2, PushHolds
<1> HIDE DEF Body
<1>4. step \in [1..N -> [A -> A]]
  BY <1>3
<1>5. \A n \in 1..N, x \in A : step[n][x] = Body(n, x)
  OBVIOUS
<1> HIDE DEF step, A, N
<1>6. PICK g : g \in [0..N -> A] /\ g[0] = History!NewStore /\ \A n \in 1..N : g[n] = step[n][g[n - 1]]
  <2>1. N \in Nat
    BY <1>1
  <2>2. PICK g : Runs(g, N, A, History!NewStore, step)
    BY <1>2, <1>4, <2>1, RecursionExists
  <2> QED
    BY <2>2 DEF Runs
<1>7. \A n \in 1..N : g[n] = Body(n, g[n - 1])
  <2>1. \A n \in 1..N : g[n - 1] \in A
    BY <1>1, <1>6
  <2> QED
    BY <1>5, <1>6, <2>1, Zenon
<1>8. g = [n \in 0..N |-> Body(n, g[n - 1])]
  <2>1. g = [n \in 0..N |-> g[n]]
    BY <1>6
  <2>2. \A n \in 0..N : g[n] = Body(n, g[n - 1])
    <3>1. \A n \in 0..N : n = 0 \/ n \in 1..N
      BY <1>1
    <3>2. Body(0, g[0 - 1]) = History!NewStore
      BY DEF Body
    <3> QED
      BY <1>6, <1>7, <3>1, <3>2, Zenon
  <2> QED
    BY <2>1, <2>2
<1>9. h = [n \in 0..N |-> Body(n, h[n - 1])]
  BY <1>8 DEF History!Loads, N, Body
<1> HIDE DEF h
<1>10. \A n \in 0..N : h[n] = Body(n, h[n - 1])
  BY <1>9
<1>11. Body(0, h[0 - 1]) = History!NewStore
  BY DEF Body
<1> DEFINE G == {n \in 0..N : h[n] \in A}
<1>12. 0 \in G
  <2>1. 0 \in 0..N
    BY <1>1
  <2> QED
    BY <1>2, <1>10, <1>11, <2>1, Zenon
<1>13. \A n \in 1..N : n - 1 \in G => n \in G
  <2>1. \A n \in 1..N : n \in 0..N
    BY <1>1
  <2> QED
    BY <1>3, <1>10, <2>1, Zenon
<1> HIDE DEF G
<1>14. \A n \in 0..N : n \in G
  BY <1>1, <1>12, <1>13, AllReached, Zenon
<1>15. \A n \in 0..N : h[n] \in Bounded /\ h[n].cursor = 0
  BY <1>14 DEF G, A
<1> QED
  BY <1>10, <1>15 DEF h, N, Body

(* A history of single lines comes back as it was.                         *)
LEMMA SavedLines ==
    ASSUME NEW es \in Seq(Kept), \A i \in 1..Len(es) : Written(es[i]) = <<es[i]>>
    PROVE  History!Saves(es)[Len(es)] = es
<1> DEFINE N == Len(es)
           h == History!Saves(es)
           G == {n \in 0..N : Len(h[n]) = n /\ \A i \in 1..n : h[n][i] = es[i]}
<1>1. N \in Nat /\ es \in Seq(Entries)
  BY LenProperties, SeqMonotonic DEF Kept
<1>2. /\ h[0] = <<>> /\ \A n \in 1..N : h[n] = h[n - 1] \o Written(es[n])
      /\ \A n \in 0..N : h[n] \in Seq(Entries)
  BY SavesRun
<1>3. \A i \in 1..N : Written(es[i]) = <<es[i]>> /\ es[i] \in Entries
  BY <1>1, ElementOfSeq
<1> HIDE DEF h, N
<1>4. 0 \in G
  BY <1>1, <1>2
<1>5. ASSUME NEW n \in 1..N, n - 1 \in G PROVE n \in G
  <2>1. /\ h[n - 1] \in Seq(Entries) /\ Len(h[n - 1]) = n - 1 /\ \A i \in 1..(n - 1) : h[n - 1][i] = es[i]
        /\ n \in 0..N
    BY <1>1, <1>2, <1>5
  <2>2. h[n] = h[n - 1] \o <<es[n]>>
    BY <1>2, <1>3
  <2>3. /\ Len(h[n - 1] \o <<es[n]>>) = Len(h[n - 1]) + 1
        /\ (h[n - 1] \o <<es[n]>>)[Len(h[n - 1]) + 1] = es[n]
        /\ \A i \in 1..Len(h[n - 1]) : (h[n - 1] \o <<es[n]>>)[i] = h[n - 1][i]
    <3>1. h[n - 1] \in Seq(Entries) /\ es[n] \in Entries
      BY <1>3, <2>1, Zenon
    <3> QED
      BY <3>1, PutOne
  <2>4. /\ Len(h[n]) = Len(h[n - 1]) + 1 /\ h[n][Len(h[n - 1]) + 1] = es[n]
        /\ \A i \in 1..Len(h[n - 1]) : h[n][i] = h[n - 1][i]
    BY <2>2, <2>3, Zenon
  <2>5. Len(h[n]) = n /\ h[n][n] = es[n] /\ \A i \in 1..(n - 1) : h[n][i] = es[i]
    BY <2>1, <2>4
  <2>6. \A i \in 1..n : h[n][i] = es[i]
    <3>1. \A i \in 1..n : i = n \/ i \in 1..(n - 1)
      BY <1>1
    <3> QED
      BY <2>5, <3>1, Zenon
  <2> QED
    BY <2>1, <2>5, <2>6, Zenon
<1> HIDE DEF G
<1>6. N \in 0..N /\ \A n \in 0..N : n \in G
  <2>1. N \in 0..N
    BY <1>1
  <2>2. \A n \in 0..N : n \in G
    BY <1>1, <1>4, <1>5, AllReached, Zenon
  <2> QED
    BY <2>1, <2>2
<1>7. Len(h[N]) = N /\ \A i \in 1..N : h[N][i] = es[i]
  BY <1>6 DEF G
<1>8. h[N] \in Seq(Entries)
  BY <1>2, <1>6
<1>9. Len(es) = N
  BY DEF N
<1>10. h[N] = es
  BY <1>1, <1>7, <1>8, <1>9, SeqEqual
<1> QED
  BY <1>10 DEF h, N

LEMMA LoadedLines ==
    ASSUME NEW es \in Seq(Kept), Len(es) <= MaxHistory, Differ(es)
    PROVE  History!Loaded(es).entries = es
<1> DEFINE N == Len(es)
           h == History!Loads(es, 0)
           G == {n \in 0..N : Len(h[n].entries) = n /\ \A i \in 1..n : h[n].entries[i] = es[i]}
<1>1. N \in Nat /\ es \in Seq(Entries) /\ \A i \in 1..N : es[i] \in Kept
  BY LenProperties, SeqMonotonic, ElementOfSeq DEF Kept
<1>2. /\ \A n \in 0..N : h[n] = IF n <= 0 THEN History!NewStore ELSE History!push(h[n - 1], es[n])
      /\ \A n \in 0..N : h[n] \in Bounded
  BY <1>1, LoadsRun
<1>3. History!Loaded(es) = h[N]
  <2>1. ~(Len(es) > MaxHistory)
    <3>1. MaxHistory \in Nat /\ Len(es) \in Nat
      BY <1>1, HistoryAssumption, Zenon
    <3> QED
      BY <3>1
  <2>2. History!Beyond(es) = 0
    BY <2>1 DEF History!Beyond
  <2> QED
    BY <2>2 DEF History!Loaded
<1>4. N <= MaxHistory /\ MaxHistory \in Nat /\ \A i \in 2..N : es[i] # es[i - 1]
  BY HistoryAssumption DEF Differ
<1> HIDE DEF h, N
<1>5. 0 \in G
  <2>1. 0 \in 0..N /\ h[0].entries = <<>>
    BY <1>1, <1>2, NewStoreBounded
  <2>2. Len(h[0].entries) = 0
    BY <2>1
  <2> QED
    BY <2>1, <2>2
<1>6. ASSUME NEW n \in 1..N, n - 1 \in G PROVE n \in G
  <2> DEFINE x == h[n - 1].entries
  <2>1. /\ h[n - 1] \in Bounded /\ Len(x) = n - 1 /\ \A i \in 1..(n - 1) : x[i] = es[i]
        /\ n \in 0..N /\ es[n] \in Kept /\ es[n] \in Entries /\ es[n] # Blank
    BY <1>1, <1>2, <1>6 DEF Kept
  <2>2. x \in Seq(Kept)
    BY <2>1 DEF Bounded, Stores
  <2>3. h[n] = History!push(h[n - 1], es[n])
    BY <1>1, <1>2
  <2>4. h[n].entries = History!push_raw(x, es[n])
    BY <2>1, <2>3, PushHolds
  <2> HIDE DEF x
  <2>5. x # <<>> => x[Len(x)] # es[n]
    <3>1. x # <<>> => n - 1 \in 1..(n - 1) /\ n \in 2..N
      BY <1>1, <2>1, <2>2, NothingLeft
    <3>2. x # <<>> => x[Len(x)] = es[n - 1] /\ es[n] # es[n - 1]
      BY <1>4, <2>1, <3>1
    <3> QED
      BY <3>2
  <2>6. /\ Append(x, es[n]) \in Seq(Kept) /\ Len(Append(x, es[n])) = Len(x) + 1
        /\ Append(x, es[n])[Len(x) + 1] = es[n]
        /\ \A i \in 1..Len(x) : Append(x, es[n])[i] = x[i]
    BY <2>1, <2>2, PutOn
  <2>7. ~(Len(Append(x, es[n])) > MaxHistory)
    BY <1>1, <1>4, <2>1, <2>6
  <2>8. h[n].entries = Append(x, es[n])
    BY <2>1, <2>4, <2>5, <2>7, Zenon DEF History!push_raw, History!Capped, History!Last
  <2>9. /\ Len(h[n].entries) = Len(x) + 1 /\ h[n].entries[Len(x) + 1] = es[n]
        /\ \A i \in 1..Len(x) : h[n].entries[i] = x[i]
    BY <2>6, <2>8, Zenon
  <2>10. Len(h[n].entries) = n /\ h[n].entries[n] = es[n]
         /\ \A i \in 1..(n - 1) : h[n].entries[i] = es[i]
    BY <2>1, <2>9
  <2>11. \A i \in 1..n : h[n].entries[i] = es[i]
    <3>1. \A i \in 1..n : i = n \/ i \in 1..(n - 1)
      BY <1>1
    <3> QED
      BY <2>10, <3>1, Zenon
  <2> QED
    BY <2>1, <2>10, <2>11, Zenon
<1> HIDE DEF G
<1>7. N \in 0..N /\ \A n \in 0..N : n \in G
  <2>1. N \in 0..N
    BY <1>1
  <2>2. \A n \in 0..N : n \in G
    BY <1>1, <1>5, <1>6, AllReached, Zenon
  <2> QED
    BY <2>1, <2>2
<1>8. Len(h[N].entries) = N /\ \A i \in 1..N : h[N].entries[i] = es[i]
  BY <1>7 DEF G
<1>9. h[N].entries \in Seq(Kept)
  BY <1>2, <1>7 DEF Bounded, Stores
<1>10. Len(es) = N
  BY DEF N
<1>11. h[N].entries = es
  BY <1>8, <1>9, <1>10, SeqEqual
<1> QED
  BY <1>3, <1>11

-----------------------------------------------------------------------------
(* The line: while the history is browsed the draft is the line the        *)
(* browsing began with, a search is about the entries there are, and the   *)
(* search and the command line are never open together.                    *)
Searches == [active : BOOLEAN, matches : Seq(Nat), index : Nat, original : Entries]
Cycles == [prefix : Entries, matches : Seq(Entries), showing : Nat]
CommandLines == [open : BOOLEAN, buf : Entries, cycle : Cycles]

HistoryTypes == store \in Bounded /\ input \in Entries /\ search \in Searches /\ cmd \in CommandLines

RecallInv == store.cursor # 0 => store.draft = stashed

SearchInv ==
    search.active =>
      /\ ~cmd.open
      /\ \A i \in 1..Len(search.matches) : search.matches[i] \in 1..Len(store.entries)
      /\ IF search.matches = <<>> THEN input = search.original
         ELSE /\ search.index \in 1..Len(search.matches)
              /\ input = store.entries[search.matches[search.index]]

CycleInv == cmd.cycle.showing <= Len(cmd.cycle.matches) /\ History!CycleFresh

HistoryInv == HistoryTypes /\ RecallInv /\ SearchInv /\ CycleInv

LEMMA HitsAre ==
    ASSUME NEW es \in Seq(Kept), NEW p
    PROVE  /\ History!Hits(es, p) \in Seq(Nat) /\ Len(History!Hits(es, p)) \in Nat
           /\ \A i \in 1..Len(History!Hits(es, p)) : History!Hits(es, p)[i] \in 1..Len(es)
<1> DEFINE N == Len(es)
           hs == History!Hits(es, p)
<1>1. N \in Nat
  BY LenProperties
<1>2. History!NewestFirst(es) \in Seq(1..N)
  <2>1. History!NewestFirst(es) = [i \in 1..N |-> N + 1 - i]
    BY DEF History!NewestFirst
  <2>2. \A i \in 1..N : N + 1 - i \in 1..N
    BY <1>1
  <2> HIDE DEF N
  <2> QED
    BY <1>1, <2>1, <2>2, IsASeq
<1>3. hs \in Seq(1..N)
  BY <1>2, PickedIs DEF History!Hits
<1> HIDE DEF hs, N
<1>4. hs \in Seq(Nat)
  BY <1>1, <1>3, SeqMonotonic
<1>5. Len(hs) \in Nat /\ \A i \in 1..Len(hs) : hs[i] \in 1..N
  BY <1>3, LenProperties, ElementOfSeq
<1> QED
  BY <1>4, <1>5 DEF hs, N

LEMMA NoCycleIs == History!NoCycle \in Cycles /\ History!NoCycle.showing = 0
<1>1. "none" \in Entries
  BY HistoryAssumption
<1> QED
  BY <1>1 DEF History!NoCycle, Cycles

LEMMA ClosedIs == /\ History!Closed \in CommandLines /\ ~History!Closed.open
                  /\ History!Closed.cycle = History!NoCycle
<1>1. "" \in Entries
  BY HistoryAssumption
<1> QED
  BY <1>1, NoCycleIs DEF History!Closed, CommandLines

LEMMA NoSearchIs == History!NoSearch \in Searches /\ ~History!NoSearch.active /\ History!NoSearch.matches = <<>>
<1>1. Blank \in Entries
  BY HistoryAssumption
<1> QED
  BY <1>1 DEF History!NoSearch, Searches

LEMMA NoCycleFresh ==
    ASSUME NEW c, c.cycle = History!NoCycle
    PROVE  c.cycle.showing <= Len(c.cycle.matches)
<1>1. c.cycle.showing = 0 /\ c.cycle.matches = <<>>
  BY DEF History!NoCycle
<1> QED
  BY <1>1

LEMMA HistoryInit == History!Init => HistoryInv
<1> SUFFICES ASSUME History!Init PROVE HistoryInv
  OBVIOUS
<1>1. /\ store = History!NewStore /\ input = Blank /\ search = History!NoSearch /\ cmd = History!Closed
  BY DEF History!Init
<1>2. HistoryTypes
  BY <1>1, NewStoreBounded, NoSearchIs, ClosedIs, HistoryAssumption DEF HistoryTypes
<1>3. RecallInv /\ SearchInv
  BY <1>1, NewStoreBounded, NoSearchIs DEF RecallInv, SearchInv
<1>4. cmd.cycle = History!NoCycle
  BY <1>1, ClosedIs
<1>5. CycleInv
  BY <1>4, NoCycleFresh DEF CycleInv, History!CycleFresh
<1> QED
  BY <1>2, <1>3, <1>5 DEF HistoryInv

(* Nothing but the line and the store changes, while no search is on.      *)
LEMMA LineChanges ==
    ASSUME HistoryInv, ~search.active, store' \in Bounded, input' \in Entries, UNCHANGED search,
           store'.cursor # 0 => store'.draft = stashed',
           cmd' \in {cmd, History!Closed}
    PROVE  HistoryInv'
<1>1. HistoryTypes'
  BY ClosedIs DEF HistoryInv, HistoryTypes
<1>2. RecallInv' /\ SearchInv'
  BY DEF RecallInv, SearchInv
<1>3. CycleInv'
  <2>1. CASE cmd' = cmd
    BY <2>1 DEF HistoryInv, CycleInv, History!CycleFresh
  <2>2. CASE cmd' = History!Closed
    <3>1. cmd'.cycle = History!NoCycle
      BY <2>2, ClosedIs
    <3>2. cmd'.cycle.showing <= Len(cmd'.cycle.matches)
      BY <3>1, NoCycleFresh
    <3> QED
      BY <3>1, <3>2 DEF CycleInv, History!CycleFresh
  <2> QED
    BY <2>1, <2>2
<1> QED
  BY <1>1, <1>2, <1>3 DEF HistoryInv

(* The store after a command, whatever was pushed.                         *)
LEMMA Cancelled ==
    ASSUME NEW st \in Bounded
    PROVE  \A t : t = History!cancel_recall(st) => t \in Bounded /\ t.entries = st.entries /\ t.cursor = 0
<1> DEFINE e == [entries |-> st.entries, cursor |-> 0, draft |-> Blank]
<1>1. /\ st \in Stores /\ st.entries \in Seq(Kept) /\ Len(st.entries) <= MaxHistory
      /\ Differ(st.entries) /\ Len(st.entries) \in Nat
  BY LenProperties DEF Bounded, Stores
<1>2. History!cancel_recall(st) = e
  <2>1. ASSUME NEW t, t = History!cancel_recall(st)
        PROVE  t = [entries |-> st.entries, cursor |-> 0, draft |-> Blank]
    BY <1>1, <2>1 DEF History!cancel_recall, Stores
  <2> QED
    BY <2>1
<1>3. Blank \in Entries /\ 0 \in Nat
  BY HistoryAssumption
<1>4. 0 \in 0..Len(st.entries)
  BY <1>1
<1>5. e \in Stores /\ e.entries = st.entries /\ e.cursor = 0
  BY <1>1, <1>3, StoreOf, SMTT(60)
<1> HIDE DEF e
<1> QED
  BY <1>1, <1>2, <1>4, <1>5, Zenon DEF Bounded

LEMMA CommandsAre ==
    /\ History!Commands \subseteq Entries
    /\ \A c \in Entries : History!Names(c) \subseteq Entries
<1>1. Buffers \subseteq Entries /\ COMMANDS \in Seq(Entries)
  BY HistoryAssumption
<1>2. DOMAIN COMMANDS = 1..Len(COMMANDS) /\ \A i \in 1..Len(COMMANDS) : COMMANDS[i] \in Entries
  BY <1>1, LenProperties, ElementOfSeq
<1>3. History!Range(COMMANDS) \subseteq Entries
  BY <1>2 DEF History!Range
<1> QED
  BY <1>1, <1>3 DEF History!Commands, History!Names

(* The store and the line after a command.                                 *)
LEMMA CommandRuns ==
    ASSUME HistoryInv, NEW c \in Entries, History!handle_command(c)
    PROVE  store' \in Bounded /\ store'.cursor = 0 /\ input' \in {input, Blank}
<1>1. store \in Bounded
  BY DEF HistoryInv, HistoryTypes
<1>2. \A d \in Entries : History!push(store, d) \in Bounded /\ History!push(store, d).cursor = 0
  BY <1>1, PushHolds
<1>3. History!push(History!NewStore, c) \in Bounded
  BY NewStoreBounded, PushHolds
<1>4. ASSUME \E st \in Bounded : store' = History!cancel_recall(st)
      PROVE  store' \in Bounded /\ store'.cursor = 0
  BY <1>4, Cancelled
<1>5. ASSUME store' = History!push(store, c)
      PROVE  store' \in Bounded /\ store'.cursor = 0
  BY <1>2, <1>5
<1>6. input' \in {input, Blank}
  BY DEF History!handle_command
<1>7. (\E st \in Bounded : store' = History!cancel_recall(st)) \/ store' = History!push(store, c)
  <2>1. CASE c = "clear"
    <3>1. PICK st \in {store, History!NewStore} : store' = History!cancel_recall(History!push(st, c))
      BY <2>1 DEF History!handle_command
    <3> QED
      BY <1>2, <1>3, <3>1
  <2>2. CASE c # "clear" /\ store' # History!push(store, c)
    <3>1. PICK st \in {store} \cup {History!push(store, d) : d \in History!Names(c)} :
            store' = History!cancel_recall(st)
      BY <2>2 DEF History!handle_command
    <3>2. st \in Bounded
      BY <1>1, <1>2, CommandsAre
    <3> QED
      BY <3>1, <3>2
  <2> QED
    BY <2>1, <2>2
<1> QED
  BY <1>4, <1>5, <1>6, <1>7

LEMMA KeysOfTheLine ==
    ASSUME HistoryInv,
           History!Submit \/ History!SubmitCommand \/ History!Type \/ History!CommandEnter
    PROVE  HistoryInv'
<1>1. HistoryTypes
  BY DEF HistoryInv
<1>2. Blank \in Entries /\ \A l \in Inputs : l \in Entries
  BY HistoryAssumption
<1>3. store \in Bounded /\ input \in Entries /\ cmd.buf \in Entries
  BY <1>1 DEF HistoryTypes, CommandLines
<1>4. CASE History!Type
  <2>1. PICK l \in Inputs : History!Editing /\ input' = l /\ UNCHANGED <<store, search, cmd, stashed>>
    BY <1>4 DEF History!Type
  <2> QED
    BY <1>1, <1>2, <2>1, LineChanges DEF History!Editing, HistoryTypes, HistoryInv, RecallInv
<1>5. CASE History!Submit
  <2>1. /\ History!Editing /\ store' = History!cancel_recall(History!push(store, input))
        /\ input' = Blank /\ UNCHANGED <<search, cmd, stashed>>
    BY <1>5 DEF History!Submit
  <2>2. History!push(store, input) \in Bounded
    BY <1>3, PushHolds
  <2>3. store' \in Bounded /\ store'.cursor = 0
    BY <2>1, <2>2, Cancelled
  <2> QED
    BY <1>2, <2>1, <2>3, LineChanges DEF History!Editing
<1>6. CASE History!SubmitCommand
  <2>1. History!Editing /\ History!handle_command(input) /\ UNCHANGED <<search, cmd, stashed>>
    BY <1>6 DEF History!SubmitCommand
  <2>2. store' \in Bounded /\ store'.cursor = 0 /\ input' \in Entries
    BY <1>2, <1>3, <2>1, CommandRuns
  <2> QED
    BY <2>1, <2>2, LineChanges DEF History!Editing
<1>7. CASE History!CommandEnter
  <2>1. cmd.open /\ cmd' = History!Closed /\ History!handle_command(cmd.buf) /\ UNCHANGED <<search, stashed>>
    BY <1>7 DEF History!CommandEnter
  <2>2. store' \in Bounded /\ store'.cursor = 0 /\ input' \in Entries
    BY <1>2, <1>3, <2>1, CommandRuns
  <2>3. ~search.active
    BY <2>1 DEF HistoryInv, SearchInv
  <2> QED
    BY <2>1, <2>2, <2>3, LineChanges
<1> QED
  BY <1>4, <1>5, <1>6, <1>7

(* Up and down: the cursor stays on the entries, and the draft is put away *)
(* once.                                                                   *)
MovedTo(st, c, d) == [st EXCEPT !.cursor = c, !.draft = d]

LEMMA Moved ==
    ASSUME NEW st \in Bounded, NEW c \in 0..Len(st.entries), NEW d \in Entries
    PROVE  /\ MovedTo(st, c, d) \in Bounded /\ MovedTo(st, c, d).entries = st.entries
           /\ MovedTo(st, c, d).cursor = c /\ MovedTo(st, c, d).draft = d
<1> DEFINE e == [entries |-> st.entries, cursor |-> c, draft |-> d]
<1>1. /\ st \in Stores /\ st.entries \in Seq(Kept) /\ Len(st.entries) <= MaxHistory
      /\ Differ(st.entries) /\ Len(st.entries) \in Nat
  BY LenProperties DEF Bounded, Stores
<1>2. ASSUME NEW t, t = MovedTo(st, c, d) PROVE t = e
  BY <1>1, <1>2 DEF Stores, MovedTo
<1>3. c \in Nat
  BY <1>1
<1>4. e \in Stores /\ e.entries = st.entries /\ e.cursor = c /\ e.draft = d
  BY <1>1, <1>3, StoreOf
<1> HIDE DEF e
<1>5. e \in Bounded
  BY <1>1, <1>4, Zenon DEF Bounded
<1> QED
  BY <1>2, <1>4, <1>5, Zenon

LEMMA MovedOnly ==
    ASSUME NEW st \in Bounded, NEW c, NEW t, t = [st EXCEPT !.cursor = c]
    PROVE  t = MovedTo(st, c, st.draft) /\ st.draft \in Entries
  BY DEF Bounded, Stores, MovedTo

LEMMA RecallHolds ==
    ASSUME HistoryInv, History!history_up \/ History!history_down
    PROVE  HistoryInv'
<1>1. HistoryTypes /\ RecallInv
  BY DEF HistoryInv
<1>2. /\ store \in Bounded /\ store \in Stores /\ store.entries \in Seq(Kept) /\ store.draft \in Entries
      /\ store.cursor \in 0..Len(store.entries) /\ input \in Entries
  BY <1>1 DEF HistoryTypes, Bounded, Stores
<1>3. Len(store.entries) \in Nat /\ \A i \in 1..Len(store.entries) : store.entries[i] \in Entries
  BY <1>2, LenProperties, ElementOfSeq DEF Kept
<1>4. ~search.active /\ UNCHANGED <<search, cmd>>
  BY DEF History!history_up, History!history_down, History!Editing
<1>5. CASE History!history_up
  <2> DEFINE at_ == IF store.cursor = 0 THEN Len(store.entries) ELSE store.cursor - 1
             d == IF store.cursor = 0 THEN input ELSE store.draft
  <2>1. /\ at_ > 0 /\ store' = [store EXCEPT !.cursor = at_, !.draft = d]
        /\ input' = store.entries[at_]
        /\ stashed' = IF store.cursor = 0 THEN input ELSE stashed
    BY <1>5 DEF History!history_up
  <2>2. at_ \in 1..Len(store.entries) /\ at_ \in 0..Len(store.entries) /\ d \in Entries
    BY <1>2, <1>3, <2>1
  <2>3. d = stashed'
    BY <1>1, <2>1 DEF RecallInv
  <2> HIDE DEF at_, d
  <2>4. store' \in Bounded /\ store'.draft = d
    <3>1. store' = MovedTo(store, at_, d)
      BY <2>1 DEF MovedTo
    <3> QED
      BY <1>2, <2>2, <3>1, Moved
  <2>5. input' \in Entries
    BY <1>3, <2>1, <2>2
  <2> QED
    BY <1>4, <2>3, <2>4, <2>5, LineChanges
<1>6. CASE History!history_down
  <2>1. store.cursor # 0 /\ UNCHANGED stashed
    BY <1>6 DEF History!history_down
  <2>2. CASE store.cursor < Len(store.entries)
    <3>1. /\ store' = [store EXCEPT !.cursor = store.cursor + 1]
          /\ input' = store.entries[store.cursor + 1]
      BY <1>6, <2>2 DEF History!history_down
    <3>2. store.cursor + 1 \in 1..Len(store.entries) /\ store.cursor + 1 \in 0..Len(store.entries)
      BY <1>2, <1>3, <2>2
    <3>3. store' \in Bounded /\ store'.draft = store.draft
      <4>1. store' = MovedTo(store, store.cursor + 1, store.draft)
        BY <1>2, <3>1, MovedOnly
      <4> QED
        BY <1>2, <3>2, <4>1, Moved
    <3>4. input' \in Entries
      BY <1>3, <3>1, <3>2
    <3> QED
      BY <1>1, <1>4, <2>1, <3>3, <3>4, LineChanges DEF RecallInv
  <2>3. CASE ~(store.cursor < Len(store.entries))
    <3>1. store' = [store EXCEPT !.cursor = 0] /\ input' = store.draft
      BY <1>6, <2>3 DEF History!history_down
    <3>2. 0 \in 0..Len(store.entries)
      BY <1>3
    <3>3. store' \in Bounded /\ store'.cursor = 0
      <4>1. store' = MovedTo(store, 0, store.draft)
        BY <1>2, <3>1, MovedOnly
      <4> QED
        BY <1>2, <3>2, <4>1, Moved
    <3> QED
      BY <1>2, <1>4, <3>1, <3>3, LineChanges
  <2> QED
    BY <2>2, <2>3
<1> QED
  BY <1>5, <1>6

(* The search.                                                             *)
SearchRec(a, ms, i, o) == [active |-> a, matches |-> ms, index |-> i, original |-> o]

LEMMA SearchOf ==
    ASSUME NEW a \in BOOLEAN, NEW ms \in Seq(Nat), NEW i \in Nat, NEW o \in Entries
    PROVE  /\ SearchRec(a, ms, i, o) \in Searches /\ SearchRec(a, ms, i, o).active = a
           /\ SearchRec(a, ms, i, o).matches = ms /\ SearchRec(a, ms, i, o).index = i
           /\ SearchRec(a, ms, i, o).original = o
  BY DEF Searches, SearchRec

LEMMA SearchChanges ==
    ASSUME HistoryInv, store' = store, cmd' = cmd, stashed' = stashed, input' \in Entries,
           search' \in Searches, SearchInv'
    PROVE  HistoryInv'
<1>1. HistoryTypes' /\ RecallInv'
  BY DEF HistoryInv, HistoryTypes, RecallInv
<1>2. CycleInv'
  BY DEF HistoryInv, CycleInv, History!CycleFresh
<1> QED
  BY <1>1, <1>2 DEF HistoryInv

LEMMA SearchHolds ==
    ASSUME HistoryInv,
           \/ History!try_enter_search \/ History!SearchType \/ History!step_search_match
           \/ History!SearchCancel \/ History!SearchAccept
    PROVE  HistoryInv'
<1>1. HistoryTypes
  BY DEF HistoryInv
<1>2. /\ store \in Bounded /\ store.entries \in Seq(Kept) /\ input \in Entries /\ search \in Searches
  BY <1>1 DEF HistoryTypes, Bounded, Stores
<1>3. Len(store.entries) \in Nat /\ \A i \in 1..Len(store.entries) : store.entries[i] \in Entries
  BY <1>2, LenProperties, ElementOfSeq DEF Kept
<1>4. /\ search.active \in BOOLEAN /\ search.matches \in Seq(Nat) /\ search.index \in Nat
      /\ search.original \in Entries
  BY <1>2 DEF Searches
<1>5. Len(search.matches) \in Nat /\ (search.matches = <<>> <=> Len(search.matches) = 0)
  BY <1>4, LenProperties, NothingLeft
<1>6. CASE History!try_enter_search
  <2>1. /\ ~cmd.open /\ search' = [History!NoSearch EXCEPT !.active = TRUE, !.original = input]
        /\ UNCHANGED <<store, input, cmd, stashed>>
    BY <1>6 DEF History!try_enter_search, History!Editing
  <2>2. search' = SearchRec(TRUE, History!NoSearch.matches, History!NoSearch.index, input)
    BY <2>1, NoSearchIs DEF Searches, SearchRec
  <2>3. /\ search' \in Searches /\ search'.active = TRUE /\ search'.matches = History!NoSearch.matches
        /\ search'.original = input
    <3>1. History!NoSearch.matches \in Seq(Nat) /\ History!NoSearch.index \in Nat
      BY NoSearchIs DEF Searches
    <3>2. PICK a \in BOOLEAN : a = TRUE
      OBVIOUS
    <3>3. search' = SearchRec(a, History!NoSearch.matches, History!NoSearch.index, input)
      BY <2>2, <3>2, Zenon
    <3>4. search' \in Searches /\ search'.active = a /\ search'.matches = History!NoSearch.matches
          /\ search'.original = input
      BY <1>2, <3>1, <3>3, SearchOf
    <3> QED
      BY <3>2, <3>4, Zenon
  <2>4. search'.matches = <<>> /\ Len(search'.matches) = 0
    BY <2>3, NoSearchIs
  <2>5. SearchInv'
    BY <2>1, <2>3, <2>4 DEF SearchInv
  <2> QED
    BY <1>2, <2>1, <2>3, <2>5, SearchChanges
<1>7. CASE History!SearchType
  <2>1. PICK p \in Patterns :
          /\ search.active /\ search' = [search EXCEPT !.matches = History!Hits(store.entries, p), !.index = 1]
          /\ input' = History!Preview(History!Hits(store.entries, p), 1)
          /\ UNCHANGED <<store, cmd, stashed>>
    BY <1>7 DEF History!SearchType
  <2> DEFINE hs == History!Hits(store.entries, p)
  <2>2. hs \in Seq(Nat) /\ Len(hs) \in Nat /\ \A i \in 1..Len(hs) : hs[i] \in 1..Len(store.entries)
    BY <1>2, HitsAre
  <2>3. search' = [search EXCEPT !.matches = hs, !.index = 1] /\ input' = History!Preview(hs, 1)
    BY <2>1
  <2> HIDE DEF hs
  <2>4. search' = SearchRec(search.active, hs, 1, search.original)
    BY <1>2, <2>3 DEF Searches, SearchRec
  <2>5. /\ search' \in Searches /\ search'.matches = hs /\ search'.index = 1
        /\ search'.original = search.original
    BY <1>4, <2>2, <2>4, SearchOf
  <2>6. hs = <<>> <=> Len(hs) = 0
    BY <2>2, NothingLeft
  <2>7. IF hs = <<>> THEN input' = search.original ELSE 1 \in 1..Len(hs) /\ input' = store.entries[hs[1]]
    BY <2>2, <2>3, <2>6 DEF History!Preview
  <2>8. input' \in Entries
    BY <1>3, <1>4, <2>2, <2>7
  <2>9. ~cmd.open
    BY <2>1 DEF HistoryInv, SearchInv
  <2>10. SearchInv'
    BY <2>1, <2>2, <2>5, <2>7, <2>9 DEF SearchInv
  <2> QED
    BY <2>1, <2>5, <2>8, <2>10, SearchChanges
<1>8. CASE History!step_search_match
  <2>1. PICK backward \in BOOLEAN :
          /\ search.active /\ search.matches # <<>>
          /\ search' = [search EXCEPT !.index = History!NextMatch(search.index, Len(search.matches), backward)]
          /\ input' = IF History!NextMatch(search.index, Len(search.matches), backward) \in DOMAIN search.matches
                      THEN History!Preview(search.matches,
                                           History!NextMatch(search.index, Len(search.matches), backward))
                      ELSE input
          /\ UNCHANGED <<store, cmd, stashed>>
    BY <1>8 DEF History!step_search_match
  <2> DEFINE k == History!NextMatch(search.index, Len(search.matches), backward)
  <2>2. /\ search.index \in 1..Len(search.matches) /\ ~cmd.open
        /\ \A i \in 1..Len(search.matches) : search.matches[i] \in 1..Len(store.entries)
    BY <2>1 DEF HistoryInv, SearchInv
  <2>3. k \in 1..Len(search.matches)
    BY <1>5, <2>2 DEF History!NextMatch
  <2>4. DOMAIN search.matches = 1..Len(search.matches)
    BY <1>4, LenProperties
  <2>5. search' = [search EXCEPT !.index = k] /\ input' = History!Preview(search.matches, k)
    BY <2>1, <2>3, <2>4, Zenon
  <2> HIDE DEF k
  <2>6. input' = store.entries[search.matches[k]]
    BY <2>1, <2>5 DEF History!Preview
  <2>7. search' = SearchRec(search.active, search.matches, k, search.original)
    BY <1>2, <2>5 DEF Searches, SearchRec
  <2>8. k \in Nat
    BY <1>5, <2>3
  <2>9. /\ search' \in Searches /\ search'.matches = search.matches /\ search'.index = k
    BY <1>4, <2>7, <2>8, SearchOf
  <2>10. input' \in Entries
    BY <1>3, <2>2, <2>3, <2>6
  <2>11. SearchInv'
    BY <2>1, <2>2, <2>3, <2>6, <2>9 DEF SearchInv
  <2> QED
    BY <2>1, <2>9, <2>10, <2>11, SearchChanges
<1>9. CASE History!SearchCancel \/ History!SearchAccept
  <2>1. /\ search' = [search EXCEPT !.active = FALSE, !.matches = <<>>]
        /\ input' \in {search.original, input} /\ UNCHANGED <<store, cmd, stashed>>
    BY <1>9 DEF History!SearchCancel, History!SearchAccept
  <2>2. search' = SearchRec(FALSE, <<>>, search.index, search.original)
    BY <1>2, <2>1 DEF Searches, SearchRec
  <2>3. search' \in Searches /\ search'.active = FALSE
    <3>1. PICK none \in Seq(Nat) : none = <<>>
      <4>1. <<>> \in Seq(Nat)
        OBVIOUS
      <4> QED
        BY <4>1, Zenon
    <3>2. PICK a \in BOOLEAN : a = FALSE
      OBVIOUS
    <3>3. search' = SearchRec(a, none, search.index, search.original)
      BY <2>2, <3>1, <3>2, Zenon
    <3>4. a \in BOOLEAN /\ none \in Seq(Nat)
      BY <3>1, <3>2
    <3>5. search' \in Searches /\ search'.active = a
      <4>1. PICK i \in Nat, o \in Entries : i = search.index /\ o = search.original
        BY <1>4
      <4>2. SearchRec(a, none, i, o) \in Searches /\ SearchRec(a, none, i, o).active = a
        BY <3>4, SearchOf
      <4> QED
        BY <3>3, <4>1, <4>2, Zenon
    <3> QED
      BY <3>2, <3>5, Zenon
  <2>4. SearchInv'
    BY <2>3 DEF SearchInv
  <2> QED
    BY <1>2, <1>4, <2>1, <2>3, <2>4, SearchChanges
<1> QED
  BY <1>6, <1>7, <1>8, <1>9

(* The command line.                                                       *)
CommandRec(o, b, c) == [open |-> o, buf |-> b, cycle |-> c]

LEMMA CommandOf ==
    ASSUME NEW o \in BOOLEAN, NEW b \in Entries, NEW c \in Cycles
    PROVE  /\ CommandRec(o, b, c) \in CommandLines /\ CommandRec(o, b, c).open = o
           /\ CommandRec(o, b, c).buf = b /\ CommandRec(o, b, c).cycle = c
  BY DEF CommandLines, CommandRec

CycleRec(b, ms, i) == [prefix |-> b, matches |-> ms, showing |-> i]

LEMMA CycleOf ==
    ASSUME NEW b \in Entries, NEW ms \in Seq(Entries), NEW i \in Nat
    PROVE  /\ CycleRec(b, ms, i) \in Cycles /\ CycleRec(b, ms, i).prefix = b
           /\ CycleRec(b, ms, i).matches = ms /\ CycleRec(b, ms, i).showing = i
  BY DEF Cycles, CycleRec

LEMMA CommandChanges ==
    ASSUME HistoryInv, ~search.active, UNCHANGED <<store, input, search, stashed>>,
           cmd' \in CommandLines, CycleInv'
    PROVE  HistoryInv'
<1>1. HistoryTypes' /\ RecallInv' /\ SearchInv'
  BY DEF HistoryInv, HistoryTypes, RecallInv, SearchInv
<1> QED
  BY <1>1 DEF HistoryInv

LEMMA CommandHolds ==
    ASSUME HistoryInv,
           History!OpenCommand \/ History!CommandType \/ History!CommandEscape
    PROVE  HistoryInv'
<1>1. /\ ~search.active /\ UNCHANGED <<store, input, search, stashed>>
      /\ cmd' \in CommandLines /\ cmd'.cycle = History!NoCycle
  <2>1. CASE History!OpenCommand
    <3>1. /\ ~search.active /\ cmd' = [History!Closed EXCEPT !.open = TRUE]
          /\ UNCHANGED <<store, input, search, stashed>>
      BY <2>1 DEF History!OpenCommand, History!Editing
    <3>2. cmd' \in CommandLines /\ cmd'.cycle = History!Closed.cycle
      BY <3>1, ClosedIs DEF CommandLines
    <3> QED
      BY <3>1, <3>2, ClosedIs
  <2>2. CASE History!CommandType
    <3>1. PICK b \in Buffers : /\ cmd.open /\ cmd' = CommandRec(TRUE, b, History!NoCycle)
                               /\ UNCHANGED <<store, input, search, stashed>>
      BY <2>2 DEF History!CommandType, CommandRec
    <3>2. b \in Entries
      BY <3>1, HistoryAssumption
    <3>3. cmd' \in CommandLines /\ cmd'.cycle = History!NoCycle
      BY <3>1, <3>2, NoCycleIs, CommandOf, ZenonT(60)
    <3> QED
      BY <3>1, <3>3 DEF HistoryInv, SearchInv
  <2>3. CASE History!CommandEscape
    <3>1. cmd.open /\ cmd' = History!Closed /\ UNCHANGED <<store, input, search, stashed>>
      BY <2>3 DEF History!CommandEscape
    <3> QED
      BY <3>1, ClosedIs DEF HistoryInv, SearchInv
  <2> QED
    BY <2>1, <2>2, <2>3
<1>2. cmd'.cycle.showing <= Len(cmd'.cycle.matches)
  BY <1>1, NoCycleFresh
<1>3. CycleInv'
  BY <1>1, <1>2 DEF CycleInv, History!CycleFresh
<1> QED
  BY <1>1, <1>3, CommandChanges

LEMMA TabHolds == ASSUME HistoryInv, History!cycle_command_completion PROVE HistoryInv'
<1>1. HistoryTypes /\ CycleInv
  BY DEF HistoryInv
<1>2. cmd \in CommandLines /\ cmd.buf \in Entries /\ cmd.cycle \in Cycles
  BY <1>1 DEF HistoryTypes, CommandLines
<1> DEFINE c == IF cmd.cycle = History!NoCycle
                THEN CycleRec(cmd.buf, History!Candidates(cmd.buf), 0)
                ELSE cmd.cycle
<1>3. PICK reverse \in BOOLEAN :
        /\ cmd.open
        /\ cmd' = IF c.matches = <<>> THEN [cmd EXCEPT !.cycle = c]
                  ELSE [open |-> TRUE,
                        cycle |-> [c EXCEPT !.showing = History!Turn(c.showing, Len(c.matches), reverse)],
                        buf |-> IF History!Turn(c.showing, Len(c.matches), reverse) = 0 THEN c.prefix
                                ELSE c.matches[History!Turn(c.showing, Len(c.matches), reverse)]]
        /\ UNCHANGED <<store, input, search, stashed>>
  BY DEF History!cycle_command_completion, CycleRec
<1>c. c = IF cmd.cycle = History!NoCycle THEN CycleRec(cmd.buf, History!Candidates(cmd.buf), 0) ELSE cmd.cycle
  OBVIOUS
<1> HIDE DEF c
<1>4. /\ c \in Cycles /\ c.showing <= Len(c.matches)
      /\ cmd.buf = IF c.showing = 0 THEN c.prefix ELSE c.matches[c.showing]
  <2>1. CASE cmd.cycle = History!NoCycle
    <3>1. History!Candidates(cmd.buf) \in Seq(Entries)
      BY HistoryAssumption, PickedIs DEF History!Candidates
    <3>2. c = CycleRec(cmd.buf, History!Candidates(cmd.buf), 0)
      BY <1>c, <2>1
    <3>3. /\ c \in Cycles /\ c.prefix = cmd.buf /\ c.showing = 0 /\ c.matches = History!Candidates(cmd.buf)
      BY <1>2, <3>1, <3>2, CycleOf
    <3>4. Len(c.matches) \in Nat
      BY <3>1, <3>3, LenProperties
    <3> QED
      BY <3>3, <3>4
  <2>2. CASE cmd.cycle # History!NoCycle
    BY <1>1, <1>2, <1>c, <2>2 DEF CycleInv, History!CycleFresh
  <2> QED
    BY <2>1, <2>2
<1>5. /\ c.prefix \in Entries /\ c.matches \in Seq(Entries) /\ c.showing \in Nat /\ Len(c.matches) \in Nat
      /\ \A i \in 1..Len(c.matches) : c.matches[i] \in Entries
  BY <1>4, LenProperties, ElementOfSeq DEF Cycles
<1>6. ~search.active
  BY <1>3 DEF HistoryInv, SearchInv
<1>7. CASE c.matches = <<>>
  <2>1. cmd' = [cmd EXCEPT !.cycle = c]
    BY <1>3, <1>7
  <2>2. cmd' \in CommandLines /\ cmd'.cycle = c /\ cmd'.buf = cmd.buf /\ cmd'.open = cmd.open
    BY <1>2, <1>4, <2>1 DEF CommandLines
  <2>3. CycleInv'
    BY <1>3, <1>4, <2>2 DEF CycleInv, History!CycleFresh
  <2> QED
    BY <1>3, <1>6, <2>2, <2>3, CommandChanges
<1>8. CASE c.matches # <<>>
  <2> DEFINE i == History!Turn(c.showing, Len(c.matches), reverse)
             b == IF i = 0 THEN c.prefix ELSE c.matches[i]
  <2>1. i \in 0..Len(c.matches)
    BY <1>4, <1>5 DEF History!Turn
  <2>2. cmd' = [open |-> TRUE, cycle |-> [c EXCEPT !.showing = i], buf |-> b]
    BY <1>3, <1>8
  <2> HIDE DEF i
  <2>3. b \in Entries /\ i \in Nat
    BY <1>5, <2>1
  <2>4. PICK e : e = [c EXCEPT !.showing = i]
    OBVIOUS
  <2>5. e \in Cycles /\ e.showing = i /\ e.matches = c.matches /\ e.prefix = c.prefix
    BY <1>4, <2>3, <2>4 DEF Cycles
  <2>6. b = IF i = 0 THEN c.prefix ELSE c.matches[i]
    OBVIOUS
  <2> HIDE DEF b
  <2>7. cmd' = CommandRec(TRUE, b, e)
    BY <2>2, <2>4 DEF CommandRec
  <2>8. cmd' \in CommandLines /\ cmd'.open = TRUE /\ cmd'.buf = b /\ cmd'.cycle = e
    <3>1. PICK o \in BOOLEAN : o = TRUE
      OBVIOUS
    <3>2. cmd' = CommandRec(o, b, e)
      BY <2>7, <3>1, Zenon
    <3>3. cmd' \in CommandLines /\ cmd'.open = o /\ cmd'.buf = b /\ cmd'.cycle = e
      <4>1. b \in Entries /\ e \in Cycles
        BY <2>3, <2>5
      <4>2. /\ CommandRec(o, b, e) \in CommandLines /\ CommandRec(o, b, e).open = o
            /\ CommandRec(o, b, e).buf = b /\ CommandRec(o, b, e).cycle = e
        BY <4>1, CommandOf
      <4> QED
        BY <3>2, <4>2, Zenon
    <3> QED
      BY <3>1, <3>3, Zenon
  <2>9. CycleInv'
    <3>1. i <= Len(c.matches)
      BY <1>5, <2>1
    <3> QED
      BY <2>5, <2>6, <2>8, <3>1 DEF CycleInv, History!CycleFresh
  <2> QED
    BY <1>3, <1>6, <2>8, <2>9, CommandChanges
<1> QED
  BY <1>7, <1>8

(* What the next session reads of the file the last one wrote.             *)
LEMMA Reread ==
    ASSUME store \in Bounded
    PROVE  History!Loaded(History!save_history) \in Bounded /\ History!Loaded(History!save_history).cursor = 0
<1> DEFINE f == History!save_history
<1>1. store.entries \in Seq(Kept) /\ store.entries \in Seq(Entries) /\ Len(store.entries) \in Nat
  BY LenProperties, SeqMonotonic DEF Bounded, Stores, Kept
<1>2. f \in Seq(Entries)
  <2>1. Len(store.entries) \in 0..Len(store.entries)
    BY <1>1
  <2> QED
    BY <1>1, <2>1, SavesRun DEF History!save_history
<1> HIDE DEF f
<1>3. Len(f) \in Nat /\ Len(f) \in 0..Len(f) /\ History!Beyond(f) \in Nat
  <2>1. Len(f) \in Nat /\ MaxHistory \in Nat
    BY <1>2, LenProperties, HistoryAssumption
  <2> QED
    BY <2>1 DEF History!Beyond
<1>4. \A n \in 0..Len(f) : /\ History!Loads(f, History!Beyond(f))[n] \in Bounded
                            /\ History!Loads(f, History!Beyond(f))[n].cursor = 0
  BY <1>2, <1>3, LoadsRun
<1>5. History!Loaded(f) \in Bounded /\ History!Loaded(f).cursor = 0
  BY <1>3, <1>4 DEF History!Loaded
<1> QED
  BY <1>5 DEF f

LEMMA HistoryQuits == ASSUME HistoryInv, History!Quit PROVE HistoryInv'
<1>1. /\ ~search.active /\ store' = History!Loaded(History!save_history) /\ input' = Blank
      /\ search' = History!NoSearch /\ UNCHANGED <<cmd, stashed>>
  BY DEF History!Quit, History!Editing
<1>2. store' \in Bounded /\ store'.cursor = 0
  BY <1>1, Reread DEF HistoryInv, HistoryTypes
<1>3. HistoryTypes'
  BY <1>1, <1>2, NoSearchIs, HistoryAssumption DEF HistoryInv, HistoryTypes
<1>4. RecallInv' /\ SearchInv'
  BY <1>1, <1>2, NoSearchIs DEF RecallInv, SearchInv
<1>5. CycleInv'
  BY <1>1 DEF HistoryInv, CycleInv, History!CycleFresh
<1> QED
  BY <1>3, <1>4, <1>5 DEF HistoryInv

LEMMA HistoryStep == HistoryInv /\ [History!Next]_historyVars => HistoryInv'
<1> SUFFICES ASSUME HistoryInv, [History!Next]_historyVars PROVE HistoryInv'
  OBVIOUS
<1>1. CASE UNCHANGED historyVars
  BY <1>1 DEF historyVars, HistoryInv, HistoryTypes, RecallInv, SearchInv, CycleInv, History!CycleFresh
<1>2. CASE History!Next
  BY <1>2, KeysOfTheLine, RecallHolds, SearchHolds, CommandHolds, TabHolds, HistoryQuits, Zenon DEF History!Next
<1> QED
  BY <1>1, <1>2

(* What a step of the line must never do. *)
LEMMA LineIsSafe == HistoryInv /\ HistoryInv' /\ History!Next => History!LineSafe
<1> SUFFICES ASSUME HistoryInv, HistoryInv', History!Next PROVE History!LineSafe
  OBVIOUS
<1>1. /\ store \in Bounded /\ store.entries \in Seq(Kept) /\ input \in Entries /\ search \in Searches
      /\ store' \in Bounded /\ search' \in Searches /\ cmd \in CommandLines
  BY DEF HistoryInv, HistoryTypes, Bounded, Stores
<1>2. History!StoreOK'
  BY <1>1 DEF Bounded, Differ, History!StoreOK
<1>3. History!SearchShowsMatch'
  <2>1. DOMAIN search'.matches = 1..Len(search'.matches)
    <3>1. search'.matches \in Seq(Nat)
      BY <1>1 DEF Searches
    <3> QED
      BY <3>1, LenProperties
  <2>2. SearchInv'
    BY DEF HistoryInv
  <2> QED
    BY <2>1, <2>2, Zenon DEF SearchInv, History!SearchShowsMatch
<1>4. History!CycleFresh'
  BY DEF HistoryInv, CycleInv
<1>5. History!DraftComesBack
  <2> SUFFICES ASSUME store.cursor # 0, History!history_down, store'.cursor = 0
               PROVE  input' = stashed
    BY DEF History!DraftComesBack
  <2>1. store.draft = stashed
    BY DEF HistoryInv, RecallInv
  <2>2. CASE ~(store.cursor < Len(store.entries))
    BY <2>1, <2>2 DEF History!history_down
  <2>3. CASE store.cursor < Len(store.entries)
    <3>1. store' = [store EXCEPT !.cursor = store.cursor + 1]
      BY <2>3 DEF History!history_down
    <3>2. store.cursor \in Nat /\ store.cursor + 1 \in 0..Len(store.entries) /\ store.draft \in Entries
      BY <1>1, <2>3, LenProperties DEF Bounded, Stores
    <3>3. store'.cursor = store.cursor + 1
      <4>1. store' = MovedTo(store, store.cursor + 1, store.draft)
        BY <1>1, <3>1, MovedOnly
      <4> QED
        BY <1>1, <3>2, <4>1, Moved
    <3> QED
      BY <3>2, <3>3
  <2> QED
    BY <2>2, <2>3
<1>6. History!CancelRestores
  <2> SUFFICES ASSUME search.active, ~search'.active, ~History!SearchAccept
               PROVE  input' = search.original /\ store' = store
    BY DEF History!CancelRestores
  <2>1. ~cmd.open
    BY DEF HistoryInv, SearchInv
  <2>2. ~History!SearchType /\ ~History!step_search_match
    <3>1. ASSUME NEW ms, NEW i, search' = [search EXCEPT !.matches = ms, !.index = i] PROVE FALSE
      BY <1>1, <3>1 DEF Searches
    <3>2. ASSUME NEW i, search' = [search EXCEPT !.index = i] PROVE FALSE
      BY <1>1, <3>2 DEF Searches
    <3> QED
      BY <3>1, <3>2, Zenon DEF History!SearchType, History!step_search_match
  <2>3. ~History!Editing
    BY DEF History!Editing
  <2>4. History!SearchCancel
    BY <2>1, <2>2, <2>3, Zenon DEF History!Next, History!Submit, History!SubmitCommand, History!Type, History!history_up,
       History!history_down, History!try_enter_search, History!OpenCommand, History!CommandType,
       History!cycle_command_completion, History!CommandEnter, History!CommandEscape,
       History!Quit
  <2> QED
    BY <2>4 DEF History!SearchCancel
<1>7. History!NewestKept
  <2> SUFFICES ASSUME History!Submit
               PROVE  store'.entries # <<>> /\ store'.entries[Len(store'.entries)] = input
    BY DEF History!NewestKept, History!Last
  <2>1. input # Blank /\ store' = History!cancel_recall(History!push(store, input))
    BY DEF History!Submit
  <2>2. input \in Entries
    BY <1>1
  <2>3. History!push(store, input) \in Bounded
    BY <1>1, <2>2, PushHolds
  <2>4. store'.entries = History!push(store, input).entries
    BY <2>1, <2>3, Cancelled
  <2>5. store'.entries = History!push_raw(store.entries, input)
    BY <1>1, <2>2, <2>4, PushHolds
  <2> QED
    <3>1. Len(store.entries) <= MaxHistory /\ Differ(store.entries)
      BY <1>1 DEF Bounded
    <3> QED
      BY <1>1, <2>1, <2>2, <2>5, <3>1, PushRawHolds
<1>8. History!HistorySurvives
  <2> SUFFICES ASSUME History!Quit,
                      \A i \in DOMAIN store.entries : Written(store.entries[i]) = <<store.entries[i]>>
               PROVE  store'.entries = store.entries
    BY DEF History!HistorySurvives
  <2>1. DOMAIN store.entries = 1..Len(store.entries)
    BY <1>1, LenProperties
  <2>2. History!save_history = store.entries
    BY <1>1, <2>1, SavedLines DEF History!save_history
  <2>3. store' = History!Loaded(store.entries)
    BY <2>2 DEF History!Quit
  <2>4. Len(store.entries) <= MaxHistory /\ Differ(store.entries)
    BY <1>1 DEF Bounded
  <2> QED
    BY <1>1, <2>3, <2>4, LoadedLines
<1> QED
  BY <1>2, <1>3, <1>4, <1>5, <1>6, <1>7, <1>8 DEF History!LineSafe

-----------------------------------------------------------------------------
(***************************************************************************)
(* The line editor.  On an ASCII text every offset is a boundary, so what  *)
(* matters is that every motion ends inside the text, that what a command  *)
(* cuts out fits back in where p or P puts it, and that outside of Visual  *)
(* mode there is no anchor and outside of the command line no command.     *)
(***************************************************************************)
LEMMA MinIs ==
    ASSUME NEW S \in SUBSET Nat, S # {}
    PROVE  Vim!Min(S) \in S /\ \A x \in S : Vim!Min(S) <= x
<1>1. \E m \in S : \A i \in S : m <= i
  BY LeastOf
<1> QED
  BY <1>1, Zenon DEF Vim!Min

LEMMA MaxIs ==
    ASSUME NEW n \in Nat, NEW S \in SUBSET (0..n), S # {}
    PROVE  Vim!Max(S) \in S /\ \A x \in S : Vim!Max(S) >= x
<1> DEFINE T == {m \in 0..n : n - m \in S}
<1>1. T \in SUBSET Nat
  OBVIOUS
<1>2. T # {}
  <2>1. PICK x \in S : TRUE
    OBVIOUS
  <2>2. n - x \in 0..n /\ n - (n - x) = x
    OBVIOUS
  <2> QED
    BY <2>2
<1>3. \A x \in S : n - x \in T
  <2> SUFFICES ASSUME NEW x \in S PROVE n - x \in T
    OBVIOUS
  <2>1. n - x \in 0..n /\ n - (n - x) = x
    OBVIOUS
  <2> QED
    BY <2>1
<1>4. PICK m \in T : \A i \in T : m <= i
  <2> HIDE DEF T
  <2> QED
    BY <1>1, <1>2, LeastOf
<1>5. n - m \in S /\ \A x \in S : n - m >= x
  <2>1. m \in 0..n /\ n - m \in S
    BY <1>4
  <2>2. ASSUME NEW x \in S PROVE n - m >= x
    <3>1. m <= n - x
      BY <1>3, <1>4
    <3> QED
      BY <2>1, <3>1
  <2> QED
    BY <2>1, <2>2
<1>6. \E y \in S : \A x \in S : y >= x
  BY <1>5
<1> QED
  BY <1>6, Zenon DEF Vim!Max

(* A minimum of what lies in a range, with its end.                        *)
LEMMA MinFrom ==
    ASSUME NEW n \in Nat, NEW i \in 0..n, NEW T \in SUBSET (i..n)
    PROVE  /\ Vim!Min({n} \cup T) \in i..n
           /\ Vim!Min({n} \cup T) \in {n} \cup T
           /\ \A x \in T : Vim!Min({n} \cup T) <= x
<1> DEFINE S == {n} \cup T
<1>1. S \in SUBSET Nat /\ S # {} /\ S \subseteq i..n
  OBVIOUS
<1> HIDE DEF S
<1>2. Vim!Min(S) \in S /\ \A x \in S : Vim!Min(S) <= x
  BY <1>1, MinIs
<1>3. Vim!Min(S) \in i..n
  BY <1>1, <1>2
<1> QED
  BY <1>2, <1>3 DEF S

LEMMA MaxUpto ==
    ASSUME NEW n \in Nat, NEW T \in SUBSET (0..n)
    PROVE  /\ Vim!Max({0} \cup T) \in 0..n
           /\ Vim!Max({0} \cup T) \in {0} \cup T
           /\ \A x \in T : Vim!Max({0} \cup T) >= x
<1> DEFINE S == {0} \cup T
<1>1. S \in SUBSET (0..n) /\ S # {}
  OBVIOUS
<1> HIDE DEF S
<1>2. Vim!Max(S) \in S /\ \A x \in S : Vim!Max(S) >= x
  BY <1>1, MaxIs
<1>3. Vim!Max(S) \in 0..n
  BY <1>1, <1>2
<1> QED
  BY <1>2, <1>3 DEF S

LEMMA ShorterIs ==
    ASSUME NEW a \in Int, NEW b \in Int
    PROVE  /\ Vim!Shorter(a, b) \in Int /\ Vim!Shorter(a, b) <= a /\ Vim!Shorter(a, b) <= b
           /\ Vim!Shorter(a, b) \in {a, b}
  BY DEF Vim!Shorter

-----------------------------------------------------------------------------
(* Where the motions end, on an ASCII text.                                *)
LEMMA AllBoundaries ==
    ASSUME NEW t \in Seq(Ascii)
    PROVE  Len(t) \in Nat /\ Vim!Boundaries(t) = 0..Len(t)
<1>1. Len(t) \in Nat
  BY LenProperties
<1>2. \A i \in 1..Len(t) : t[i] # "C"
  BY ElementOfSeq DEF Ascii
<1>3. ASSUME NEW i \in 0..Len(t) PROVE Vim!is_char_boundary(t, i)
  <2>1. i < Len(t) => t[i + 1] # "C"
    BY <1>1, <1>2
  <2>2. i < Len(t) \/ i = Len(t)
    BY <1>1
  <2> QED
    BY <2>1, <2>2, Zenon DEF Vim!is_char_boundary, Vim!Byte
<1> QED
  BY <1>1, <1>3, Zenon DEF Vim!Boundaries

LEMMA LeftIs ==
    ASSUME NEW t \in Seq(Ascii), NEW c \in 0..Len(t)
    PROVE  Vim!move_left(c, t) = IF c > 0 THEN c - 1 ELSE c
<1>1. Len(t) \in Nat /\ Vim!Boundaries(t) = 0..Len(t)
  BY AllBoundaries
<1>2. ASSUME c > 0 PROVE Vim!Max({q \in Vim!Boundaries(t) : q < c}) = c - 1
  <2> DEFINE S == {q \in 0..Len(t) : q < c}
  <2>1. c - 1 \in S /\ S \in SUBSET (0..Len(t)) /\ \A q \in S : q <= c - 1
    BY <1>1, <1>2
  <2>2. S = {q \in Vim!Boundaries(t) : q < c}
    BY <1>1
  <2> HIDE DEF S
  <2>3. Vim!Max(S) \in S /\ Vim!Max(S) >= c - 1
    BY <1>1, <2>1, MaxIs
  <2>4. Vim!Max(S) <= c - 1 /\ Vim!Max(S) \in 0..Len(t)
    BY <2>1, <2>3
  <2>5. Vim!Max(S) = c - 1
    BY <1>1, <2>3, <2>4
  <2> QED
    BY <2>2, <2>5
<1> QED
  BY <1>2 DEF Vim!move_left

LEMMA RightIs ==
    ASSUME NEW t \in Seq(Ascii), NEW c \in 0..Len(t)
    PROVE  Vim!move_right(c, t) = IF c < Len(t) THEN c + 1 ELSE c
<1>1. Len(t) \in Nat /\ Vim!Boundaries(t) = 0..Len(t)
  BY AllBoundaries
<1>2. ASSUME c < Len(t) PROVE Vim!Min({q \in Vim!Boundaries(t) : q > c}) = c + 1
  <2> DEFINE S == {q \in 0..Len(t) : q > c}
  <2>1. c + 1 \in S /\ S \in SUBSET Nat /\ \A q \in S : q >= c + 1
    BY <1>1, <1>2
  <2>2. S = {q \in Vim!Boundaries(t) : q > c}
    BY <1>1
  <2> HIDE DEF S
  <2>3. Vim!Min(S) \in S /\ Vim!Min(S) <= c + 1
    BY <1>1, <2>1, MinIs
  <2>4. Vim!Min(S) >= c + 1 /\ Vim!Min(S) \in Nat
    BY <2>1, <2>3
  <2>5. Vim!Min(S) = c + 1
    BY <1>1, <2>3, <2>4
  <2> QED
    BY <2>2, <2>5
<1> QED
  BY <1>2 DEF Vim!move_right

LEMMA LineStartIs ==
    ASSUME NEW S, NEW t \in Seq(S), NEW c \in 0..Len(t)
    PROVE  Vim!move_line_start(c, t) \in 0..c
<1>1. Len(t) \in Nat /\ c \in Nat
  BY LenProperties
<1>2. {i + 1 : i \in {j \in Vim!Newlines(t) : j < c}} \in SUBSET (0..c)
  BY <1>1 DEF Vim!Newlines
<1> QED
  BY <1>1, <1>2, MaxUpto DEF Vim!move_line_start

LEMMA LineStopIs ==
    ASSUME NEW S, NEW t \in Seq(S), NEW c \in 0..Len(t)
    PROVE  Vim!LineStop(c, t) \in c..Len(t)
<1>1. Len(t) \in Nat
  BY LenProperties
<1>2. {i \in Vim!Newlines(t) : i >= c} \in SUBSET (c..Len(t))
  BY <1>1 DEF Vim!Newlines
<1> QED
  BY <1>1, <1>2, MinFrom DEF Vim!LineStop

LEMMA SkipIs ==
    ASSUME NEW S, NEW t \in Seq(S), NEW i \in 0..Len(t), NEW C
    PROVE  Vim!SkipForward(t, i, C) \in i..Len(t) /\ Vim!SkipBackward(t, i, C) \in 0..i
<1>1. Len(t) \in Nat /\ i \in Nat
  BY LenProperties
<1>2. {q \in i .. Len(t) - 1 : Vim!Byte(t, q) \notin C} \in SUBSET (i..Len(t))
  BY <1>1
<1>3. {q \in 1..i : Vim!Byte(t, q - 1) \notin C} \in SUBSET (0..i)
  BY <1>1
<1>4. Vim!SkipForward(t, i, C) \in i..Len(t)
  BY <1>1, <1>2, MinFrom DEF Vim!SkipForward
<1>5. Vim!SkipBackward(t, i, C) \in 0..i
  BY <1>1, <1>3, MaxUpto DEF Vim!SkipBackward
<1> QED
  BY <1>4, <1>5

LEMMA WordsEnd ==
    ASSUME NEW t \in Seq(Ascii), NEW c \in 0..Len(t)
    PROVE  /\ Vim!move_word_forward(c, t) \in 0..Len(t)
           /\ Vim!move_word_backward(c, t) \in 0..Len(t)
           /\ Vim!move_word_end(c, t) \in 0..Len(t)
           /\ Vim!move_word_forward_word(c, t) \in 0..Len(t)
           /\ Vim!move_word_backward_word(c, t) \in 0..Len(t)
           /\ Vim!move_word_end_word(c, t) \in 0..Len(t)
<1>1. Len(t) \in Nat /\ c \in Nat
  BY LenProperties
<1>2. \A C : \A i \in 0..Len(t) : Vim!SkipForward(t, i, C) \in i..Len(t) /\ Vim!SkipBackward(t, i, C) \in 0..i
  BY SkipIs
<1>3. \A C : \A i \in 0..Len(t) : Vim!SkipForward(t, i, C) \in 0..Len(t) /\ Vim!SkipBackward(t, i, C) \in 0..Len(t)
  BY <1>1, <1>2
<1>4. Vim!move_word_forward(c, t) \in 0..Len(t)
  BY <1>3 DEF Vim!move_word_forward
<1>5. Vim!move_word_backward(c, t) \in 0..Len(t)
  <2> DEFINE from == IF c < Len(t) THEN c ELSE Len(t) - 1
             q == Vim!SkipBackward(t, from, Vim!White)
             C == Vim!class_of(Vim!Byte(t, q - 1))
  <2>1. Vim!move_word_backward(c, t) = IF from <= 0 \/ q = 0 THEN 0 ELSE Vim!SkipBackward(t, q, C)
    BY DEF Vim!move_word_backward
  <2>2. from > 0 => from \in 0..Len(t)
    BY <1>1
  <2> HIDE DEF from, C
  <2>3. from > 0 => q \in 0..Len(t)
    BY <1>3, <2>2
  <2>4. from \in Int
    BY <1>1 DEF from
  <2> HIDE DEF q
  <2>5. from > 0 => Vim!SkipBackward(t, q, C) \in 0..Len(t)
    BY <1>3, <2>3
  <2> QED
    BY <1>1, <2>1, <2>4, <2>5
<1>6. Vim!move_word_end(c, t) \in 0..Len(t)
  <2>1. CASE c >= Len(t)
    BY <1>1, <2>1 DEF Vim!move_word_end
  <2>2. CASE c < Len(t)
    <3> DEFINE q == Vim!SkipForward(t, c + 1, Vim!White)
               C == Vim!class_of(Vim!Byte(t, q))
    <3>1. Vim!move_word_end(c, t) = IF q >= Len(t) THEN Len(t) ELSE Vim!SkipForward(t, q, C) - 1
      BY <1>1, <2>2 DEF Vim!move_word_end, Vim!RunEnd
    <3>2. c + 1 \in 0..Len(t)
      BY <1>1, <2>2
    <3> HIDE DEF C
    <3>3. q \in (c + 1)..Len(t)
      BY <1>2, <3>2
    <3> HIDE DEF q
    <3>4. q \in 0..Len(t)
      BY <1>1, <3>3
    <3>5. Vim!SkipForward(t, q, C) \in q..Len(t)
      BY <1>2, <3>4
    <3> QED
      BY <1>1, <3>1, <3>3, <3>5
  <2> QED
    BY <1>1, <2>1, <2>2
<1>7. /\ Vim!move_word_forward_word(c, t) \in 0..Len(t)
      /\ Vim!move_word_backward_word(c, t) \in 0..Len(t)
  BY <1>3 DEF Vim!move_word_forward_word, Vim!move_word_backward_word
<1>8. Vim!move_word_end_word(c, t) \in 0..Len(t)
  <2> DEFINE one == IF c < Len(t) THEN c + 1 ELSE c
             q == Vim!SkipForward(t, Vim!SkipForward(t, one, Vim!White), Vim!NotWhite)
  <2>1. Vim!move_word_end_word(c, t) = IF q > c + 1 THEN q - 1 ELSE q
    BY DEF Vim!move_word_end_word
  <2>2. one \in 0..Len(t)
    BY <1>1
  <2> HIDE DEF one
  <2>3. q \in 0..Len(t)
    BY <1>3, <2>2
  <2> HIDE DEF q
  <2> QED
    BY <1>1, <2>1, <2>3
<1> QED
  BY <1>4, <1>5, <1>6, <1>7, <1>8

LEMMA LinesEnd ==
    ASSUME NEW t \in Seq(Ascii), NEW c \in 0..Len(t)
    PROVE  /\ Vim!move_up(c, t) \in 0..Len(t)
           /\ Vim!move_down(c, t) \in 0..Len(t)
           /\ Vim!move_first_non_blank(c, t) \in 0..Len(t)
           /\ Vim!move_line_end(c, t) \in 0..Len(t)
           /\ Vim!move_to_matching_bracket(c, t) \in 0..Len(t)
<1>1. Len(t) \in Nat /\ c \in Nat
  BY LenProperties
<1>2. \A i \in 0..Len(t) : Vim!move_line_start(i, t) \in 0..i /\ Vim!LineStop(i, t) \in i..Len(t)
  BY LineStartIs, LineStopIs
<1>3. Vim!move_up(c, t) \in 0..Len(t)
  <2> DEFINE from == Vim!move_line_start(c, t)
             above == Vim!move_line_start(from - 1, t)
  <2>1. Vim!move_up(c, t) = IF from = 0 THEN c ELSE above + Vim!Shorter(c - from, from - 1 - above)
    BY DEF Vim!move_up
  <2>2. from \in 0..c
    BY <1>2
  <2> HIDE DEF from
  <2>3. from # 0 => from - 1 \in 0..Len(t)
    BY <1>1, <2>2
  <2>4. from # 0 => above \in 0..(from - 1)
    BY <1>2, <2>3
  <2> HIDE DEF above
  <2> QED
    BY <1>1, <2>1, <2>2, <2>4 DEF Vim!Shorter
<1>4. Vim!move_down(c, t) \in 0..Len(t)
  <2> DEFINE stop == Vim!LineStop(c, t)
             start == Vim!move_line_start(c, t)
             end == Vim!LineStop(stop + 1, t)
  <2>1. Vim!move_down(c, t) = IF stop = Len(t) THEN c
                              ELSE IF stop + 1 >= Len(t) THEN Len(t)
                              ELSE stop + 1 + Vim!Shorter(c - start, end - (stop + 1))
    BY DEF Vim!move_down
  <2>2. stop \in c..Len(t) /\ start \in 0..c
    BY <1>2
  <2> HIDE DEF stop, start
  <2>3. stop + 1 < Len(t) => stop + 1 \in 0..Len(t)
    BY <1>1, <2>2
  <2>4. stop + 1 < Len(t) => end \in (stop + 1)..Len(t)
    BY <1>2, <2>3
  <2> HIDE DEF end
  <2> QED
    BY <1>1, <2>1, <2>2, <2>4 DEF Vim!Shorter
<1>5. Vim!move_first_non_blank(c, t) \in 0..Len(t)
  <2> DEFINE from == Vim!move_line_start(c, t)
             hits == {i \in from .. Len(t) - 1 : Vim!Byte(t, i) # "s"}
  <2>1. Vim!move_first_non_blank(c, t) = IF hits = {} THEN from ELSE Vim!Min(hits)
    BY DEF Vim!move_first_non_blank
  <2>2. from \in 0..c
    BY <1>2
  <2> HIDE DEF from
  <2>3. hits \in SUBSET Nat /\ hits \subseteq 0..Len(t)
    BY <1>1, <2>2
  <2> HIDE DEF hits
  <2>4. hits # {} => Vim!Min(hits) \in 0..Len(t)
    BY <2>3, MinIs
  <2> QED
    BY <1>1, <2>1, <2>2, <2>4
<1>6. Vim!move_line_end(c, t) \in 0..Len(t)
  <2> DEFINE e == Vim!LineStop(c, t)
  <2>1. e \in 0..Len(t)
    BY <1>1, <1>2
  <2>2. Vim!move_line_end(c, t) = IF e = 0 THEN 0 ELSE Vim!move_left(e, t)
    <3>1. e # 0 => e > 0
      BY <1>1, <2>1
    <3> HIDE DEF e
    <3>2. Vim!move_line_end(c, t) = IF e = 0 THEN 0 ELSE Vim!Max({q \in Vim!Boundaries(t) : q < e})
      BY DEF Vim!move_line_end, e
    <3> QED
      BY <3>1, <3>2 DEF Vim!move_left
  <2> HIDE DEF e
  <2>3. Vim!move_left(e, t) = IF e > 0 THEN e - 1 ELSE e
    BY <2>1, LeftIs
  <2> QED
    BY <1>1, <2>1, <2>2, <2>3
<1>7. Vim!move_to_matching_bracket(c, t) \in 0..Len(t)
  <2> DEFINE hits == IF c >= Len(t) THEN {}
              ELSE CASE Vim!Byte(t, c) = "(" -> {q \in c + 1 .. Len(t) - 1 : Vim!Depth(t, c, q) = 0}
                     [] Vim!Byte(t, c) = ")" -> {q \in 0 .. c - 1 : Vim!Depth(t, q, c) = 0}
                     [] OTHER -> {}
  <2>1. Vim!move_to_matching_bracket(c, t) =
           IF hits = {} THEN c ELSE IF Vim!Byte(t, c) = "(" THEN Vim!Min(hits) ELSE Vim!Max(hits)
    BY DEF Vim!move_to_matching_bracket
  <2>2. hits \in SUBSET (0..Len(t))
    <3>1. CASE c >= Len(t)
      BY <1>1, <3>1
    <3>2. CASE c < Len(t)
      <4>1. ~(c >= Len(t)) /\ (c + 1 .. Len(t) - 1) \subseteq 0..Len(t) /\ (0 .. c - 1) \subseteq 0..Len(t)
        BY <1>1, <3>2
      <4>2. CASE Vim!Byte(t, c) = "("
        BY <4>1, <4>2
      <4>3. CASE Vim!Byte(t, c) = ")"
        BY <4>1, <4>3
      <4>4. CASE Vim!Byte(t, c) \notin {"(", ")"}
        BY <4>1, <4>4
      <4> QED
        BY <4>2, <4>3, <4>4
    <3> QED
      BY <1>1, <3>1, <3>2
  <2> HIDE DEF hits
  <2>3. hits # {} => Vim!Min(hits) \in 0..Len(t) /\ Vim!Max(hits) \in 0..Len(t)
    <3>1. hits \in SUBSET Nat
      BY <2>2
    <3> QED
      BY <1>1, <2>2, <3>1, MinIs, MaxIs
  <2> QED
    BY <2>1, <2>3
<1> QED
  BY <1>3, <1>4, <1>5, <1>6, <1>7

LEMMA MotionEnds ==
    ASSUME NEW t \in Seq(Ascii), NEW c \in 0..Len(t), NEW key \in Vim!MotionKeys
    PROVE  Vim!dispatch_motion(key, c, t) \in 0..Len(t)
<1>1. Len(t) \in Nat /\ c \in Nat
  BY LenProperties
<1>2. Vim!move_left(c, t) \in 0..Len(t) /\ Vim!move_right(c, t) \in 0..Len(t)
  BY <1>1, LeftIs, RightIs
<1>3. Vim!move_line_start(c, t) \in 0..Len(t)
  BY <1>1, LineStartIs
<1> QED
  BY <1>2, <1>3, WordsEnd, LinesEnd DEF Vim!MotionKeys, Vim!dispatch_motion

-----------------------------------------------------------------------------
(* Cutting out and putting in.                                             *)
LEMMA SliceIs ==
    ASSUME NEW S, NEW t \in Seq(S), NEW i \in 0..Len(t), NEW j \in i..Len(t)
    PROVE  /\ Vim!Slice(t, i, j) \in Seq(S) /\ Len(Vim!Slice(t, i, j)) = j - i
           /\ \A k \in 1..(j - i) : Vim!Slice(t, i, j)[k] = t[i + k]
<1>1. Len(t) \in Nat /\ i \in Nat /\ j \in Nat /\ i <= j /\ j <= Len(t)
  BY LenProperties
<1>2. \A k \in (i + 1)..j : t[k] \in S
  BY <1>1, ElementOfSeq
<1>3. i + 1 \in Int /\ j \in Int
  BY <1>1
<1>4. /\ SubSeq(t, i + 1, j) \in Seq(S)
      /\ Len(SubSeq(t, i + 1, j)) = IF i + 1 <= j THEN j - (i + 1) + 1 ELSE 0
      /\ \A k \in 1..(j - (i + 1) + 1) : SubSeq(t, i + 1, j)[k] = t[i + 1 + k - 1]
  BY <1>2, <1>3, SubSeqProperties
<1> DEFINE x == SubSeq(t, i + 1, j)
<1>5. x \in Seq(S) /\ Len(x) = IF i + 1 <= j THEN j - (i + 1) + 1 ELSE 0
  BY <1>4
<1>6. \A k \in 1..(j - i) : k \in 1..(j - (i + 1) + 1) /\ i + 1 + k - 1 = i + k
  BY <1>1
<1>7. \A k \in 1..(j - i) : x[k] = t[i + k]
  BY <1>4, <1>6
<1> HIDE DEF x
<1>8. Len(x) = j - i
  BY <1>1, <1>5
<1> QED
  BY <1>5, <1>7, <1>8 DEF x, Vim!Slice

LEMMA DeletedIs ==
    ASSUME NEW S, NEW t \in Seq(S), NEW i \in 0..Len(t), NEW j \in i..Len(t)
    PROVE  /\ Vim!Deleted(t, i, j) \in Seq(S) /\ Len(Vim!Deleted(t, i, j)) = Len(t) - (j - i)
           /\ \A k \in 1..i : Vim!Deleted(t, i, j)[k] = t[k]
           /\ \A k \in (i + 1)..(Len(t) - (j - i)) : Vim!Deleted(t, i, j)[k] = t[k + (j - i)]
<1> DEFINE N == Len(t)
           a == Vim!Slice(t, 0, i)
           b == Vim!Slice(t, j, N)
<1>1. N \in Nat /\ i \in Nat /\ j \in Nat /\ i <= j /\ j <= N
  BY LenProperties
<1>2. 0 \in 0..N /\ i \in 0..N /\ j \in 0..N /\ N \in j..N
  BY <1>1
<1>3. a \in Seq(S) /\ Len(a) = i - 0 /\ \A k \in 1..(i - 0) : a[k] = t[0 + k]
  BY <1>2, SliceIs
<1>4. b \in Seq(S) /\ Len(b) = N - j /\ \A k \in 1..(N - j) : b[k] = t[j + k]
  BY <1>2, SliceIs
<1>5. Len(a) = i /\ \A k \in 1..i : a[k] = t[k]
  BY <1>1, <1>3
<1> HIDE DEF a, b
<1>6. /\ a \o b \in Seq(S) /\ Len(a \o b) = Len(a) + Len(b)
      /\ \A k \in 1..(Len(a) + Len(b)) : (a \o b)[k] = IF k <= Len(a) THEN a[k] ELSE b[k - Len(a)]
  BY <1>3, <1>4, ConcatProperties
<1>7. Vim!Deleted(t, i, j) = a \o b
  BY DEF Vim!Deleted, a, b, N
<1> DEFINE x == a \o b
<1>8. x \in Seq(S) /\ Len(x) = Len(a) + Len(b) /\ Vim!Deleted(t, i, j) = x
      /\ \A k \in 1..(Len(a) + Len(b)) : x[k] = IF k <= Len(a) THEN a[k] ELSE b[k - Len(a)]
  BY <1>6, <1>7
<1> HIDE DEF x, N
<1>9. Len(x) = N - (j - i)
  BY <1>1, <1>4, <1>5, <1>8
<1>10. \A k \in 1..i : x[k] = t[k]
  BY <1>1, <1>4, <1>5, <1>8
<1>11. ASSUME NEW k \in (i + 1)..(N - (j - i)) PROVE x[k] = t[k + (j - i)]
  <2>1. k \in 1..(Len(a) + Len(b)) /\ ~(k <= Len(a)) /\ k - Len(a) \in 1..(N - j)
    BY <1>1, <1>4, <1>5
  <2>2. j + (k - Len(a)) = k + (j - i)
    BY <1>1, <1>5
  <2>3. x[k] = b[k - Len(a)] /\ b[k - Len(a)] = t[j + (k - Len(a))]
    BY <1>4, <1>8, <2>1
  <2> QED
    BY <2>2, <2>3
<1> QED
  BY <1>8, <1>9, <1>10, <1>11 DEF N

WithIn(x, S, t, i, s) ==
    /\ x \in Seq(S) /\ Len(x) = Len(t) + Len(s) /\ Len(s) \in Nat /\ Len(t) \in Nat
    /\ \A k \in 1..i : x[k] = t[k]
    /\ \A k \in (i + 1)..(i + Len(s)) : x[k] = s[k - i]
    /\ \A k \in (i + Len(s) + 1)..(Len(t) + Len(s)) : x[k] = t[k - Len(s)]

LEMMA InsertedIs ==
    ASSUME NEW S, NEW t \in Seq(S), NEW i \in 0..Len(t), NEW s \in Seq(S)
    PROVE  WithIn(Vim!Inserted(t, i, s), S, t, i, s)
<1> DEFINE N == Len(t)
           a == Vim!Slice(t, 0, i)
           b == Vim!Slice(t, i, N)
           M == Len(s)
<1>1. N \in Nat /\ i \in Nat /\ i <= N /\ M \in Nat
  BY LenProperties
<1>2. 0 \in 0..N /\ i \in 0..N /\ N \in i..N
  BY <1>1
<1>3. a \in Seq(S) /\ Len(a) = i - 0 /\ \A k \in 1..(i - 0) : a[k] = t[0 + k]
  BY <1>2, SliceIs
<1>4. b \in Seq(S) /\ Len(b) = N - i /\ \A k \in 1..(N - i) : b[k] = t[i + k]
  BY <1>2, SliceIs
<1>5. Len(a) = i /\ \A k \in 1..i : a[k] = t[k]
  BY <1>1, <1>3
<1> HIDE DEF a, b
<1> DEFINE y == a \o s
<1>6. /\ y \in Seq(S) /\ Len(y) = Len(a) + Len(s)
      /\ \A k \in 1..(Len(a) + Len(s)) : y[k] = IF k <= Len(a) THEN a[k] ELSE s[k - Len(a)]
  BY <1>3, ConcatProperties
<1>7. Vim!Inserted(t, i, s) = y \o b
  BY DEF Vim!Inserted, a, b, N
<1> HIDE DEF y
<1> DEFINE x == y \o b
<1>8. x \in Seq(S) /\ Len(x) = Len(y) + Len(b) /\ Vim!Inserted(t, i, s) = x
      /\ \A k \in 1..(Len(y) + Len(b)) : x[k] = IF k <= Len(y) THEN y[k] ELSE b[k - Len(y)]
  <2>1. y \in Seq(S) /\ b \in Seq(S)
    BY <1>4, <1>6
  <2>2. /\ y \o b \in Seq(S) /\ Len(y \o b) = Len(y) + Len(b)
        /\ \A k \in 1..(Len(y) + Len(b)) : (y \o b)[k] = IF k <= Len(y) THEN y[k] ELSE b[k - Len(y)]
    BY <2>1, ConcatProperties
  <2> QED
    BY <1>7, <2>2, Zenon
<1>9. Len(s) = M
  OBVIOUS
<1> HIDE DEF x, N, M
<1>10. Len(y) = i + M /\ Len(x) = N + M
  BY <1>1, <1>4, <1>5, <1>6, <1>8, <1>9
<1>11. \A k \in 1..i : x[k] = t[k]
  <2> SUFFICES ASSUME NEW k \in 1..i PROVE x[k] = t[k]
    OBVIOUS
  <2>1. k \in 1..(Len(y) + Len(b)) /\ k <= Len(y) /\ k \in 1..(Len(a) + Len(s)) /\ k <= Len(a)
    BY <1>1, <1>4, <1>5, <1>9, <1>10
  <2> QED
    BY <1>5, <1>6, <1>8, <2>1
<1>12. ASSUME NEW k \in (i + 1)..(i + M) PROVE x[k] = s[k - i]
  <2>1. k \in 1..(Len(y) + Len(b)) /\ k <= Len(y) /\ k \in 1..(Len(a) + Len(s)) /\ ~(k <= Len(a))
    BY <1>1, <1>4, <1>5, <1>9, <1>10
  <2> QED
    BY <1>5, <1>6, <1>8, <2>1
<1>13. ASSUME NEW k \in (i + M + 1)..(N + M) PROVE x[k] = t[k - M]
  <2>1. k \in 1..(Len(y) + Len(b)) /\ ~(k <= Len(y)) /\ k - Len(y) \in 1..(N - i)
    BY <1>1, <1>4, <1>10
  <2>2. i + (k - Len(y)) = k - M
    BY <1>1, <1>10
  <2>3. x[k] = b[k - Len(y)] /\ b[k - Len(y)] = t[i + (k - Len(y))]
    BY <1>4, <1>8, <2>1
  <2> QED
    BY <2>2, <2>3
<1> QED
  BY <1>1, <1>8, <1>10, <1>11, <1>12, <1>13 DEF N, M, WithIn

(* What was cut out and is put in at the same place gives the text back.   *)
LEMMA FitsBack ==
    ASSUME NEW S, NEW t \in Seq(S), NEW i \in 0..Len(t), NEW M \in 0..(Len(t) - i),
           NEW d \in Seq(S), Len(d) = Len(t) - M, \A k \in 1..i : d[k] = t[k],
           \A k \in (i + 1)..(Len(t) - M) : d[k] = t[k + M],
           NEW s \in Seq(S), Len(s) = M, \A k \in 1..M : s[k] = t[i + k]
    PROVE  Vim!Inserted(d, i, s) = t
<1> DEFINE x == Vim!Inserted(d, i, s)
           N == Len(t)
<1>1. N \in Nat /\ i \in Nat /\ M \in Nat /\ i + M <= N
  BY LenProperties
<1>2. Len(t) = N
  OBVIOUS
<1>3. i \in 0..Len(d)
  BY <1>1, <1>2
<1>4. /\ x \in Seq(S) /\ Len(x) = Len(d) + Len(s)
      /\ \A k \in 1..i : x[k] = d[k]
      /\ \A k \in (i + 1)..(i + Len(s)) : x[k] = s[k - i]
      /\ \A k \in (i + Len(s) + 1)..(Len(d) + Len(s)) : x[k] = d[k - Len(s)]
  <2>1. WithIn(x, S, d, i, s)
    BY <1>3, InsertedIs, Zenon
  <2> HIDE DEF x
  <2> QED
    BY <2>1 DEF WithIn
<1> HIDE DEF x, N
<1>5. Len(x) = N
  BY <1>1, <1>2, <1>4
<1>6. ASSUME NEW k \in 1..N PROVE x[k] = t[k]
  <2>1. CASE k \in 1..i
    BY <1>4, <2>1
  <2>2. CASE k \in (i + 1)..(i + M)
    <3>1. k - i \in 1..M /\ i + (k - i) = k
      BY <1>1, <2>2
    <3>2. x[k] = s[k - i] /\ s[k - i] = t[i + (k - i)]
      BY <1>4, <2>2, <3>1
    <3> QED
      BY <3>1, <3>2
  <2>3. CASE k \in (i + M + 1)..N
    <3>1. /\ k \in (i + Len(s) + 1)..(Len(d) + Len(s)) /\ k - M + M = k
          /\ k - M \in (i + 1)..(Len(t) - M)
      BY <1>1, <1>2, <2>3
    <3>2. x[k] = d[k - M] /\ d[k - M] = t[k - M + M]
      BY <1>4, <3>1
    <3> QED
      BY <3>1, <3>2
  <2> QED
    BY <1>1, <2>1, <2>2, <2>3
<1>7. \A k \in 1..Len(x) : x[k] = t[k]
  BY <1>5, <1>6
<1>8. Len(x) = Len(t)
  BY <1>2, <1>5
<1>9. x = t
  BY <1>4, <1>7, <1>8, SeqEqual
<1> QED
  BY <1>9 DEF x

LEMMA PutBackIs ==
    ASSUME NEW S, NEW t \in Seq(S), NEW i \in 0..Len(t), NEW j \in i..Len(t)
    PROVE  Vim!Inserted(Vim!Deleted(t, i, j), i, Vim!Slice(t, i, j)) = t
<1>1. PICK d, s, M : d = Vim!Deleted(t, i, j) /\ s = Vim!Slice(t, i, j) /\ M = j - i
  OBVIOUS
<1>2. M \in 0..(Len(t) - i)
  BY <1>1, LenProperties
<1>3. /\ d \in Seq(S) /\ Len(d) = Len(t) - M /\ \A k \in 1..i : d[k] = t[k]
      /\ \A k \in (i + 1)..(Len(t) - M) : d[k] = t[k + M]
  BY <1>1, DeletedIs
<1>4. s \in Seq(S) /\ Len(s) = M /\ \A k \in 1..M : s[k] = t[i + k]
  BY <1>1, SliceIs
<1>5. Vim!Inserted(d, i, s) = t
  BY <1>2, <1>3, <1>4, FitsBack
<1> QED
  BY <1>1, <1>5

-----------------------------------------------------------------------------
(* The editor between two keys.                                            *)
Commands == [buf : Seq(Ascii), cursor : Nat]

EditorTypes ==
    /\ text \in Seq(Ascii) /\ yank \in Seq(Ascii) /\ cursor \in Nat /\ shown \in Nat
    /\ anchor \in Nat \cup {-1} /\ command \in Commands

EditorInv == EditorTypes /\ Vim!TypeOK /\ Vim!PanicsKnown

(* p or P puts back what the step took.                                    *)
PutBack == \E key \in {"p", "P"} : Vim!Inserted(text', Vim!PasteAt(key, cursor', text'), yank') = text

KeyKept == EditorInv' /\ Vim!DeletionIsRecoverable /\ Vim!CommandLeavesText

LEMMA EmptyIs == /\ Vim!Empty \in Commands /\ Vim!Empty.cursor \in Vim!Boundaries(Vim!Empty.buf)
                 /\ <<>> \in Seq(Ascii) /\ Len(<<>>) = 0
<1>1. <<>> \in Seq(Ascii) /\ Len(<<>>) = 0
  BY EmptySeq
<1>2. Vim!Boundaries(<<>>) = 0..0
  BY <1>1, AllBoundaries
<1>3. Vim!Empty \in Commands /\ Vim!Empty.cursor = 0 /\ Vim!Empty.buf = <<>>
  BY <1>1 DEF Vim!Empty, Commands
<1> QED
  BY <1>1, <1>2, <1>3

LEMMA EditorFacts ==
    ASSUME EditorInv
    PROVE  /\ text \in Seq(Ascii) /\ yank \in Seq(Ascii) /\ cursor \in Nat /\ shown \in Nat
           /\ Len(text) \in Nat /\ Vim!Boundaries(text) = 0..Len(text)
           /\ Vim!Clamped \in 0..Len(text) /\ Vim!Clamped \in Nat
           /\ mode \in Vim!Modes /\ panicked \in BOOLEAN
<1>1. EditorTypes /\ Vim!TypeOK
  BY DEF EditorInv
<1>2. text \in Seq(Ascii) /\ yank \in Seq(Ascii) /\ cursor \in Nat /\ shown \in Nat
  BY <1>1 DEF EditorTypes
<1>3. Len(text) \in Nat /\ Vim!Boundaries(text) = 0..Len(text)
  BY <1>2, AllBoundaries
<1>4. Vim!Clamped \in 0..Len(text) /\ Vim!Clamped \in Nat
  BY <1>2, <1>3 DEF Vim!Clamped, Vim!Shorter
<1> QED
  BY <1>1, <1>2, <1>3, <1>4 DEF Vim!TypeOK

(* A key outside of Visual mode and of the command line.                   *)
LEMMA PlainKey ==
    ASSUME EditorInv, mode \notin {"Visual", "CommandLine"},
           mode' \in Vim!Modes, mode' \notin {"Visual", "CommandLine"},
           anchor' \in {anchor, Vim!NoAnchor}, command' \in {command, Vim!Empty}, panicked' = FALSE,
           text' \in Seq(Ascii), yank' \in Seq(Ascii), cursor' \in Nat, shown' \in Nat,
           \/ Len(text') >= Len(text) \/ PutBack \/ Vim!Submit \/ Vim!NormalHistory
           \/ mode \in {"Insert", "ReplaceChar"}
    PROVE  KeyKept
<1>1. EditorTypes /\ Vim!TypeOK
  BY DEF EditorInv
<1>2. anchor' = Vim!NoAnchor /\ command' = Vim!Empty
  BY <1>1 DEF Vim!TypeOK
<1>3. Len(text') \in Nat /\ Len(text) \in Nat
  BY EditorFacts, LenProperties
<1>4. EditorTypes'
  BY <1>2, EmptyIs DEF EditorTypes, Vim!NoAnchor
<1>5. Vim!TypeOK'
  <2>1. anchor' <= Len(text')
    BY <1>2, <1>3 DEF Vim!NoAnchor
  <2>2. command'.cursor \in Vim!Boundaries(command'.buf)
    BY <1>2, EmptyIs
  <2> QED
    BY <1>2, <2>1, <2>2 DEF Vim!TypeOK
<1>6. Vim!PanicsKnown'
  BY DEF Vim!PanicsKnown
<1>7. Vim!DeletionIsRecoverable
  <2>1. Len(text') >= Len(text) => ~(Len(text') < Len(text))
    BY <1>3
  <2>2. mode \in {"Insert", "ReplaceChar"} => mode \notin {"Normal", "Visual"} \cup Vim!Operators
    BY DEF Vim!Operators
  <2> QED
    BY <2>1, <2>2, Zenon DEF Vim!DeletionIsRecoverable, PutBack
<1>8. Vim!CommandLeavesText
  BY DEF Vim!CommandLeavesText
<1> QED
  BY <1>4, <1>5, <1>6, <1>7, <1>8 DEF KeyKept, EditorInv

(* A deletion with the cursor where it was made, or before the end.        *)
LEMMA CutKept ==
    ASSUME EditorInv, NEW i \in 0..Len(text), NEW j \in i..Len(text), Vim!Cut(i, j),
           \E key \in {"p", "P"} : Vim!PasteAt(key, cursor', Vim!Deleted(text, i, j)) = i
    PROVE  text' \in Seq(Ascii) /\ yank' \in Seq(Ascii) /\ PutBack
<1>1. text \in Seq(Ascii)
  BY EditorFacts
<1>2. text' = Vim!Deleted(text, i, j) /\ yank' = Vim!Slice(text, i, j)
  BY DEF Vim!Cut
<1>3. text' \in Seq(Ascii) /\ yank' \in Seq(Ascii)
  BY <1>1, <1>2, DeletedIs, SliceIs
<1>4. Vim!Inserted(Vim!Deleted(text, i, j), i, Vim!Slice(text, i, j)) = text
  BY <1>1, PutBackIs
<1>5. PICK key \in {"p", "P"} : Vim!PasteAt(key, cursor', Vim!Deleted(text, i, j)) = i
  OBVIOUS
<1> QED
  BY <1>2, <1>3, <1>4, <1>5, Zenon DEF PutBack

LEMMA CutAtCursor ==
    ASSUME EditorInv, NEW i \in 0..Len(text), NEW j \in i..Len(text), Vim!Cut(i, j), cursor' = i
    PROVE  text' \in Seq(Ascii) /\ yank' \in Seq(Ascii) /\ PutBack /\ cursor' \in Nat
<1>1. Vim!PasteAt("P", cursor', Vim!Deleted(text, i, j)) = i
  BY DEF Vim!PasteAt
<1>2. cursor' \in Nat
  BY EditorFacts
<1> QED
  BY <1>1, <1>2, CutKept, Zenon

LEMMA ClampIs ==
    ASSUME NEW t \in Seq(Ascii), NEW c \in 0..Len(t)
    PROVE  /\ Vim!clamp_to_last_char(c, t) \in 0..Len(t)
           /\ t # <<>> => Vim!clamp_to_last_char(c, t) < Len(t)
<1>1. Len(t) \in Nat /\ (t = <<>> <=> Len(t) = 0)
  BY LenProperties, NothingLeft
<1>2. Vim!move_left(Len(t), t) = IF Len(t) > 0 THEN Len(t) - 1 ELSE Len(t)
  <2>1. Len(t) \in 0..Len(t)
    BY <1>1
  <2> QED
    BY <2>1, LeftIs
<1> QED
  BY <1>1, <1>2 DEF Vim!clamp_to_last_char

LEMMA NormalMoves ==
    ASSUME EditorInv, Vim!NormalMotion
    PROVE  /\ mode = "Normal" /\ ~panicked /\ UNCHANGED <<text, mode, anchor, yank, command, panicked>>
           /\ cursor' \in 0..Len(text) /\ (text # <<>> => cursor' < Len(text))
<1>1. /\ text \in Seq(Ascii) /\ Len(text) \in Nat /\ Vim!Boundaries(text) = 0..Len(text)
      /\ Vim!Clamped \in 0..Len(text)
  BY EditorFacts
<1>2. \A key : Vim!SlicesAt(key, Vim!Clamped) \subseteq Vim!Boundaries(text)
  BY <1>1 DEF Vim!SlicesAt
<1>3. PICK key \in Vim!MotionKeys :
        /\ mode = "Normal" /\ ~panicked /\ UNCHANGED <<text, mode, anchor, yank, command, panicked>>
        /\ cursor' = Vim!clamp_to_last_char(Vim!dispatch_motion(key, Vim!Clamped, text), text)
  BY <1>2 DEF Vim!NormalMotion, Vim!Slicing
<1>4. Vim!dispatch_motion(key, Vim!Clamped, text) \in 0..Len(text)
  BY <1>1, MotionEnds
<1> QED
  BY <1>1, <1>3, <1>4, ClampIs

(* The key ends outside of Visual mode and of the command line.            *)
LEMMA Settled ==
    ASSUME EditorInv, mode' \in Vim!Modes, mode' \notin {"Visual", "CommandLine"},
           anchor' = Vim!NoAnchor, command' = Vim!Empty, panicked' = FALSE,
           text' \in Seq(Ascii), yank' \in Seq(Ascii), cursor' \in Nat, shown' \in Nat,
           \/ Len(text') >= Len(text) \/ PutBack \/ mode = "CommandLine",
           mode = "CommandLine" => text' \in {text, <<>>} /\ yank' = yank
    PROVE  KeyKept
<1>1. Len(text') \in Nat /\ Len(text) \in Nat
  BY EditorFacts, LenProperties
<1>2. EditorTypes'
  BY EmptyIs DEF EditorTypes, Vim!NoAnchor
<1>3. Vim!TypeOK'
  <2>1. anchor' <= Len(text')
    BY <1>1 DEF Vim!NoAnchor
  <2>2. command'.cursor \in Vim!Boundaries(command'.buf)
    BY EmptyIs
  <2> QED
    BY <2>1, <2>2 DEF Vim!TypeOK
<1>4. Vim!PanicsKnown'
  BY DEF Vim!PanicsKnown
<1>5. Vim!DeletionIsRecoverable
  <2>1. Len(text') >= Len(text) => ~(Len(text') < Len(text))
    BY <1>1
  <2>2. mode = "CommandLine" => mode \notin {"Normal", "Visual"} \cup Vim!Operators
    BY DEF Vim!Operators
  <2> QED
    BY <2>1, <2>2, Zenon DEF Vim!DeletionIsRecoverable, PutBack
<1> QED
  BY <1>2, <1>3, <1>4, <1>5 DEF KeyKept, EditorInv, Vim!CommandLeavesText

(* A key that leaves the text and the yank buffer alone.                   *)
LEMMA TextStays ==
    ASSUME EditorInv, UNCHANGED <<text, yank>>, EditorTypes', Vim!TypeOK', Vim!PanicsKnown'
    PROVE  KeyKept
<1>1. ~(Len(text') < Len(text))
  BY EditorFacts
<1> QED
  BY <1>1 DEF KeyKept, EditorInv, Vim!DeletionIsRecoverable, Vim!CommandLeavesText

-----------------------------------------------------------------------------
(* The keys of Normal mode.                                                *)
LEMMA NormalKeys ==
    ASSUME EditorInv, shown' = cursor',
           Vim!NormalMotion \/ Vim!StartInsert \/ Vim!EnterMode
    PROVE  KeyKept
<1>1. /\ text \in Seq(Ascii) /\ yank \in Seq(Ascii) /\ Len(text) \in Nat
      /\ Vim!Boundaries(text) = 0..Len(text) /\ Vim!Clamped \in 0..Len(text) /\ Vim!Clamped \in Nat
  BY EditorFacts
<1>2. CASE Vim!NormalMotion
  <2>1. /\ mode = "Normal" /\ ~panicked /\ UNCHANGED <<text, mode, anchor, yank, command, panicked>>
        /\ cursor' \in 0..Len(text)
    BY <1>2, NormalMoves
  <2>2. cursor' \in Nat /\ Len(text') >= Len(text) /\ panicked' = FALSE /\ mode' \in Vim!Modes
    BY <1>1, <2>1, EditorFacts
  <2> QED
    BY <1>1, <2>1, <2>2, PlainKey
<1>3. CASE Vim!StartInsert
  <2>1. \A key : (IF key \in {"A", "I"} THEN {Vim!Clamped} ELSE {}) \subseteq Vim!Boundaries(text)
    BY <1>1
  <2>2. PICK key \in {"i", "a", "A", "I"} :
          /\ mode = "Normal" /\ ~panicked /\ mode' = "Insert"
          /\ UNCHANGED <<text, anchor, yank, command, panicked>>
          /\ cursor' = CASE key = "i" -> Vim!Clamped
                      [] key = "a" -> Vim!move_right(Vim!Clamped, text)
                      [] key = "A" -> Vim!move_line_end_insert(Vim!Clamped, text)
                      [] key = "I" -> Vim!move_first_non_blank(Vim!Clamped, text)
    BY <1>3, <2>1 DEF Vim!StartInsert, Vim!Slicing
  <2>3. /\ Vim!move_right(Vim!Clamped, text) \in 0..Len(text)
        /\ Vim!move_line_end_insert(Vim!Clamped, text) \in 0..Len(text)
        /\ Vim!move_first_non_blank(Vim!Clamped, text) \in 0..Len(text)
    <3>1. Vim!LineStop(Vim!Clamped, text) \in Vim!Clamped..Len(text)
      BY <1>1, LineStopIs
    <3>2. Vim!move_right(Vim!Clamped, text) \in 0..Len(text)
      BY <1>1, RightIs
    <3>3. Vim!move_first_non_blank(Vim!Clamped, text) \in 0..Len(text)
      BY <1>1, LinesEnd
    <3> QED
      BY <1>1, <3>1, <3>2, <3>3 DEF Vim!move_line_end_insert
  <2>4. cursor' \in 0..Len(text)
    BY <1>1, <2>2, <2>3
  <2>5. cursor' \in Nat /\ Len(text') >= Len(text) /\ panicked' = FALSE /\ mode' \in Vim!Modes
    BY <1>1, <2>2, <2>4, EditorFacts DEF Vim!Modes
  <2> QED
    BY <1>1, <2>2, <2>5, PlainKey
<1>4. CASE Vim!EnterMode
  <2>1. /\ mode = "Normal" /\ ~panicked /\ UNCHANGED <<text, yank, panicked>>
        /\ cursor' = Vim!Clamped /\ cursor' \in Nat
    BY <1>1, <1>4 DEF Vim!EnterMode
  <2>2. CASE mode' \in Vim!Operators \cup {"ReplaceChar"} /\ UNCHANGED <<anchor, command>>
    <3>1. mode' \in Vim!Modes /\ mode' \notin {"Visual", "CommandLine"}
      BY <2>2 DEF Vim!Modes, Vim!Operators
    <3>2. Len(text') >= Len(text) /\ panicked' = FALSE
      BY <1>1, <2>1, EditorFacts
    <3> QED
      BY <1>1, <2>1, <2>2, <3>1, <3>2, PlainKey
  <2>3. EditorTypes /\ Vim!TypeOK
    BY DEF EditorInv
  <2>4. anchor = Vim!NoAnchor /\ command = Vim!Empty
    BY <2>1, <2>3 DEF Vim!TypeOK
  <2>5. Vim!PanicsKnown'
    BY <2>1 DEF Vim!PanicsKnown
  <2>6. CASE mode' = "Visual" /\ anchor' = Vim!Clamped /\ UNCHANGED command
    <3>1. EditorTypes'
      BY <1>1, <2>1, <2>3, <2>6 DEF EditorTypes
    <3>2. anchor' <= Len(text') /\ anchor' # Vim!NoAnchor
      BY <1>1, <2>1, <2>6 DEF Vim!NoAnchor
    <3>3. Vim!TypeOK'
      BY <2>1, <2>3, <2>4, <2>6, <3>1, <3>2, EmptyIs DEF Vim!TypeOK, EditorTypes, Vim!Modes
    <3> QED
      BY <2>1, <2>5, <3>1, <3>3, TextStays
  <2>7. CASE mode' = "CommandLine" /\ command' = Vim!Empty /\ UNCHANGED anchor
    <3>1. EditorTypes'
      BY <1>1, <2>1, <2>3, <2>7, EmptyIs DEF EditorTypes
    <3>2. Vim!TypeOK'
      BY <2>1, <2>3, <2>4, <2>7, <3>1, EmptyIs DEF Vim!TypeOK, EditorTypes, Vim!Modes
    <3> QED
      BY <2>1, <2>5, <3>1, <3>2, TextStays
  <2> QED
    BY <1>4, <2>2, <2>6, <2>7 DEF Vim!EnterMode
<1> QED
  BY <1>2, <1>3, <1>4

(* A key that puts something into the text, in a plain mode.               *)
LEMMA PutsIn ==
    ASSUME EditorInv, NEW i \in 0..Len(text), NEW s \in Seq(Ascii), Vim!Insert(i, s)
    PROVE  text' \in Seq(Ascii) /\ Len(text') >= Len(text) /\ Len(text') \in Nat
<1>1. text \in Seq(Ascii) /\ text' = Vim!Inserted(text, i, s)
  BY EditorFacts DEF Vim!Insert
<1>2. WithIn(text', Ascii, text, i, s)
  BY <1>1, InsertedIs, Zenon
<1> QED
  BY <1>2, LenProperties DEF WithIn

LEMMA OneByte == <<"n">> \in Seq(Ascii) /\ Len(<<"n">>) = 1
  BY DEF Ascii

LEMMA OpensLine ==
    ASSUME EditorInv, shown' = cursor', Vim!OpenLine
    PROVE  KeyKept
<1>1. /\ text \in Seq(Ascii) /\ yank \in Seq(Ascii) /\ Len(text) \in Nat
      /\ Vim!Boundaries(text) = 0..Len(text) /\ Vim!Clamped \in 0..Len(text) /\ Vim!Clamped \in Nat
  BY EditorFacts
<1>2. {Vim!Clamped} \subseteq Vim!Boundaries(text)
  BY <1>1
<1>3. PICK nl : nl = <<"n">>
  OBVIOUS
<1>4. nl \in Seq(Ascii)
  BY <1>3, OneByte
<1> DEFINE To(key) == CASE key = "o" -> Vim!move_line_end(Vim!Clamped, text)
                       [] key = "O" -> Vim!move_line_start(Vim!Clamped, text)
                       [] key = "S-Enter" -> Vim!Clamped
<1>5. PICK key \in {"o", "O", "S-Enter"} :
        /\ mode = "Normal" /\ ~panicked
        /\ Vim!Insert(To(key), nl)
        /\ mode' = "Insert"
        /\ cursor' = IF key = "O" THEN To(key) ELSE To(key) + 1
        /\ UNCHANGED <<anchor, yank, command, panicked>>
  BY <1>2, <1>3 DEF Vim!OpenLine, Vim!Slicing
<1>6. /\ Vim!move_line_end(Vim!Clamped, text) \in 0..Len(text)
      /\ Vim!move_line_start(Vim!Clamped, text) \in 0..Len(text)
  BY <1>1, LinesEnd, LineStartIs
<1>7. To(key) \in 0..Len(text)
  BY <1>1, <1>5, <1>6
<1> HIDE DEF To
<1>8. text' \in Seq(Ascii) /\ Len(text') >= Len(text)
  BY <1>4, <1>5, <1>7, PutsIn
<1>9. cursor' \in Nat /\ panicked' = FALSE /\ mode' \in Vim!Modes
  BY <1>1, <1>5, <1>7, EditorFacts DEF Vim!Modes
<1> QED
  BY <1>1, <1>5, <1>8, <1>9, PlainKey

LEMMA DeletesChar ==
    ASSUME EditorInv, shown' = cursor', Vim!delete_char
    PROVE  KeyKept
<1> DEFINE c == Vim!Clamped
<1>1. /\ text \in Seq(Ascii) /\ yank \in Seq(Ascii) /\ Len(text) \in Nat
      /\ Vim!Boundaries(text) = 0..Len(text) /\ c \in 0..Len(text) /\ c \in Nat
  BY EditorFacts
<1>2. (IF c < Len(text) THEN {c} ELSE {}) \subseteq Vim!Boundaries(text)
  BY <1>1
<1>3. /\ mode \in {"Normal", "Insert"} /\ ~panicked /\ UNCHANGED <<mode, anchor, command, panicked>>
      /\ IF c < Len(text) THEN Vim!Cut(c, Vim!move_right(c, text)) ELSE UNCHANGED <<text, yank>>
      /\ cursor' = IF c < Len(text) /\ Vim!move_right(c, text) = Len(text) THEN Vim!move_left(c, text) ELSE c
  BY <1>2 DEF Vim!delete_char, Vim!Slicing
<1>4. /\ Vim!move_right(c, text) = (IF c < Len(text) THEN c + 1 ELSE c)
      /\ Vim!move_left(c, text) = (IF c > 0 THEN c - 1 ELSE c)
  BY <1>1, RightIs, LeftIs
<1> HIDE DEF c
<1>5. panicked' = FALSE /\ mode' \in Vim!Modes /\ mode' \notin {"Visual", "CommandLine"} /\ cursor' \in Nat
  BY <1>1, <1>3, <1>4, EditorFacts DEF Vim!Modes
<1>6. CASE ~(c < Len(text))
  <2>1. UNCHANGED <<text, yank>> /\ Len(text') >= Len(text)
    BY <1>1, <1>3, <1>6
  <2> QED
    BY <1>1, <1>3, <1>5, <2>1, PlainKey
<1>7. CASE c < Len(text)
  <2>1. PICK j \in c..Len(text) : j = c + 1 /\ Vim!Cut(c, j)
    BY <1>1, <1>3, <1>4, <1>7
  <2>2. \E key \in {"p", "P"} : Vim!PasteAt(key, cursor', Vim!Deleted(text, c, j)) = c
    <3>1. CASE j = Len(text) /\ c > 0
      <4>1. Len(Vim!Deleted(text, c, j)) = Len(text) - (j - c)
        BY <1>1, DeletedIs
      <4>2. Len(Vim!Deleted(text, c, j)) = c
        BY <1>1, <2>1, <3>1, <4>1
      <4>3. cursor' + 1 = c
        BY <1>1, <1>3, <1>4, <1>7, <2>1, <3>1
      <4>4. Vim!Shorter(c, c) = c
        BY DEF Vim!Shorter
      <4>5. Vim!PasteAt("p", cursor', Vim!Deleted(text, c, j)) = c
        BY <4>2, <4>3, <4>4 DEF Vim!PasteAt
      <4> QED
        BY <4>5
    <3>2. CASE ~(j = Len(text) /\ c > 0)
      <4>1. cursor' = c
        BY <1>1, <1>3, <1>4, <1>7, <2>1, <3>2
      <4>2. Vim!PasteAt("P", cursor', Vim!Deleted(text, c, j)) = c
        BY <4>1 DEF Vim!PasteAt
      <4> QED
        BY <4>2
    <3> QED
      BY <3>1, <3>2
  <2>3. text' \in Seq(Ascii) /\ yank' \in Seq(Ascii) /\ PutBack
    BY <1>1, <2>1, <2>2, CutKept
  <2> QED
    BY <1>3, <1>5, <2>3, PlainKey
<1> QED
  BY <1>6, <1>7

LEMMA DeletesToEnd ==
    ASSUME EditorInv, shown' = cursor', Vim!delete_to_end
    PROVE  KeyKept
<1> DEFINE c == Vim!Clamped
           end == Vim!LineStop(c, text)
<1>1. /\ text \in Seq(Ascii) /\ yank \in Seq(Ascii) /\ Len(text) \in Nat
      /\ Vim!Boundaries(text) = 0..Len(text) /\ c \in 0..Len(text) /\ c \in Nat
  BY EditorFacts
<1>2. {c} \subseteq Vim!Boundaries(text)
  BY <1>1
<1>3. PICK key \in {"D", "C"} :
        /\ mode = "Normal" /\ ~panicked /\ UNCHANGED <<anchor, command, panicked>>
        /\ IF c < end THEN Vim!Cut(c, end) ELSE UNCHANGED <<text, yank>>
        /\ mode' = (IF key = "C" THEN "Insert" ELSE mode) /\ cursor' = c
  BY <1>2 DEF Vim!delete_to_end, Vim!Slicing
<1>4. end \in c..Len(text)
  BY <1>1, LineStopIs
<1> HIDE DEF c, end
<1>5. panicked' = FALSE /\ mode' \in Vim!Modes /\ mode' \notin {"Visual", "CommandLine"} /\ cursor' \in Nat
  BY <1>1, <1>3, EditorFacts DEF Vim!Modes
<1>6. CASE ~(c < end)
  <2>1. UNCHANGED <<text, yank>> /\ Len(text') >= Len(text)
    BY <1>1, <1>3, <1>6
  <2> QED
    BY <1>1, <1>3, <1>5, <2>1, PlainKey
<1>7. CASE c < end
  <2>1. text' \in Seq(Ascii) /\ yank' \in Seq(Ascii) /\ PutBack
    BY <1>1, <1>3, <1>4, <1>7, CutAtCursor
  <2> QED
    BY <1>3, <1>5, <2>1, PlainKey
<1> QED
  BY <1>6, <1>7

LEMMA Pastes ==
    ASSUME EditorInv, shown' = cursor', Vim!Paste
    PROVE  KeyKept
<1> DEFINE c == Vim!Clamped
           To(key) == Vim!PasteAt(key, c, text)
<1>1. /\ text \in Seq(Ascii) /\ yank \in Seq(Ascii) /\ Len(text) \in Nat
      /\ Vim!Boundaries(text) = 0..Len(text) /\ c \in 0..Len(text) /\ c \in Nat
  BY EditorFacts
<1>2. \A key : To(key) \in 0..Len(text)
  <2> HIDE DEF c
  <2> QED
    BY <1>1 DEF Vim!PasteAt, Vim!Shorter
<1>3. \A key : (IF yank = <<>> THEN {} ELSE {To(key)}) \subseteq Vim!Boundaries(text)
  BY <1>1, <1>2
<1>4. PICK key \in {"p", "P"} :
        /\ mode = "Normal" /\ ~panicked /\ UNCHANGED <<mode, anchor, yank, command, panicked>>
        /\ Vim!Insert(To(key), yank)
        /\ cursor' = IF yank = <<>> THEN c
                     ELSE IF key = "p" THEN To(key) + Len(yank) - 1 ELSE To(key) + Len(yank)
  BY <1>3 DEF Vim!Paste, Vim!Slicing
<1>5. Len(yank) \in Nat /\ (yank = <<>> <=> Len(yank) = 0)
  BY <1>1, LenProperties, NothingLeft
<1> HIDE DEF c, To
<1>6. cursor' \in Nat
  BY <1>1, <1>2, <1>4, <1>5
<1>7. text' \in Seq(Ascii) /\ Len(text') >= Len(text)
  BY <1>1, <1>2, <1>4, PutsIn
<1>8. panicked' = FALSE /\ mode' \in Vim!Modes /\ mode' \notin {"Visual", "CommandLine"}
  BY <1>4, EditorFacts
<1> QED
  BY <1>1, <1>4, <1>6, <1>7, <1>8, PlainKey

-----------------------------------------------------------------------------
(* The keys of Insert mode.                                                *)
LEMMA TypesIn ==
    ASSUME EditorInv, shown' = cursor', Vim!InsertType
    PROVE  KeyKept
<1> DEFINE c == Vim!Clamped
<1>1. /\ text \in Seq(Ascii) /\ yank \in Seq(Ascii) /\ Len(text) \in Nat
      /\ Vim!Boundaries(text) = 0..Len(text) /\ c \in 0..Len(text) /\ c \in Nat
  BY EditorFacts
<1>2. {c} \subseteq Vim!Boundaries(text)
  BY <1>1
<1>3. PICK ch \in Characters \cup {<<"n">>} :
        /\ mode = "Insert" /\ ~panicked /\ UNCHANGED <<mode, anchor, yank, command, panicked>>
        /\ Vim!Insert(c, ch) /\ cursor' = c + Len(ch)
  BY <1>2 DEF Vim!InsertType, Vim!Slicing
<1>4. ch \in Seq(Ascii)
  BY OneByte, EditorAssumption
<1>5. Len(ch) \in Nat
  BY <1>4, LenProperties
<1> HIDE DEF c
<1>6. text' \in Seq(Ascii) /\ Len(text') >= Len(text)
  BY <1>1, <1>3, <1>4, PutsIn
<1>7. cursor' \in Nat /\ panicked' = FALSE /\ mode' \in Vim!Modes /\ mode' \notin {"Visual", "CommandLine"}
  BY <1>1, <1>3, <1>5, EditorFacts
<1> QED
  BY <1>1, <1>3, <1>6, <1>7, PlainKey

LEMMA Backspaces ==
    ASSUME EditorInv, shown' = cursor', Vim!Backspace
    PROVE  KeyKept
<1> DEFINE c == Vim!Clamped
           start == Vim!move_left(c, text)
<1>1. /\ text \in Seq(Ascii) /\ yank \in Seq(Ascii) /\ Len(text) \in Nat
      /\ Vim!Boundaries(text) = 0..Len(text) /\ c \in 0..Len(text) /\ c \in Nat
  BY EditorFacts
<1>2. start = IF c > 0 THEN c - 1 ELSE c
  BY <1>1, LeftIs
<1>3. start \in 0..Len(text) /\ c \in start..Len(text)
  BY <1>1, <1>2
<1>4. {start, c} \subseteq Vim!Boundaries(text)
  BY <1>1, <1>3
<1>5. /\ mode = "Insert" /\ ~panicked /\ UNCHANGED <<mode, anchor, yank, command, panicked>>
      /\ text' = Vim!Deleted(text, start, c) /\ cursor' = start
  BY <1>4 DEF Vim!Backspace, Vim!Slicing
<1> HIDE DEF c, start
<1>6. text' \in Seq(Ascii)
  BY <1>1, <1>3, <1>5, DeletedIs
<1>7. cursor' \in Nat /\ panicked' = FALSE /\ mode' \in Vim!Modes /\ mode' \notin {"Visual", "CommandLine"}
  BY <1>1, <1>3, <1>5, EditorFacts
<1> QED
  BY <1>1, <1>5, <1>6, <1>7, PlainKey

LEMMA InsertMoves ==
    ASSUME EditorInv, shown' = cursor', Vim!InsertMove \/ Vim!InsertEscape
    PROVE  KeyKept
<1> DEFINE c == Vim!Clamped
<1>1. /\ text \in Seq(Ascii) /\ yank \in Seq(Ascii) /\ Len(text) \in Nat
      /\ Vim!Boundaries(text) = 0..Len(text) /\ c \in 0..Len(text) /\ c \in Nat
  BY EditorFacts
<1>2. \A key : (IF key \in {"Left", "Right"} THEN {} ELSE {c}) \subseteq Vim!Boundaries(text)
  BY <1>1
<1>3. Vim!move_left(c, text) \in 0..Len(text) /\ Vim!move_right(c, text) \in 0..Len(text)
  BY <1>1, LeftIs, RightIs
<1>4. Vim!move_up(c, text) \in 0..Len(text) /\ Vim!move_down(c, text) \in 0..Len(text)
  BY <1>1, LinesEnd
<1>5. Vim!move_line_start(c, text) \in 0..Len(text)
  <2>1. Vim!move_line_start(c, text) \in 0..c
    BY <1>1, LineStartIs
  <2> QED
    BY <1>1, <2>1
<1>6. Vim!move_line_end_insert(c, text) \in 0..Len(text)
  <2>1. Vim!LineStop(c, text) \in c..Len(text)
    BY <1>1, LineStopIs
  <2> QED
    BY <1>1, <2>1 DEF Vim!move_line_end_insert
<1>7. CASE Vim!InsertMove
  <2>1. PICK key \in {"Left", "Right", "Up", "Down", "Home", "End"} :
          /\ mode = "Insert" /\ ~panicked /\ UNCHANGED <<text, mode, anchor, yank, command, panicked>>
          /\ cursor' = CASE key = "Left" -> Vim!move_left(c, text)
                          [] key = "Right" -> Vim!move_right(c, text)
                          [] key = "Up" -> Vim!move_up(c, text)
                          [] key = "Down" -> Vim!move_down(c, text)
                          [] key = "Home" -> Vim!move_line_start(c, text)
                          [] key = "End" -> Vim!move_line_end_insert(c, text)
    BY <1>2, <1>7 DEF Vim!InsertMove, Vim!Slicing
  <2> HIDE DEF c
  <2>2. cursor' \in 0..Len(text)
    BY <1>3, <1>4, <1>5, <1>6, <2>1
  <2>3. /\ cursor' \in Nat /\ panicked' = FALSE /\ mode' \in Vim!Modes
        /\ mode' \notin {"Visual", "CommandLine"}
    BY <1>1, <2>1, <2>2, EditorFacts
  <2> QED
    BY <1>1, <2>1, <2>3, PlainKey
<1>8. CASE Vim!InsertEscape
  <2>1. /\ mode = "Insert" /\ ~panicked /\ mode' = "Normal"
        /\ UNCHANGED <<text, anchor, yank, command, panicked>> /\ cursor' = Vim!move_left(c, text)
    BY <1>8 DEF Vim!InsertEscape
  <2> HIDE DEF c
  <2>2. /\ cursor' \in Nat /\ panicked' = FALSE /\ mode' \in Vim!Modes
        /\ mode' \notin {"Visual", "CommandLine"}
    BY <1>1, <1>3, <2>1, EditorFacts DEF Vim!Modes
  <2> QED
    BY <1>1, <2>1, <2>2, PlainKey
<1> QED
  BY <1>7, <1>8

(* The host slices at the cursor as it is: past the end that is a panic.   *)
LEMMA HostBreaksLine ==
    ASSUME EditorInv, shown' = cursor', Vim!HostNewline
    PROVE  KeyKept
<1>1. /\ text \in Seq(Ascii) /\ yank \in Seq(Ascii) /\ Len(text) \in Nat /\ cursor \in Nat
      /\ Vim!Boundaries(text) = 0..Len(text)
  BY EditorFacts
<1>2. PICK nl : nl = <<"n">> /\ nl \in Seq(Ascii)
  BY OneByte
<1>3. mode = "Insert" /\ ~panicked
  BY DEF Vim!HostNewline, Vim!Slicing
<1>4. CASE {cursor} \subseteq Vim!Boundaries(text)
  <2>1. Vim!Insert(cursor, nl) /\ cursor' = cursor + 1 /\ UNCHANGED <<mode, anchor, yank, command, panicked>>
    BY <1>2, <1>4 DEF Vim!HostNewline, Vim!Slicing
  <2>2. text' \in Seq(Ascii) /\ Len(text') >= Len(text)
    BY <1>1, <1>2, <1>4, <2>1, PutsIn
  <2>3. /\ cursor' \in Nat /\ panicked' = FALSE /\ mode' \in Vim!Modes
        /\ mode' \notin {"Visual", "CommandLine"}
    BY <1>1, <1>3, <2>1, EditorFacts
  <2> QED
    BY <1>1, <1>3, <2>1, <2>2, <2>3, PlainKey
<1>5. CASE ~({cursor} \subseteq Vim!Boundaries(text))
  <2>1. panicked' = TRUE /\ UNCHANGED <<text, cursor, mode, anchor, yank, command>>
    BY <1>5 DEF Vim!HostNewline, Vim!Slicing
  <2>2. cursor > Len(text)
    BY <1>1, <1>5
  <2>3. EditorTypes /\ Vim!TypeOK
    BY DEF EditorInv
  <2>4. EditorTypes'
    BY <2>1, <2>3 DEF EditorTypes
  <2>5. Vim!TypeOK'
    BY <1>1, <2>1, <2>3 DEF Vim!TypeOK
  <2>6. Vim!PanicsKnown'
    BY <1>3, <2>1, <2>2 DEF Vim!PanicsKnown
  <2> QED
    BY <2>1, <2>4, <2>5, <2>6, TextStays
<1> QED
  BY <1>4, <1>5

-----------------------------------------------------------------------------
(* An operator over a range of the text.                                   *)
LEMMA Operates ==
    ASSUME EditorInv, NEW i \in 0..Len(text), NEW j \in i..Len(text), NEW op \in Vim!Operators,
           Vim!apply_operator(op, i, j)
    PROVE  /\ text' \in Seq(Ascii) /\ yank' \in Seq(Ascii) /\ cursor' \in Nat
           /\ mode' \in Vim!Modes /\ mode' \notin {"Visual", "CommandLine"}
           /\ Len(text') >= Len(text) \/ PutBack
<1>1. text \in Seq(Ascii) /\ Len(text) \in Nat
  BY EditorFacts
<1>2. cursor' = i /\ cursor' \in Nat /\ mode' \in Vim!Modes /\ mode' \notin {"Visual", "CommandLine"}
  BY <1>1 DEF Vim!apply_operator, Vim!Modes
<1>3. CASE op = "Yank"
  <2>1. yank' = Vim!Slice(text, i, j) /\ text' = text
    BY <1>3 DEF Vim!apply_operator
  <2>2. yank' \in Seq(Ascii)
    BY <1>1, <2>1, SliceIs
  <2> QED
    BY <1>1, <1>2, <2>1, <2>2
<1>4. CASE op # "Yank"
  <2>1. Vim!Cut(i, j)
    BY <1>4 DEF Vim!apply_operator
  <2> QED
    BY <1>2, <2>1, CutAtCursor
<1> QED
  BY <1>3, <1>4

LEMMA OperatorEnds ==
    ASSUME EditorInv, NEW op, NEW key \in Vim!MotionKeys
    PROVE  Vim!OperatorTarget(op, key, Vim!Clamped) \in 0..Len(text)
<1> DEFINE c == Vim!Clamped
<1>1. text \in Seq(Ascii) /\ Len(text) \in Nat /\ c \in 0..Len(text)
  BY EditorFacts
<1>2. \A q \in 0..Len(text) : Vim!Past(q) \in 0..Len(text)
  BY <1>1 DEF Vim!Past
<1>3. Vim!move_word_end(c, text) \in 0..Len(text) /\ Vim!move_word_end_word(c, text) \in 0..Len(text)
  BY <1>1, WordsEnd
<1>4. Vim!dispatch_motion(key, c, text) \in 0..Len(text)
  BY <1>1, MotionEnds
<1>5. Vim!Past(Vim!move_word_end(c, text)) \in 0..Len(text) /\ Vim!Past(Vim!move_word_end_word(c, text)) \in 0..Len(text)
  BY <1>2, <1>3
<1> HIDE DEF c
<1>6. Vim!OperatorTarget(op, key, c) \in 0..Len(text)
  BY <1>4, <1>5 DEF Vim!OperatorTarget
<1> QED
  BY <1>6 DEF c

LEMMA OperatorMoves ==
    ASSUME EditorInv, shown' = cursor', Vim!OperatorMotion
    PROVE  KeyKept
<1> DEFINE c == Vim!Clamped
           To(key) == Vim!OperatorTarget(mode, key, c)
<1>1. /\ text \in Seq(Ascii) /\ yank \in Seq(Ascii) /\ Len(text) \in Nat
      /\ Vim!Boundaries(text) = 0..Len(text) /\ c \in 0..Len(text) /\ c \in Nat
  BY EditorFacts
<1>2. \A key \in Vim!MotionKeys : To(key) \in 0..Len(text)
  BY OperatorEnds
<1>3. \A key \in Vim!MotionKeys :
        Vim!SlicesAt(key, c) \cup (IF To(key) = c THEN {} ELSE {c, To(key)}) \subseteq Vim!Boundaries(text)
  <2> HIDE DEF c, To
  <2> QED
    BY <1>1, <1>2 DEF Vim!SlicesAt
<1>4. PICK key \in Vim!MotionKeys :
        /\ mode \in Vim!Operators /\ ~panicked /\ UNCHANGED <<anchor, command, panicked>>
        /\ IF To(key) = c
           THEN mode' = "Normal" /\ cursor' = c /\ UNCHANGED <<text, yank>>
           ELSE Vim!apply_operator(mode, Vim!Shorter(c, To(key)), c + To(key) - Vim!Shorter(c, To(key)))
  BY <1>3 DEF Vim!OperatorMotion, Vim!Slicing
<1>5. PICK to : to = To(key) /\ to \in 0..Len(text)
  BY <1>2
<1> HIDE DEF c, To
<1>6. mode \notin {"Visual", "CommandLine"} /\ panicked' = FALSE
  BY <1>4, EditorFacts DEF Vim!Operators
<1>7. CASE to = c
  <2>1. mode' = "Normal" /\ cursor' = c /\ UNCHANGED <<text, yank>>
    BY <1>4, <1>5, <1>7
  <2>2. cursor' \in Nat /\ mode' \in Vim!Modes /\ Len(text') >= Len(text)
    BY <1>1, <2>1 DEF Vim!Modes
  <2> QED
    BY <1>1, <1>4, <1>6, <2>1, <2>2, PlainKey
<1>8. CASE to # c
  <2>1. PICK i, j : i = Vim!Shorter(c, to) /\ j = c + to - Vim!Shorter(c, to)
    OBVIOUS
  <2>2. i \in 0..Len(text) /\ j \in i..Len(text)
    BY <1>1, <1>5, <2>1 DEF Vim!Shorter
  <2>3. Vim!apply_operator(mode, i, j)
    BY <1>4, <1>5, <1>8, <2>1
  <2>4. /\ text' \in Seq(Ascii) /\ yank' \in Seq(Ascii) /\ cursor' \in Nat
        /\ mode' \in Vim!Modes /\ mode' \notin {"Visual", "CommandLine"}
        /\ Len(text') >= Len(text) \/ PutBack
    BY <1>4, <2>2, <2>3, Operates
  <2> QED
    BY <1>4, <1>6, <2>4, PlainKey
<1> QED
  BY <1>7, <1>8

LEMMA OperatorOnLine ==
    ASSUME EditorInv, shown' = cursor', Vim!OperatorLine
    PROVE  KeyKept
<1> DEFINE c == Vim!Clamped
           start == Vim!move_line_start(c, text)
           stop == Vim!Shorter(Vim!LineStop(c, text) + 1, Len(text))
           from == IF stop = Len(text) /\ start > 0 THEN start - 1 ELSE start
<1>1. /\ text \in Seq(Ascii) /\ yank \in Seq(Ascii) /\ Len(text) \in Nat
      /\ Vim!Boundaries(text) = 0..Len(text) /\ c \in 0..Len(text) /\ c \in Nat
  BY EditorFacts
<1>2. {c} \subseteq Vim!Boundaries(text)
  BY <1>1
<1>3. Vim!LineRange(c, text).from = from /\ Vim!LineRange(c, text).to = stop
  BY DEF Vim!LineRange
<1>4. /\ mode \in Vim!Operators /\ ~panicked /\ UNCHANGED <<anchor, command, panicked>>
      /\ IF mode = "Yank"
         THEN yank' = Vim!Slice(text, start, stop) /\ cursor' = c /\ UNCHANGED text
         ELSE Vim!Cut(Vim!LineRange(c, text).from, Vim!LineRange(c, text).to)
              /\ cursor' = Vim!LineRange(c, text).from
      /\ mode' = IF mode = "Change" THEN "Insert" ELSE "Normal"
  BY <1>2 DEF Vim!OperatorLine, Vim!Slicing
<1>5. start \in 0..c /\ Vim!LineStop(c, text) \in c..Len(text)
  BY <1>1, LineStartIs, LineStopIs
<1>6. stop \in c..Len(text)
  <2> HIDE DEF c
  <2> QED
    BY <1>1, <1>5 DEF Vim!Shorter
<1> HIDE DEF stop, start, c
<1>7. from \in 0..Len(text) /\ stop \in from..Len(text) /\ start \in 0..Len(text) /\ stop \in start..Len(text)
  BY <1>1, <1>5, <1>6
<1> HIDE DEF from
<1>8. /\ mode \notin {"Visual", "CommandLine"} /\ panicked' = FALSE
      /\ mode' \in Vim!Modes /\ mode' \notin {"Visual", "CommandLine"}
  BY <1>4, EditorFacts DEF Vim!Operators, Vim!Modes
<1>9. CASE mode = "Yank"
  <2>1. yank' = Vim!Slice(text, start, stop) /\ cursor' = c /\ text' = text
    BY <1>4, <1>9
  <2>2. yank' \in Seq(Ascii)
    BY <1>1, <1>7, <2>1, SliceIs
  <2>3. cursor' \in Nat /\ Len(text') >= Len(text)
    BY <1>1, <2>1
  <2> QED
    BY <1>1, <1>4, <1>8, <2>1, <2>2, <2>3, PlainKey
<1>10. CASE mode # "Yank"
  <2>1. Vim!Cut(from, stop) /\ cursor' = from
    BY <1>3, <1>4, <1>10
  <2>2. text' \in Seq(Ascii) /\ yank' \in Seq(Ascii) /\ PutBack /\ cursor' \in Nat
    BY <1>7, <2>1, CutAtCursor
  <2> QED
    BY <1>4, <1>8, <2>2, PlainKey
<1> QED
  BY <1>9, <1>10

LEMMA Cancels ==
    ASSUME EditorInv, shown' = cursor', Vim!OperatorCancel \/ Vim!ReplaceCancel \/ Vim!VisualEscape
    PROVE  KeyKept
<1>1. /\ text \in Seq(Ascii) /\ yank \in Seq(Ascii) /\ Len(text) \in Nat /\ Vim!Clamped \in Nat
  BY EditorFacts
<1>2. /\ mode \in Vim!Operators \cup {"ReplaceChar", "Visual"} /\ ~panicked
      /\ mode' = "Normal" /\ cursor' = Vim!Clamped /\ UNCHANGED <<text, yank, command, panicked>>
      /\ mode = "Visual" => anchor' = Vim!NoAnchor
      /\ mode # "Visual" => anchor' = anchor
  BY DEF Vim!OperatorCancel, Vim!ReplaceCancel, Vim!VisualEscape, Vim!Operators
<1>3. Vim!TypeOK
  BY DEF EditorInv
<1>4. command = Vim!Empty /\ anchor' = Vim!NoAnchor
  BY <1>2, <1>3 DEF Vim!TypeOK, Vim!Operators
<1>5. mode' \in Vim!Modes /\ mode' \notin {"Visual", "CommandLine"} /\ Len(text') >= Len(text) /\ panicked' = FALSE
  BY <1>1, <1>2, EditorFacts DEF Vim!Modes
<1>6. mode # "CommandLine"
  BY <1>2 DEF Vim!Operators
<1> QED
  BY <1>1, <1>2, <1>4, <1>5, <1>6, Settled

-----------------------------------------------------------------------------
(* Visual mode, the replacement of a character and the command line.       *)
LEMMA VisualMoves ==
    ASSUME EditorInv, shown' = cursor', Vim!VisualMotion
    PROVE  KeyKept
<1> DEFINE c == Vim!Clamped
<1>1. /\ text \in Seq(Ascii) /\ yank \in Seq(Ascii) /\ Len(text) \in Nat
      /\ Vim!Boundaries(text) = 0..Len(text) /\ c \in 0..Len(text) /\ c \in Nat
  BY EditorFacts
<1>2. \A key : Vim!SlicesAt(key, c) \subseteq Vim!Boundaries(text)
  BY <1>1 DEF Vim!SlicesAt
<1>3. PICK key \in Vim!MotionKeys :
        /\ mode = "Visual" /\ ~panicked /\ UNCHANGED <<text, mode, anchor, yank, command, panicked>>
        /\ cursor' = Vim!dispatch_motion(key, c, text)
  BY <1>2 DEF Vim!VisualMotion, Vim!Slicing
<1>4. Vim!dispatch_motion(key, c, text) \in 0..Len(text)
  BY <1>1, MotionEnds
<1>5. cursor' \in Nat
  BY <1>1, <1>3, <1>4
<1>6. EditorTypes /\ Vim!TypeOK
  BY DEF EditorInv
<1>7. EditorTypes'
  BY <1>3, <1>5, <1>6 DEF EditorTypes
<1>8. Vim!TypeOK'
  BY <1>3, <1>5, <1>6 DEF Vim!TypeOK
<1>9. Vim!PanicsKnown'
  BY <1>3 DEF Vim!PanicsKnown
<1> QED
  BY <1>3, <1>7, <1>8, <1>9, TextStays

(* The end of the selection is past the text when the cursor is.           *)
LEMMA VisualOperates ==
    ASSUME EditorInv, shown' = cursor', Vim!VisualOperator
    PROVE  KeyKept
<1> DEFINE c == Vim!Clamped
           from == IF c < anchor THEN c ELSE anchor
           to == IF c < anchor THEN anchor ELSE c + 1
<1>1. /\ text \in Seq(Ascii) /\ yank \in Seq(Ascii) /\ Len(text) \in Nat
      /\ Vim!Boundaries(text) = 0..Len(text) /\ c \in 0..Len(text) /\ c \in Nat
  BY EditorFacts
<1>2. mode = "Visual" /\ ~panicked
  BY DEF Vim!VisualOperator, Vim!Slicing
<1>3. EditorTypes /\ Vim!TypeOK
  BY DEF EditorInv
<1>4. anchor \in 0..Len(text) /\ command = Vim!Empty
  BY <1>1, <1>2, <1>3 DEF EditorTypes, Vim!TypeOK, Vim!NoAnchor
<1>5. Vim!selection_range(c).from = from /\ Vim!selection_range(c).to = to
  BY DEF Vim!selection_range
<1>6. CASE {from, to} \subseteq Vim!Boundaries(text)
  <2>1. PICK op \in Vim!Operators :
          /\ Vim!apply_operator(op, from, to) /\ anchor' = Vim!NoAnchor /\ UNCHANGED <<command, panicked>>
    BY <1>5, <1>6 DEF Vim!VisualOperator, Vim!Slicing
  <2> HIDE DEF c
  <2>2. from \in 0..Len(text) /\ to \in from..Len(text)
    BY <1>1, <1>4, <1>6
  <2> HIDE DEF from, to
  <2>3. /\ text' \in Seq(Ascii) /\ yank' \in Seq(Ascii) /\ cursor' \in Nat
        /\ mode' \in Vim!Modes /\ mode' \notin {"Visual", "CommandLine"}
        /\ Len(text') >= Len(text) \/ PutBack
    BY <2>1, <2>2, Operates
  <2>4. mode # "CommandLine" /\ panicked' = FALSE
    BY <1>2, <2>1, EditorFacts
  <2> QED
    BY <1>4, <2>1, <2>3, <2>4, Settled
<1>7. CASE ~({from, to} \subseteq Vim!Boundaries(text))
  <2>1. panicked' = TRUE /\ UNCHANGED <<text, cursor, mode, anchor, yank, command>>
    BY <1>5, <1>7 DEF Vim!VisualOperator, Vim!Slicing
  <2>2. c = Len(text)
    <3> HIDE DEF c
    <3> QED
      BY <1>1, <1>4, <1>7
  <2>3. (Vim!Clamped)' = c
    BY <2>1 DEF Vim!Clamped
  <2>4. EditorTypes'
    BY <1>3, <2>1 DEF EditorTypes
  <2>5. Vim!TypeOK'
    BY <1>3, <2>1, EditorFacts DEF Vim!TypeOK
  <2>6. Vim!PanicsKnown'
    BY <1>2, <2>1, <2>2, <2>3 DEF Vim!PanicsKnown
  <2> QED
    BY <2>1, <2>4, <2>5, <2>6, TextStays
<1> QED
  BY <1>6, <1>7

LEMMA Replaces ==
    ASSUME EditorInv, shown' = cursor', Vim!ReplaceChar
    PROVE  KeyKept
<1> DEFINE c == Vim!Clamped
           e == Vim!move_right(c, text)
           rest == Vim!Deleted(text, c, e)
<1>1. /\ text \in Seq(Ascii) /\ yank \in Seq(Ascii) /\ Len(text) \in Nat
      /\ Vim!Boundaries(text) = 0..Len(text) /\ c \in 0..Len(text) /\ c \in Nat
  BY EditorFacts
<1>2. (IF c < Len(text) THEN {c} ELSE {}) \subseteq Vim!Boundaries(text)
  BY <1>1
<1>3. PICK ch \in Characters :
        /\ mode = "ReplaceChar" /\ ~panicked /\ UNCHANGED <<anchor, yank, command, panicked>>
        /\ text' = (IF c < Len(text) THEN Vim!Inserted(rest, c, ch) ELSE text)
        /\ mode' = "Normal" /\ cursor' = c
  BY <1>2 DEF Vim!ReplaceChar, Vim!Slicing
<1>4. ch \in Seq(Ascii)
  BY EditorAssumption
<1>5. e = IF c < Len(text) THEN c + 1 ELSE c
  BY <1>1, RightIs
<1> HIDE DEF c
<1>6. e \in c..Len(text)
  BY <1>1, <1>5
<1> HIDE DEF e
<1>7. rest \in Seq(Ascii) /\ Len(rest) = Len(text) - (e - c)
  BY <1>1, <1>6, DeletedIs
<1> HIDE DEF rest
<1>8. c \in 0..Len(rest)
  BY <1>1, <1>6, <1>7
<1>9. Vim!Inserted(rest, c, ch) \in Seq(Ascii)
  <2>1. PICK x : x = Vim!Inserted(rest, c, ch)
    OBVIOUS
  <2>2. WithIn(x, Ascii, rest, c, ch)
    BY <1>4, <1>7, <1>8, <2>1, InsertedIs, Zenon
  <2> QED
    BY <2>1, <2>2 DEF WithIn
<1>10. text' \in Seq(Ascii)
  BY <1>1, <1>3, <1>9
<1>11. cursor' \in Nat /\ panicked' = FALSE /\ mode' \in Vim!Modes /\ mode' \notin {"Visual", "CommandLine"}
  BY <1>1, <1>3, EditorFacts DEF Vim!Modes
<1> QED
  BY <1>1, <1>3, <1>10, <1>11, PlainKey

(* What a key of the command line leaves in its buffer.                    *)
LEMMA CommandEdits ==
    ASSUME EditorInv, Vim!handle_command_line
    PROVE  command' \in Commands /\ command'.cursor \in Vim!Boundaries(command'.buf)
<1> DEFINE b == command.buf
           c == command.cursor
<1>1. EditorTypes /\ Vim!TypeOK
  BY DEF EditorInv
<1>2. b \in Seq(Ascii) /\ c \in Vim!Boundaries(b)
  BY <1>1 DEF EditorTypes, Vim!TypeOK, Commands
<1>3. Len(b) \in Nat /\ Vim!Boundaries(b) = 0..Len(b)
  BY <1>2, AllBoundaries
<1>4. c \in 0..Len(b) /\ c \in Nat
  BY <1>2, <1>3
<1>5. /\ Vim!move_left(c, b) = (IF c > 0 THEN c - 1 ELSE c)
      /\ Vim!move_right(c, b) = (IF c < Len(b) THEN c + 1 ELSE c)
  BY <1>2, <1>4, LeftIs, RightIs
<1>6. ASSUME NEW s \in Seq(Ascii), NEW q \in 0..Len(s), command' = [buf |-> s, cursor |-> q]
      PROVE  command' \in Commands /\ command'.cursor \in Vim!Boundaries(command'.buf)
  <2>1. Len(s) \in Nat /\ Vim!Boundaries(s) = 0..Len(s)
    BY AllBoundaries
  <2>2. command'.buf = s /\ command'.cursor = q /\ q \in Nat
    BY <1>6, <2>1
  <2>3. command' \in Commands
    BY <1>6, <2>2 DEF Commands
  <2> QED
    BY <2>1, <2>2, <2>3
<1>7. CASE \E ch \in Characters : command' = [buf |-> Vim!Inserted(b, c, ch), cursor |-> c + Len(ch)]
  <2>1. PICK ch \in Characters : command' = [buf |-> Vim!Inserted(b, c, ch), cursor |-> c + Len(ch)]
    BY <1>7
  <2>2. ch \in Seq(Ascii)
    BY EditorAssumption
  <2>3. PICK x : x = Vim!Inserted(b, c, ch)
    OBVIOUS
  <2> HIDE DEF b, c
  <2>4. WithIn(x, Ascii, b, c, ch)
    BY <1>2, <1>4, <2>2, <2>3, InsertedIs, Zenon
  <2>5. x \in Seq(Ascii) /\ c + Len(ch) \in 0..Len(x)
    BY <1>4, <2>4 DEF WithIn
  <2> QED
    BY <1>6, <2>1, <2>3, <2>5
<1>8. CASE command' = [buf |-> Vim!Deleted(b, Vim!move_left(c, b), c), cursor |-> Vim!move_left(c, b)]
  <2> HIDE DEF b, c
  <2>1. PICK i : i = Vim!move_left(c, b)
    OBVIOUS
  <2>2. i \in 0..Len(b) /\ c \in i..Len(b)
    BY <1>3, <1>4, <1>5, <2>1
  <2>3. PICK x : x = Vim!Deleted(b, i, c)
    OBVIOUS
  <2>4. x \in Seq(Ascii) /\ Len(x) = Len(b) - (c - i)
    BY <1>2, <2>2, <2>3, DeletedIs
  <2>5. i \in 0..Len(x)
    BY <1>3, <2>2, <2>4
  <2> QED
    BY <1>6, <1>8, <2>1, <2>3, <2>4, <2>5
<1>9. CASE command' = [buf |-> Vim!Deleted(b, c, Vim!move_right(c, b)), cursor |-> c]
  <2> HIDE DEF b, c
  <2>1. PICK j : j = Vim!move_right(c, b)
    OBVIOUS
  <2>2. j \in c..Len(b)
    BY <1>3, <1>4, <1>5, <2>1
  <2>3. PICK x : x = Vim!Deleted(b, c, j)
    OBVIOUS
  <2>4. x \in Seq(Ascii) /\ Len(x) = Len(b) - (j - c)
    BY <1>2, <1>4, <2>2, <2>3, DeletedIs
  <2>5. c \in 0..Len(x)
    BY <1>3, <1>4, <2>2, <2>4
  <2> QED
    BY <1>6, <1>9, <2>1, <2>3, <2>4, <2>5
<1>10. CASE \E q \in {Vim!move_left(c, b), Vim!move_right(c, b), 0, Len(b)} : command' = [buf |-> b, cursor |-> q]
  <2> HIDE DEF b, c
  <2>1. PICK q \in {Vim!move_left(c, b), Vim!move_right(c, b), 0, Len(b)} : command' = [buf |-> b, cursor |-> q]
    BY <1>10
  <2>2. q \in 0..Len(b)
    BY <1>3, <1>4, <1>5
  <2> QED
    BY <1>2, <1>6, <2>1, <2>2
<1> QED
  BY <1>7, <1>8, <1>9, <1>10 DEF Vim!handle_command_line

LEMMA CommandTyped ==
    ASSUME EditorInv, shown' = cursor', Vim!handle_command_line
    PROVE  KeyKept
<1>1. Vim!Clamped \in Nat
  BY EditorFacts
<1>2. /\ mode = "CommandLine" /\ ~panicked /\ cursor' = Vim!Clamped
      /\ UNCHANGED <<text, mode, anchor, yank, panicked>>
  BY DEF Vim!handle_command_line
<1>3. EditorTypes /\ Vim!TypeOK
  BY DEF EditorInv
<1>4. command' \in Commands /\ command'.cursor \in Vim!Boundaries(command'.buf)
  BY CommandEdits
<1>5. EditorTypes'
  BY <1>1, <1>2, <1>3, <1>4 DEF EditorTypes
<1>6. Vim!TypeOK'
  BY <1>1, <1>2, <1>3, <1>4 DEF Vim!TypeOK
<1>7. Vim!PanicsKnown'
  BY <1>2 DEF Vim!PanicsKnown
<1> QED
  BY <1>2, <1>5, <1>6, <1>7, TextStays

LEMMA CommandEnds ==
    ASSUME EditorInv, Vim!CommandDone
    PROVE  KeyKept
<1>1. /\ text \in Seq(Ascii) /\ yank \in Seq(Ascii) /\ Vim!Clamped \in Nat
  BY EditorFacts
<1>2. /\ mode = "CommandLine" /\ ~panicked /\ command' = Vim!Empty /\ mode' = "Normal"
      /\ cursor' = Vim!Clamped /\ UNCHANGED <<anchor, yank, panicked>>
      /\ (text' = <<>> /\ shown' = 0) \/ (text' = text /\ shown' = cursor')
  BY DEF Vim!CommandDone, Vim!exit_command_line
<1>3. Vim!TypeOK
  BY DEF EditorInv
<1>4. anchor' = Vim!NoAnchor
  BY <1>2, <1>3 DEF Vim!TypeOK
<1>5. /\ text' \in {text, <<>>} /\ text' \in Seq(Ascii) /\ shown' \in Nat /\ cursor' \in Nat
      /\ yank' \in Seq(Ascii) /\ yank' = yank
  <2>1. text' \in {text, <<>>} /\ text' \in Seq(Ascii)
    BY <1>1, <1>2, EmptyIs, Zenon
  <2>2. shown' \in Nat /\ cursor' \in Nat
    BY <1>1, <1>2
  <2> QED
    BY <1>1, <1>2, <2>1, <2>2, Zenon
<1>6. mode' \in Vim!Modes /\ mode' \notin {"Visual", "CommandLine"} /\ panicked' = FALSE
  BY <1>2, EditorFacts DEF Vim!Modes
<1> QED
  BY <1>2, <1>4, <1>5, <1>6, Settled

-----------------------------------------------------------------------------
(* What the host does on its own.                                          *)
LEMMA HostRecalls ==
    ASSUME EditorInv, Vim!NormalHistory
    PROVE  KeyKept
<1>1. PICK t \in Recalled \cup {text} :
        /\ mode = "Normal" /\ ~panicked
        /\ text' = t /\ cursor' = Len(t) /\ shown' = cursor' /\ mode' = "Normal" /\ anchor' = Vim!NoAnchor
        /\ command' = Vim!Empty /\ UNCHANGED <<yank, panicked>>
  BY DEF Vim!NormalHistory
<1>2. text' \in Seq(Ascii) /\ yank' \in Seq(Ascii)
  BY <1>1, EditorFacts, EditorAssumption
<1>3. cursor' \in Nat /\ shown' \in Nat
  BY <1>1, <1>2, LenProperties
<1>4. mode' \in Vim!Modes /\ panicked' = FALSE
  BY <1>1, EditorFacts DEF Vim!Modes
<1> QED
  BY <1>1, <1>2, <1>3, <1>4, PlainKey

LEMMA HostSubmits ==
    ASSUME EditorInv, Vim!Submit
    PROVE  KeyKept
<1>1. /\ text \in Seq(Ascii) /\ yank \in Seq(Ascii) /\ Vim!Clamped \in Nat /\ cursor \in Nat /\ shown \in Nat
  BY EditorFacts
<1>2. /\ mode \in {"Normal", "Insert"} /\ ~panicked /\ UNCHANGED <<mode, anchor, yank, command, panicked>>
      /\ cursor' \in {Vim!Clamped, cursor}
      /\ (text' = <<>> /\ shown' = 0) \/ (text' = text /\ shown' \in {cursor', shown})
  BY DEF Vim!Submit
<1>3. text' \in Seq(Ascii) /\ yank' \in Seq(Ascii) /\ cursor' \in Nat /\ shown' \in Nat
  <2>1. text' \in Seq(Ascii)
    BY <1>1, <1>2, EmptyIs, Zenon
  <2>2. shown' \in Nat /\ cursor' \in Nat
    BY <1>1, <1>2
  <2> QED
    BY <1>1, <1>2, <2>1, <2>2, Zenon
<1>4. mode' \in Vim!Modes /\ mode' \notin {"Visual", "CommandLine"} /\ panicked' = FALSE
  BY <1>2, EditorFacts
<1> QED
  BY <1>2, <1>3, <1>4, PlainKey

(* The word that is completed is at least as long as what was typed of it. *)
LEMMA HostCompletes ==
    ASSUME EditorInv, Vim!AcceptCompletion
    PROVE  KeyKept
<1> DEFINE S == {i + 1 : i \in {j \in 0 .. shown - 1 : Vim!Byte(text, j) \in Vim!White}}
           start == Vim!Max({0} \cup S)
<1>1. /\ text \in Seq(Ascii) /\ yank \in Seq(Ascii) /\ Len(text) \in Nat /\ shown \in Nat /\ cursor \in Nat
      /\ Vim!Boundaries(text) = 0..Len(text)
  BY EditorFacts
<1>2. /\ mode # "CommandLine" /\ shown <= Len(text) /\ ~panicked
  BY DEF Vim!AcceptCompletion, Vim!Slicing
<1>3. {shown} \subseteq Vim!Boundaries(text)
  BY <1>1, <1>2
<1>4. PICK word \in Offered :
        /\ start < shown /\ Vim!IsPrefix(Vim!Slice(text, start, shown), word)
        /\ text' = Vim!Slice(text, 0, start) \o word \o Vim!Slice(text, shown, Len(text))
        /\ shown' = start + Len(word)
        /\ UNCHANGED <<cursor, mode, anchor, yank, command, panicked>>
  BY <1>3 DEF Vim!AcceptCompletion, Vim!Slicing
<1>5. start \in 0..shown
  <2>1. S \in SUBSET (0..shown)
    BY <1>1
  <2> HIDE DEF S
  <2> QED
    BY <1>1, <2>1, MaxUpto
<1> HIDE DEF start
<1>6. word \in Seq(Ascii) /\ Len(word) \in Nat
  BY EditorAssumption, LenProperties
<1>7. PICK x, y, z : /\ x = Vim!Slice(text, 0, start) /\ y = Vim!Slice(text, shown, Len(text))
                     /\ z = Vim!Slice(text, start, shown)
  OBVIOUS
<1>8. /\ 0 \in 0..Len(text) /\ start \in 0..Len(text) /\ shown \in 0..Len(text)
      /\ Len(text) \in shown..Len(text) /\ shown \in start..Len(text)
  BY <1>1, <1>2, <1>5
<1>9. x \in Seq(Ascii) /\ Len(x) = start - 0
  BY <1>1, <1>7, <1>8, SliceIs
<1>10. y \in Seq(Ascii) /\ Len(y) = Len(text) - shown
  BY <1>1, <1>7, <1>8, SliceIs
<1>11. z \in Seq(Ascii) /\ Len(z) = shown - start
  BY <1>1, <1>7, <1>8, SliceIs
<1>12. Len(z) <= Len(word)
  BY <1>4, <1>7 DEF Vim!IsPrefix
<1>13. PICK v : v = x \o word /\ v \in Seq(Ascii) /\ Len(v) = Len(x) + Len(word)
  BY <1>6, <1>9, ConcatProperties
<1>14. text' = v \o y
  BY <1>4, <1>7, <1>13
<1>15. text' \in Seq(Ascii) /\ Len(text') = Len(v) + Len(y)
  BY <1>10, <1>13, <1>14, ConcatProperties
<1>16. Len(text') >= Len(text) /\ shown' \in Nat
  BY <1>1, <1>4, <1>5, <1>6, <1>9, <1>10, <1>11, <1>12, <1>13, <1>15
<1>17. mode' \in Vim!Modes /\ mode' = mode /\ panicked' = FALSE
  BY <1>2, <1>4, EditorFacts
<1>18. CASE mode # "Visual"
  BY <1>1, <1>2, <1>4, <1>15, <1>16, <1>17, <1>18, PlainKey
<1>19. CASE mode = "Visual"
  <2>1. EditorTypes /\ Vim!TypeOK
    BY DEF EditorInv
  <2>2. EditorTypes'
    BY <1>1, <1>4, <1>15, <1>16, <2>1 DEF EditorTypes
  <2>3. anchor' <= Len(text') /\ {cursor', shown'} \subseteq Nat
    <3>1. anchor \in Nat \cup {-1} /\ anchor <= Len(text) /\ anchor' = anchor /\ cursor' = cursor
      BY <1>4, <2>1 DEF EditorTypes, Vim!TypeOK
    <3>2. Len(text') \in Nat
      BY <1>15, LenProperties
    <3> QED
      BY <1>1, <1>16, <3>1, <3>2
  <2>4. Vim!TypeOK'
    BY <1>4, <1>17, <2>1, <2>3 DEF Vim!TypeOK
  <2>5. Vim!PanicsKnown'
    BY <1>17 DEF Vim!PanicsKnown
  <2>6. ~(Len(text') < Len(text))
    BY <1>1, <1>15, <1>16, LenProperties
  <2>7. Vim!DeletionIsRecoverable /\ Vim!CommandLeavesText
    BY <1>19, <2>6 DEF Vim!DeletionIsRecoverable, Vim!CommandLeavesText
  <2> QED
    BY <2>2, <2>4, <2>5, <2>7 DEF KeyKept, EditorInv
<1> QED
  BY <1>18, <1>19

-----------------------------------------------------------------------------
LEMMA EditorInit ==
    ASSUME Vim!Init PROVE EditorInv
<1>1. EditorTypes
  BY EmptyIs DEF Vim!Init, EditorTypes, Vim!NoAnchor
<1>2. Vim!TypeOK
  <2>1. /\ mode = "Normal" /\ cursor = 0 /\ shown = 0 /\ panicked = FALSE /\ anchor = -1
        /\ command = Vim!Empty /\ text = <<>>
    BY DEF Vim!Init, Vim!NoAnchor
  <2>2. command.cursor \in Vim!Boundaries(command.buf)
    BY <2>1, EmptyIs
  <2>3. Len(text) = 0
    BY <2>1, EmptyIs, Zenon
  <2>4. anchor <= Len(text) /\ anchor = Vim!NoAnchor /\ {cursor, shown} \subseteq Nat
    BY <2>1, <2>3 DEF Vim!NoAnchor
  <2>5. mode \in Vim!Modes /\ mode # "Visual" /\ mode # "CommandLine"
    BY <2>1 DEF Vim!Modes
  <2> QED
    BY <2>1, <2>2, <2>4, <2>5, Zenon DEF Vim!TypeOK
<1>3. Vim!PanicsKnown
  BY DEF Vim!Init, Vim!PanicsKnown
<1> QED
  BY <1>1, <1>2, <1>3 DEF EditorInv

LEMMA EditorKeys ==
    ASSUME EditorInv, Vim!Next PROVE KeyKept
<1>1. CASE Vim!handle_key /\ shown' = cursor'
  BY <1>1, NormalKeys, OpensLine, DeletesChar, DeletesToEnd, Pastes, TypesIn, Backspaces, InsertMoves,
     HostBreaksLine, OperatorMoves, OperatorOnLine, Cancels, VisualMoves, VisualOperates, Replaces,
     CommandTyped, Zenon DEF Vim!handle_key
<1> QED
  BY <1>1, HostRecalls, HostSubmits, HostCompletes, CommandEnds, Zenon DEF Vim!Next

LEMMA EditorStep ==
    ASSUME EditorInv, [Vim!Next]_vimVars PROVE EditorInv'
<1>1. CASE Vim!Next
  BY <1>1, EditorKeys DEF KeyKept
<1>2. CASE UNCHANGED vimVars
  BY <1>2 DEF vimVars, EditorInv, EditorTypes, Vim!TypeOK, Vim!PanicsKnown, Vim!Clamped
<1> QED
  BY <1>1, <1>2

LEMMA KeyIsSafe ==
    ASSUME EditorInv, Vim!Next PROVE Vim!KeySafe
<1>1. KeyKept
  BY EditorKeys
<1>2. Vim!MotionOnChar
  BY NormalMoves DEF Vim!MotionOnChar
<1> QED
  BY <1>1, <1>2 DEF KeyKept, EditorInv, Vim!KeySafe

-----------------------------------------------------------------------------
(***************************************************************************)
(* The motions and the server's scans, on any text.  A loop that skips     *)
(* bytes is known by what it passes and by what it stops at.               *)
(***************************************************************************)
Bytes == Vim!White \cup Vim!NotWhite

LEMMA SkipsForward ==
    ASSUME NEW S, NEW t \in Seq(S), NEW i \in 0..Len(t), NEW C
    PROVE  LET r == Vim!SkipForward(t, i, C)
           IN  /\ r \in i..Len(t)
               /\ \A q \in i .. (r - 1) : Vim!Byte(t, q) \in C
               /\ r < Len(t) => Vim!Byte(t, r) \notin C
<1> DEFINE T == {q \in i .. Len(t) - 1 : Vim!Byte(t, q) \notin C}
           r == Vim!SkipForward(t, i, C)
<1>1. Len(t) \in Nat /\ i \in Nat
  BY LenProperties
<1>2. T \in SUBSET (i..Len(t))
  BY <1>1
<1>3. r = Vim!Min({Len(t)} \cup T)
  BY DEF Vim!SkipForward
<1> HIDE DEF T, r
<1>4. r \in i..Len(t) /\ r \in {Len(t)} \cup T /\ \A x \in T : r <= x
  BY <1>1, <1>2, <1>3, MinFrom
<1>5. ASSUME NEW q \in i .. (r - 1) PROVE Vim!Byte(t, q) \in C
  <2>1. q \notin T /\ q \in i .. Len(t) - 1
    BY <1>1, <1>4
  <2> QED
    BY <2>1 DEF T
<1>6. r < Len(t) => Vim!Byte(t, r) \notin C
  BY <1>1, <1>4 DEF T
<1> QED
  BY <1>4, <1>5, <1>6 DEF r

LEMMA SkipsBackward ==
    ASSUME NEW S, NEW t \in Seq(S), NEW i \in 0..Len(t), NEW C
    PROVE  LET r == Vim!SkipBackward(t, i, C)
           IN  /\ r \in 0..i
               /\ \A q \in r .. (i - 1) : Vim!Byte(t, q) \in C
               /\ r > 0 => Vim!Byte(t, r - 1) \notin C
<1> DEFINE T == {q \in 1..i : Vim!Byte(t, q - 1) \notin C}
           r == Vim!SkipBackward(t, i, C)
<1>1. Len(t) \in Nat /\ i \in Nat
  BY LenProperties
<1>2. T \in SUBSET (0..i)
  BY <1>1
<1>3. r = Vim!Max({0} \cup T)
  BY DEF Vim!SkipBackward
<1> HIDE DEF T, r
<1>4. r \in 0..i /\ r \in {0} \cup T /\ \A x \in T : r >= x
  BY <1>1, <1>2, <1>3, MaxUpto
<1>5. ASSUME NEW q \in r .. (i - 1) PROVE Vim!Byte(t, q) \in C
  <2>1. q + 1 \notin T /\ q + 1 \in 1..i /\ (q + 1) - 1 = q
    BY <1>1, <1>4
  <2> QED
    BY <2>1 DEF T
<1>6. r > 0 => Vim!Byte(t, r - 1) \notin C
  BY <1>1, <1>4 DEF T
<1> QED
  BY <1>4, <1>5, <1>6 DEF r

(* The classes of bytes do not overlap.                                    *)
LEMMA ClassesPart ==
    ASSUME NEW a \in Bytes
    PROVE  /\ a \in Vim!class_of(a)
           /\ a \in Vim!White <=> Vim!class_of(a) = Vim!White
           /\ a \in Vim!White <=> a \notin Vim!NotWhite
           /\ \A b \in Bytes : b \in Vim!class_of(a) <=> Vim!class_of(b) = Vim!class_of(a)
<1>1. a \in {"s", "n", "k", "p", "(", ")", "L", "C"}
  BY DEF Bytes, Vim!White, Vim!NotWhite
<1>2. \A b \in Bytes : /\ b \in Vim!White => Vim!class_of(b) = Vim!White
                       /\ b = "k" => Vim!class_of(b) = {"k"}
                       /\ b \notin Vim!White /\ b # "k" => Vim!class_of(b) = Vim!NotWhite \ {"k"}
  BY DEF Bytes, Vim!White, Vim!NotWhite, Vim!class_of
<1>3. "s" \in Vim!White /\ "s" \notin Vim!NotWhite /\ "k" \notin Vim!White
  BY DEF Vim!White, Vim!NotWhite
<1>4. {"k"} # Vim!White /\ Vim!NotWhite \ {"k"} # Vim!White
  BY <1>3
<1>5. {"k"} # Vim!NotWhite \ {"k"}
  OBVIOUS
<1>6. \A b \in Bytes : b \in Vim!White <=> b \notin Vim!NotWhite
  BY DEF Bytes, Vim!White, Vim!NotWhite
<1>7. CASE a \in Vim!White
  BY <1>2, <1>4, <1>6, <1>7
<1>8. CASE a = "k"
  <2>1. a \notin Vim!White
    BY <1>3, <1>8
  <2>2. Vim!class_of(a) = {"k"}
    BY <1>2, <1>8
  <2> QED
    BY <1>2, <1>4, <1>5, <1>6, <1>8, <2>1, <2>2
<1>9. CASE a \notin Vim!White /\ a # "k"
  <2>1. Vim!class_of(a) = Vim!NotWhite \ {"k"}
    BY <1>2, <1>9
  <2>2. a \in Vim!NotWhite
    BY <1>6, <1>9
  <2> QED
    BY <1>2, <1>4, <1>5, <1>6, <1>9, <2>1, <2>2
<1> QED
  BY <1>7, <1>8, <1>9

(* The first of some places after c, and the last one before f.            *)
LEMMA FirstAfter ==
    ASSUME NEW n \in Nat, NEW c \in 0..n, NEW T \in SUBSET (0..n), NEW r \in 0..n,
           r = n \/ (r \in T /\ r > c),
           \A i \in T : ~(c < i /\ i < r)
    PROVE  Vim!Min({n} \cup {i \in T : i > c}) = r
<1> DEFINE X == {n} \cup {i \in T : i > c}
<1>1. \A x \in X : x \in Nat
  OBVIOUS
<1>2. X \in SUBSET Nat
  BY <1>1
<1>3. n \in X /\ r \in X
  OBVIOUS
<1>4. ASSUME NEW x \in X PROVE r <= x
  <2>1. CASE x = n
    BY <2>1
  <2>2. CASE x \in T /\ x > c
    <3>1. x \in Nat /\ r \in Nat /\ ~(x < r)
      BY <2>2
    <3> QED
      BY <3>1
  <2> QED
    BY <2>1, <2>2
<1> HIDE DEF X
<1>5. Vim!Min(X) \in X /\ \A x \in X : Vim!Min(X) <= x
  BY <1>2, <1>3, MinIs
<1>6. Vim!Min(X) = r
  <2>1. Vim!Min(X) \in Int /\ r \in Int
    BY <1>1, <1>5
  <2>2. Vim!Min(X) <= r /\ r <= Vim!Min(X)
    BY <1>4, <1>5, <1>3
  <2> QED
    BY <2>1, <2>2
<1> QED
  BY <1>6 DEF X

LEMMA LastBefore ==
    ASSUME NEW n \in Nat, NEW f \in Int, NEW T \in SUBSET (0..n), NEW r \in 0..n,
           r = 0 \/ (r \in T /\ r < f),
           \A i \in T : ~(r < i /\ i < f)
    PROVE  Vim!Max({0} \cup {i \in T : i < f}) = r
<1> DEFINE X == {0} \cup {i \in T : i < f}
<1>1. \A x \in X : x \in 0..n
  OBVIOUS
<1>2. X \in SUBSET (0..n)
  BY <1>1
<1>3. 0 \in X /\ r \in X
  OBVIOUS
<1>4. ASSUME NEW x \in X PROVE r >= x
  <2>1. CASE x = 0
    BY <2>1
  <2>2. CASE x \in T /\ x < f
    <3>1. x \in Nat /\ r \in Nat /\ ~(r < x)
      BY <2>2
    <3> QED
      BY <3>1
  <2> QED
    BY <2>1, <2>2
<1> HIDE DEF X
<1>5. Vim!Max(X) \in X /\ \A x \in X : Vim!Max(X) >= x
  BY <1>2, <1>3, MaxIs
<1>6. Vim!Max(X) = r
  <2>1. Vim!Max(X) \in Int /\ r \in Int
    BY <1>1, <1>5
  <2>2. Vim!Max(X) >= r /\ r >= Vim!Max(X)
    BY <1>4, <1>5, <1>3
  <2> QED
    BY <2>1, <2>2
<1> QED
  BY <1>6 DEF X

LEMMA BytesOf ==
    ASSUME NEW t \in Seq(Bytes)
    PROVE  Len(t) \in Nat /\ \A i \in 0 .. Len(t) - 1 : Vim!Byte(t, i) \in Bytes
<1>1. Len(t) \in Nat
  BY LenProperties
<1>2. \A i \in 1..Len(t) : t[i] \in Bytes
  BY ElementOfSeq
<1>3. ASSUME NEW i \in 0 .. Len(t) - 1 PROVE Vim!Byte(t, i) \in Bytes
  <2>1. i + 1 \in 1..Len(t)
    BY <1>1
  <2> QED
    BY <1>2, <2>1 DEF Vim!Byte
<1> QED
  BY <1>1, <1>3

(* Where words and WORDS start and stop.                                   *)
LEMMA StartsAre ==
    ASSUME NEW t \in Seq(Bytes), NEW i \in 0..Len(t)
    PROVE  /\ i \in Vim!Starts(t, Vim!class_of) <=>
                /\ i < Len(t) /\ Vim!Byte(t, i) \notin Vim!White
                /\ i = 0 \/ Vim!class_of(Vim!Byte(t, i - 1)) # Vim!class_of(Vim!Byte(t, i))
           /\ i \in Vim!Starts(t, Vim!IsBlank) <=>
                /\ i < Len(t) /\ Vim!Byte(t, i) \notin Vim!White
                /\ i = 0 \/ Vim!Byte(t, i - 1) \in Vim!White
<1>1. (Vim!IsBlank(Vim!Byte(t, i - 1)) # Vim!IsBlank(Vim!Byte(t, i))) <=>
        ~(Vim!Byte(t, i - 1) \in Vim!White <=> Vim!Byte(t, i) \in Vim!White)
  <2> DEFINE x == Vim!Byte(t, i - 1)
             y == Vim!Byte(t, i)
  <2>1. \A b : b \in Vim!White => Vim!IsBlank(b) = TRUE
    BY DEF Vim!IsBlank
  <2>2. \A b : b \notin Vim!White => Vim!IsBlank(b) = FALSE
    BY DEF Vim!IsBlank
  <2> HIDE DEF x, y
  <2>3. (Vim!IsBlank(x) # Vim!IsBlank(y)) <=> ~(x \in Vim!White <=> y \in Vim!White)
    BY <2>1, <2>2
  <2> QED
    BY <2>3 DEF x, y
<1>2. i \in Vim!Starts(t, Vim!class_of) <=> Vim!WordStart(i, t, Vim!class_of)
  BY DEF Vim!Starts
<1>3. i \in Vim!Starts(t, Vim!IsBlank) <=> Vim!WordStart(i, t, Vim!IsBlank)
  BY DEF Vim!Starts
<1> QED
  BY <1>1, <1>2, <1>3, Zenon DEF Vim!WordStart

LEMMA StartsIn ==
    ASSUME NEW t
    PROVE  /\ Vim!Starts(t, Vim!class_of) \in SUBSET (0..Len(t))
           /\ Vim!Starts(t, Vim!IsBlank) \in SUBSET (0..Len(t))
  BY DEF Vim!Starts

LEMMA WordForward ==
    ASSUME NEW t \in Seq(Bytes), NEW c \in 0..Len(t)
    PROVE  Vim!move_word_forward(c, t) = Vim!Min({Len(t)} \cup {i \in Vim!Starts(t, Vim!class_of) : i > c})
<1> DEFINE T == Vim!Starts(t, Vim!class_of)
           r == Vim!move_word_forward(c, t)
<1>1. Len(t) \in Nat /\ \A i \in 0 .. Len(t) - 1 : Vim!Byte(t, i) \in Bytes
  BY BytesOf
<1>2. T \in SUBSET (0..Len(t))
  BY StartsIn
<1> SUFFICES /\ r \in 0..Len(t) /\ (r = Len(t) \/ (r \in T /\ r > c))
             /\ \A i \in T : ~(c < i /\ i < r)
  <2> HIDE DEF T, r
  <2> QED
    BY <1>1, <1>2, FirstAfter DEF T, r
<1>3. CASE c = Len(t)
  <2>1. r = Len(t)
    BY <1>1, <1>3 DEF Vim!move_word_forward
  <2> HIDE DEF T, r
  <2> QED
    BY <1>1, <1>2, <1>3, <2>1
<1>4. CASE c < Len(t)
  <2> DEFINE K == Vim!class_of(Vim!Byte(t, c))
             q == IF K = Vim!White THEN c ELSE Vim!SkipForward(t, c, K)
  <2>1. r = Vim!SkipForward(t, q, Vim!White)
    BY <1>1, <1>4 DEF Vim!move_word_forward
  <2>2. Vim!Byte(t, c) \in Bytes /\ Vim!Byte(t, c) \in K
    BY <1>1, <1>4, ClassesPart
  <2>3. \A b \in Bytes : b \in K <=> Vim!class_of(b) = K
    BY <2>2, ClassesPart
  <2> HIDE DEF r, K
  <2>4. q \in c..Len(t) /\ \A i \in c .. (q - 1) : Vim!Byte(t, i) \in K
    <3>1. CASE K = Vim!White
      BY <1>1, <3>1
    <3>2. CASE K # Vim!White
      BY <1>1, <3>2, SkipsForward
    <3> QED
      BY <3>1, <3>2
  <2>5. K # Vim!White => q > c /\ (q < Len(t) => Vim!Byte(t, q) \notin K)
    <3> SUFFICES ASSUME K # Vim!White PROVE q > c /\ (q < Len(t) => Vim!Byte(t, q) \notin K)
      OBVIOUS
    <3>1. q < Len(t) => Vim!Byte(t, q) \notin K
      BY SkipsForward
    <3>2. q # c
      BY <1>4, <2>2, <3>1
    <3> QED
      BY <1>1, <2>4, <3>1, <3>2
  <2>6. K = Vim!White => q = c
    OBVIOUS
  <2> HIDE DEF q
  <2>7. q \in 0..Len(t)
    BY <1>1, <2>4
  <2>8. r \in q..Len(t) /\ (\A i \in q .. (r - 1) : Vim!Byte(t, i) \in Vim!White)
        /\ (r < Len(t) => Vim!Byte(t, r) \notin Vim!White)
    BY <2>1, <2>7, SkipsForward
  <2>9. r > c
    <3>1. CASE K = Vim!White
      <4>1. r # c
        BY <1>4, <2>2, <2>8, <3>1
      <4> QED
        BY <1>1, <2>6, <2>8, <3>1, <4>1
    <3>2. CASE K # Vim!White
      BY <1>1, <2>4, <2>5, <2>8, <3>2
    <3> QED
      BY <3>1, <3>2
  <2>10. r < Len(t) => r \in T
    <3> SUFFICES ASSUME r < Len(t) PROVE r \in T
      OBVIOUS
    <3>1. r \in 0..Len(t) /\ r # 0 /\ r - 1 \in 0 .. Len(t) - 1 /\ r \in 0 .. Len(t) - 1
      BY <1>1, <2>7, <2>8, <2>9
    <3>2. Vim!Byte(t, r - 1) \in Bytes /\ Vim!Byte(t, r) \in Bytes
      BY <1>1, <3>1
    <3>3. Vim!class_of(Vim!Byte(t, r - 1)) # Vim!class_of(Vim!Byte(t, r))
      <4>1. CASE r > q
        <5>1. r - 1 \in q .. (r - 1)
          BY <1>1, <2>7, <3>1, <4>1
        <5>2. Vim!Byte(t, r - 1) \in Vim!White
          BY <2>8, <5>1
        <5> QED
          BY <2>8, <3>2, <5>2, ClassesPart
      <4>2. CASE r = q
        <5>1. K # Vim!White
          BY <2>6, <2>9, <4>2
        <5>2. r - 1 \in c .. (q - 1)
          BY <1>1, <2>5, <3>1, <4>2, <5>1
        <5>3. Vim!Byte(t, r - 1) \in K /\ Vim!Byte(t, r) \notin K
          BY <2>4, <2>5, <4>2, <5>1, <5>2
        <5> QED
          BY <2>3, <3>2, <5>3
      <4> QED
        BY <1>1, <2>7, <2>8, <4>1, <4>2
    <3> QED
      BY <2>8, <3>1, <3>3, StartsAre
  <2>11. ASSUME NEW i \in T, c < i, i < r PROVE FALSE
    <3>1. i \in 0..Len(t)
      BY <1>2
    <3> HIDE DEF T
    <3>2. i # 0 /\ i < Len(t) /\ i - 1 \in 0 .. Len(t) - 1 /\ i \in 0 .. Len(t) - 1
      BY <1>1, <2>8, <2>11, <3>1
    <3>3. Vim!Byte(t, i) \notin Vim!White
          /\ Vim!class_of(Vim!Byte(t, i - 1)) # Vim!class_of(Vim!Byte(t, i))
      BY <3>1, <3>2, StartsAre DEF T
    <3>4. CASE i >= q
      <4>1. i \in q .. (r - 1)
        BY <1>1, <2>7, <2>8, <2>11, <3>1, <3>4
      <4> QED
        BY <2>8, <3>3, <4>1
    <3>5. CASE i < q
      <4>1. i \in c .. (q - 1) /\ i - 1 \in c .. (q - 1)
        BY <1>1, <2>7, <2>11, <3>1, <3>5
      <4>2. Vim!Byte(t, i) \in K /\ Vim!Byte(t, i - 1) \in K
        BY <2>4, <4>1
      <4>3. Vim!Byte(t, i) \in Bytes /\ Vim!Byte(t, i - 1) \in Bytes
        BY <1>1, <3>2
      <4> QED
        BY <2>3, <3>3, <4>2, <4>3
    <3> QED
      BY <1>1, <2>7, <3>1, <3>4, <3>5
  <2>12. r \in 0..Len(t)
    BY <1>1, <2>7, <2>8
  <2> QED
    BY <1>1, <2>8, <2>9, <2>10, <2>11, <2>12
<1> QED
  BY <1>1, <1>3, <1>4

LEMMA BigForward ==
    ASSUME NEW t \in Seq(Bytes), NEW c \in 0..Len(t)
    PROVE  Vim!move_word_forward_word(c, t) = Vim!Min({Len(t)} \cup {i \in Vim!Starts(t, Vim!IsBlank) : i > c})
<1> DEFINE T == Vim!Starts(t, Vim!IsBlank)
           q == Vim!SkipForward(t, c, Vim!NotWhite)
           r == Vim!SkipForward(t, q, Vim!White)
<1>1. Len(t) \in Nat /\ \A i \in 0 .. Len(t) - 1 : Vim!Byte(t, i) \in Bytes
  BY BytesOf
<1>2. T \in SUBSET (0..Len(t))
  BY StartsIn
<1>3. Vim!move_word_forward_word(c, t) = r
  BY DEF Vim!move_word_forward_word
<1>4. q \in c..Len(t) /\ (\A i \in c .. (q - 1) : Vim!Byte(t, i) \in Vim!NotWhite)
      /\ (q < Len(t) => Vim!Byte(t, q) \notin Vim!NotWhite)
  BY SkipsForward
<1> HIDE DEF q
<1>5. q \in 0..Len(t)
  BY <1>1, <1>4
<1>6. r \in q..Len(t) /\ (\A i \in q .. (r - 1) : Vim!Byte(t, i) \in Vim!White)
      /\ (r < Len(t) => Vim!Byte(t, r) \notin Vim!White)
  BY <1>5, SkipsForward
<1> HIDE DEF r
<1>7. r \in 0..Len(t)
  BY <1>1, <1>5, <1>6
<1>8. r < Len(t) => r \in T /\ r > c
  <2> SUFFICES ASSUME r < Len(t) PROVE r \in T /\ r > c
    OBVIOUS
  <2>1. r \in 0 .. Len(t) - 1 /\ Vim!Byte(t, r) \in Bytes
    BY <1>1, <1>7
  <2>2. r # q
    BY <1>4, <1>6, <2>1, ClassesPart
  <2>3. r > q /\ r > c /\ r # 0 /\ r - 1 \in q .. (r - 1)
    BY <1>1, <1>4, <1>5, <1>6, <2>2
  <2>4. Vim!Byte(t, r - 1) \in Vim!White
    BY <1>6, <2>3
  <2> QED
    BY <1>6, <1>7, <2>3, <2>4, StartsAre
<1>9. ASSUME NEW i \in T, c < i, i < r PROVE FALSE
  <2>1. i \in 0..Len(t)
    BY <1>2
  <2> HIDE DEF T
  <2>2. i # 0 /\ i < Len(t) /\ i - 1 \in 0 .. Len(t) - 1
    BY <1>1, <1>7, <1>9, <2>1
  <2>3. Vim!Byte(t, i) \notin Vim!White /\ Vim!Byte(t, i - 1) \in Vim!White
    BY <2>1, <2>2, StartsAre DEF T
  <2>4. CASE i >= q
    <3>1. i \in q .. (r - 1)
      BY <1>1, <1>5, <1>7, <1>9, <2>1, <2>4
    <3> QED
      BY <1>6, <2>3, <3>1
  <2>5. CASE i < q
    <3>1. i - 1 \in c .. (q - 1)
      BY <1>1, <1>5, <1>9, <2>1, <2>5
    <3>2. Vim!Byte(t, i - 1) \in Vim!NotWhite /\ Vim!Byte(t, i - 1) \in Bytes
      BY <1>1, <1>4, <2>2, <3>1
    <3> QED
      BY <2>3, <3>2, ClassesPart
  <2> QED
    BY <1>1, <1>5, <2>1, <2>4, <2>5
<1>10. r = Len(t) \/ (r \in T /\ r > c)
  BY <1>1, <1>7, <1>8
<1> HIDE DEF T
<1>11. Vim!Min({Len(t)} \cup {i \in T : i > c}) = r
  BY <1>1, <1>2, <1>7, <1>9, <1>10, FirstAfter
<1> QED
  BY <1>3, <1>11 DEF T

LEMMA WordBackward ==
    ASSUME NEW t \in Seq(Bytes), NEW c \in 0..Len(t)
    PROVE  Vim!move_word_backward(c, t) =
             Vim!Max({0} \cup {i \in Vim!Starts(t, Vim!class_of) : i < Vim!OnLast(c, t)})
<1> DEFINE T == Vim!Starts(t, Vim!class_of)
           f == Vim!OnLast(c, t)
           q == Vim!SkipBackward(t, f, Vim!White)
           K == Vim!class_of(Vim!Byte(t, q - 1))
           r == IF f <= 0 \/ q = 0 THEN 0 ELSE Vim!SkipBackward(t, q, K)
<1>1. Len(t) \in Nat /\ \A i \in 0 .. Len(t) - 1 : Vim!Byte(t, i) \in Bytes
  BY BytesOf
<1>2. T \in SUBSET (0..Len(t))
  BY StartsIn
<1>3. Vim!move_word_backward(c, t) = r
  BY DEF Vim!move_word_backward, Vim!OnLast
<1>4. 0 \in 0..Len(t)
  BY <1>1
<1>5. f \in Int /\ (f > 0 => f \in 0 .. Len(t) - 1 /\ f \in 0..Len(t))
  BY <1>1 DEF Vim!OnLast
<1> HIDE DEF f
<1>6. CASE f <= 0
  <2>1. r = 0
    BY <1>6
  <2>2. \A i \in T : ~(0 < i /\ i < f)
    BY <1>2, <1>5, <1>6
  <2> HIDE DEF T, r
  <2>3. Vim!Max({0} \cup {i \in T : i < f}) = 0
    BY <1>1, <1>2, <1>4, <1>5, <2>2, LastBefore
  <2> QED
    BY <1>3, <2>1, <2>3 DEF T, f
<1>7. CASE f > 0
  <2>1. q \in 0..f /\ (\A i \in q .. (f - 1) : Vim!Byte(t, i) \in Vim!White)
        /\ (q > 0 => Vim!Byte(t, q - 1) \notin Vim!White)
    BY <1>5, <1>7, SkipsBackward
  <2>2. r = IF q = 0 THEN 0 ELSE Vim!SkipBackward(t, q, K)
    BY <1>5, <1>7
  <2> HIDE DEF q
  <2>3. CASE q = 0
    <3>1. ASSUME NEW i \in T, 0 < i, i < f PROVE FALSE
      <4>1. i \in 0..Len(t)
        BY <1>2
      <4>2. i \in q .. (f - 1)
        BY <1>1, <1>5, <2>3, <3>1, <4>1
      <4> QED
        BY <2>1, <4>1, <4>2, StartsAre
    <3>2. r = 0
      BY <2>2, <2>3
    <3> HIDE DEF T, r
    <3>3. Vim!Max({0} \cup {i \in T : i < f}) = 0
      BY <1>1, <1>2, <1>4, <1>5, <3>1, LastBefore
    <3> QED
      BY <1>3, <3>2, <3>3 DEF T, f
  <2>4. CASE q # 0
    <3>1. q \in 0..Len(t) /\ q > 0 /\ q - 1 \in 0 .. Len(t) - 1
      BY <1>1, <1>5, <1>7, <2>1, <2>4
    <3>2. Vim!Byte(t, q - 1) \in Bytes /\ Vim!Byte(t, q - 1) \notin Vim!White
      BY <1>1, <2>1, <3>1
    <3>3. Vim!Byte(t, q - 1) \in K /\ \A b \in Bytes : b \in K <=> Vim!class_of(b) = K
      BY <3>2, ClassesPart
    <3>4. r = Vim!SkipBackward(t, q, K)
      BY <2>2, <2>4
    <3>5. K # Vim!White
      BY <3>2, ClassesPart
    <3> HIDE DEF K, r
    <3>6. r \in 0..q /\ (\A i \in r .. (q - 1) : Vim!Byte(t, i) \in K)
          /\ (r > 0 => Vim!Byte(t, r - 1) \notin K)
      BY <3>1, <3>4, SkipsBackward
    <3>7. r < q
      <4>1. r # q
        BY <3>1, <3>3, <3>6
      <4> QED
        BY <3>1, <3>6, <4>1
    <3>8. r \in 0..Len(t) /\ r < Len(t) /\ r < f /\ r \in r .. (q - 1) /\ r \in 0 .. Len(t) - 1
      BY <1>1, <1>5, <1>7, <2>1, <3>1, <3>6, <3>7
    <3>9. r \in T
      <4>1. Vim!Byte(t, r) \in K /\ Vim!Byte(t, r) \in Bytes
        BY <1>1, <3>6, <3>8
      <4>2. Vim!Byte(t, r) \notin Vim!White
        BY <3>3, <3>5, <4>1, ClassesPart
      <4>3. ASSUME r # 0 PROVE Vim!class_of(Vim!Byte(t, r - 1)) # Vim!class_of(Vim!Byte(t, r))
        <5>1. r > 0 /\ r - 1 \in 0 .. Len(t) - 1
          BY <1>1, <3>8, <4>3
        <5> QED
          BY <1>1, <3>3, <3>6, <4>1, <5>1
      <4> QED
        BY <3>8, <4>2, <4>3, StartsAre
    <3>10. ASSUME NEW i \in T, r < i, i < f PROVE FALSE
      <4>1. i \in 0..Len(t)
        BY <1>2
      <4> HIDE DEF T
      <4>2. i # 0 /\ i \in 0 .. Len(t) - 1 /\ i - 1 \in 0 .. Len(t) - 1
        BY <1>1, <1>5, <1>7, <3>8, <3>10, <4>1
      <4>3. Vim!Byte(t, i) \notin Vim!White
            /\ Vim!class_of(Vim!Byte(t, i - 1)) # Vim!class_of(Vim!Byte(t, i))
        BY <4>1, <4>2, StartsAre DEF T
      <4>4. CASE i >= q
        <5>1. i \in q .. (f - 1)
          BY <1>5, <3>1, <3>10, <4>1, <4>4
        <5> QED
          BY <2>1, <4>3, <5>1
      <4>5. CASE i < q
        <5>1. i \in r .. (q - 1) /\ i - 1 \in r .. (q - 1)
          BY <3>1, <3>8, <3>10, <4>1, <4>5
        <5> QED
          BY <1>1, <3>3, <3>6, <4>2, <4>3, <5>1
      <4> QED
        BY <3>1, <4>1, <4>4, <4>5
    <3> HIDE DEF T
    <3>11. Vim!Max({0} \cup {i \in T : i < f}) = r
      BY <1>1, <1>2, <1>5, <3>8, <3>9, <3>10, LastBefore
    <3> QED
      BY <1>3, <3>4, <3>11 DEF T, f, r
  <2> QED
    BY <2>3, <2>4
<1> QED
  BY <1>5, <1>6, <1>7

LEMMA BigBackward ==
    ASSUME NEW t \in Seq(Bytes), NEW c \in 0..Len(t)
    PROVE  Vim!move_word_backward_word(c, t) =
             Vim!Max({0} \cup {i \in Vim!Starts(t, Vim!IsBlank) : i < c})
<1> DEFINE T == Vim!Starts(t, Vim!IsBlank)
           q == Vim!SkipBackward(t, c, Vim!White)
           r == Vim!SkipBackward(t, q, Vim!NotWhite)
<1>1. Len(t) \in Nat /\ (\A i \in 0 .. Len(t) - 1 : Vim!Byte(t, i) \in Bytes) /\ c \in Int
  BY BytesOf
<1>2. T \in SUBSET (0..Len(t))
  BY StartsIn
<1>3. Vim!move_word_backward_word(c, t) = r
  BY DEF Vim!move_word_backward_word
<1>4. q \in 0..c /\ (\A i \in q .. (c - 1) : Vim!Byte(t, i) \in Vim!White)
      /\ (q > 0 => Vim!Byte(t, q - 1) \notin Vim!White)
  BY SkipsBackward
<1> HIDE DEF q
<1>5. q \in 0..Len(t)
  BY <1>1, <1>4
<1>6. r \in 0..q /\ (\A i \in r .. (q - 1) : Vim!Byte(t, i) \in Vim!NotWhite)
      /\ (r > 0 => Vim!Byte(t, r - 1) \notin Vim!NotWhite)
  BY <1>5, SkipsBackward
<1> HIDE DEF r
<1>7. r \in 0..Len(t)
  BY <1>1, <1>5, <1>6
<1>8. r # 0 => r \in T /\ r < c
  <2> SUFFICES ASSUME r # 0 PROVE r \in T /\ r < c
    OBVIOUS
  <2>1. r > 0 /\ r - 1 \in 0 .. Len(t) - 1
    BY <1>1, <1>7
  <2>2. Vim!Byte(t, r - 1) \in Vim!White
    BY <1>1, <1>6, <2>1, ClassesPart
  <2>3. r # q
    BY <1>4, <2>1, <2>2
  <2>4. r \in r .. (q - 1) /\ r < c /\ r < Len(t) /\ r \in 0 .. Len(t) - 1
    BY <1>1, <1>4, <1>5, <1>6, <2>3
  <2>5. Vim!Byte(t, r) \notin Vim!White
    BY <1>1, <1>6, <2>4, ClassesPart
  <2> QED
    BY <1>7, <2>2, <2>4, <2>5, StartsAre
<1>9. ASSUME NEW i \in T, r < i, i < c PROVE FALSE
  <2>1. i \in 0..Len(t)
    BY <1>2
  <2> HIDE DEF T
  <2>2. i # 0 /\ i \in 0 .. Len(t) - 1 /\ i - 1 \in 0 .. Len(t) - 1
    BY <1>1, <1>7, <1>9, <2>1
  <2>3. Vim!Byte(t, i) \notin Vim!White /\ Vim!Byte(t, i - 1) \in Vim!White
    BY <2>1, <2>2, StartsAre DEF T
  <2>4. CASE i >= q
    <3>1. i \in q .. (c - 1)
      BY <1>1, <1>5, <1>9, <2>1, <2>4
    <3> QED
      BY <1>4, <2>3, <3>1
  <2>5. CASE i < q
    <3>1. i - 1 \in r .. (q - 1)
      BY <1>5, <1>7, <1>9, <2>1, <2>5
    <3>2. Vim!Byte(t, i - 1) \in Vim!NotWhite /\ Vim!Byte(t, i - 1) \in Bytes
      BY <1>1, <1>6, <2>2, <3>1
    <3> QED
      BY <2>3, <3>2, ClassesPart
  <2> QED
    BY <1>5, <2>1, <2>4, <2>5
<1> HIDE DEF T
<1>10. Vim!Max({0} \cup {i \in T : i < c}) = r
  BY <1>1, <1>2, <1>7, <1>8, <1>9, LastBefore
<1> QED
  BY <1>3, <1>10 DEF T

LEMMA WordEnds ==
    ASSUME NEW t \in Seq(Bytes), NEW c \in 0..Len(t)
    PROVE  Vim!EndOfWord(c, t)
<1> DEFINE T == {i \in 0..Len(t) : Vim!WordStop(i, t)}
           r == Vim!move_word_end(c, t)
<1>1. Len(t) \in Nat /\ (\A i \in 0 .. Len(t) - 1 : Vim!Byte(t, i) \in Bytes) /\ c \in Int
  BY BytesOf
<1>2. T \in SUBSET (0..Len(t))
  OBVIOUS
<1>3. {i \in 0..Len(t) : i > c /\ Vim!WordStop(i, t)} = {i \in T : i > c}
  OBVIOUS
<1> SUFFICES /\ r \in 0..Len(t) /\ (r = Len(t) \/ (r \in T /\ r > c))
             /\ \A i \in T : ~(c < i /\ i < r)
  <2> HIDE DEF T, r
  <2>1. Vim!Min({Len(t)} \cup {i \in T : i > c}) = r
    BY <1>1, <1>2, FirstAfter
  <2> QED
    BY <1>3, <2>1 DEF r, Vim!EndOfWord
<1>4. CASE c = Len(t)
  <2>1. r = Len(t)
    BY <1>1, <1>4 DEF Vim!move_word_end
  <2> HIDE DEF T, r
  <2> QED
    BY <1>1, <1>2, <1>4, <2>1
<1>5. CASE c < Len(t)
  <2> DEFINE q == Vim!SkipForward(t, c + 1, Vim!White)
             K == Vim!class_of(Vim!Byte(t, q))
  <2>1. r = IF q >= Len(t) THEN Len(t) ELSE Vim!SkipForward(t, q, K) - 1
    BY <1>1, <1>5 DEF Vim!move_word_end, Vim!RunEnd
  <2>2. c + 1 \in 0..Len(t)
    BY <1>1, <1>5
  <2> HIDE DEF K, r
  <2>3. q \in (c + 1)..Len(t) /\ (\A i \in (c + 1) .. (q - 1) : Vim!Byte(t, i) \in Vim!White)
        /\ (q < Len(t) => Vim!Byte(t, q) \notin Vim!White)
    BY <2>2, SkipsForward
  <2> HIDE DEF q
  <2>4. CASE q = Len(t)
    <3>1. r = Len(t)
      BY <1>1, <2>1, <2>4
    <3>2. ASSUME NEW i \in T, c < i, i < r PROVE FALSE
      <4>1. i \in (c + 1) .. (q - 1) /\ Vim!Byte(t, i) \notin Vim!White
        BY <1>1, <2>4, <3>1, <3>2 DEF Vim!WordStop
      <4> QED
        BY <2>3, <4>1
    <3> QED
      BY <1>1, <3>1, <3>2
  <2>5. CASE q < Len(t)
    <3> DEFINE e == Vim!SkipForward(t, q, K)
    <3>1. r = e - 1
      BY <1>1, <2>1, <2>3, <2>5
    <3>2. q \in 0 .. Len(t) - 1 /\ q \in 0..Len(t)
      BY <1>1, <2>3, <2>5
    <3>3. Vim!Byte(t, q) \in K /\ \A b \in Bytes : b \in K <=> Vim!class_of(b) = K
      BY <1>1, <3>2, ClassesPart DEF K
    <3>4. K # Vim!White
      BY <1>1, <2>3, <2>5, <3>2, ClassesPart DEF K
    <3>5. e \in q..Len(t) /\ (\A i \in q .. (e - 1) : Vim!Byte(t, i) \in K)
          /\ (e < Len(t) => Vim!Byte(t, e) \notin K)
      BY <3>2, SkipsForward
    <3> HIDE DEF e
    <3>6. e > q
      <4>1. e # q
        BY <2>5, <3>3, <3>5
      <4> QED
        BY <3>2, <3>5, <4>1
    <3>7. r \in 0 .. Len(t) - 1 /\ r \in q .. (e - 1) /\ r > c /\ r \in 0..Len(t) /\ r < Len(t) /\ r + 1 = e
      BY <1>1, <2>3, <3>1, <3>2, <3>5, <3>6
    <3>8. Vim!Byte(t, r) \in K /\ Vim!Byte(t, r) \in Bytes
      BY <1>1, <3>5, <3>7
    <3>9. r \in T
      <4>1. Vim!Byte(t, r) \notin Vim!White
        BY <3>3, <3>4, <3>8, ClassesPart
      <4>2. ASSUME r + 1 # Len(t) PROVE Vim!class_of(Vim!Byte(t, r + 1)) # Vim!class_of(Vim!Byte(t, r))
        <5>1. e < Len(t) /\ e \in 0 .. Len(t) - 1
          BY <1>1, <3>2, <3>5, <3>7, <4>2
        <5>2. Vim!Byte(t, e) \in Bytes /\ Vim!Byte(t, e) \notin K
          BY <1>1, <3>5, <5>1
        <5> QED
          BY <3>3, <3>7, <3>8, <5>2
      <4> QED
        BY <3>7, <4>1, <4>2 DEF Vim!WordStop
    <3>10. ASSUME NEW i \in T, c < i, i < r PROVE FALSE
      <4>1. i \in 0..Len(t) /\ Vim!Byte(t, i) \notin Vim!White
            /\ (i + 1 = Len(t) \/ Vim!class_of(Vim!Byte(t, i + 1)) # Vim!class_of(Vim!Byte(t, i)))
        BY DEF Vim!WordStop
      <4> HIDE DEF T
      <4>2. CASE i < q
        <5>1. i \in (c + 1) .. (q - 1)
          BY <1>1, <3>2, <3>10, <4>1, <4>2
        <5> QED
          BY <2>3, <4>1, <5>1
      <4>3. CASE i >= q
        <5>1. i \in q .. (e - 1) /\ i + 1 \in q .. (e - 1) /\ i + 1 # Len(t)
              /\ i \in 0 .. Len(t) - 1 /\ i + 1 \in 0 .. Len(t) - 1
          BY <1>1, <3>2, <3>5, <3>7, <3>10, <4>1, <4>3
        <5> QED
          BY <1>1, <3>3, <3>5, <4>1, <5>1
      <4> QED
        BY <3>2, <4>1, <4>2, <4>3
    <3> QED
      BY <3>7, <3>9, <3>10
  <2> QED
    BY <1>1, <2>3, <2>4, <2>5
<1> QED
  BY <1>1, <1>4, <1>5

(* w, W, b, B and e of any text.                                           *)
LEMMA WordsExact ==
    ASSUME NEW t \in Seq(Bytes), NEW c \in 0..Len(t)
    PROVE  Vim!ForwardToStart(c, t) /\ Vim!BackwardToStart(c, t) /\ Vim!EndOfWord(c, t)
  BY WordForward, BigForward, WordBackward, BigBackward, WordEnds
     DEF Vim!ForwardToStart, Vim!BackwardToStart

(* Lines.                                                                  *)
LEMMA NewlinesIn ==
    ASSUME NEW t \in Seq(Bytes)
    PROVE  Len(t) \in Nat /\ \A i \in Vim!Newlines(t) : i \in 0 .. Len(t) - 1 /\ i \in Nat /\ Vim!Byte(t, i) = "n"
  BY BytesOf DEF Vim!Newlines

LEMMA LineStarts ==
    ASSUME NEW t \in Seq(Bytes), NEW c \in 0..Len(t)
    PROVE  LET s == Vim!move_line_start(c, t)
           IN  /\ s \in 0..c
               /\ s = 0 \/ s - 1 \in Vim!Newlines(t)
               /\ \A i \in Vim!Newlines(t) : ~(s <= i /\ i < c)
<1> DEFINE T == {i + 1 : i \in {j \in Vim!Newlines(t) : j < c}}
           s == Vim!move_line_start(c, t)
<1>1. Len(t) \in Nat /\ c \in Nat /\ \A i \in Vim!Newlines(t) : i \in Nat
  BY NewlinesIn
<1>2. T \in SUBSET (0..c)
  BY <1>1
<1>3. s = Vim!Max({0} \cup T)
  BY DEF Vim!move_line_start
<1>4. \A i \in Vim!Newlines(t) : i < c => i + 1 \in T
  OBVIOUS
<1>5. \A x \in T : x - 1 \in Vim!Newlines(t)
  <2> SUFFICES ASSUME NEW i \in Vim!Newlines(t) PROVE (i + 1) - 1 \in Vim!Newlines(t)
    OBVIOUS
  <2>1. (i + 1) - 1 = i
    BY <1>1
  <2> QED
    BY <2>1
<1> HIDE DEF T, s
<1>6. s \in 0..c /\ s \in {0} \cup T /\ \A x \in T : s >= x
  BY <1>1, <1>2, <1>3, MaxUpto
<1>7. s = 0 \/ s - 1 \in Vim!Newlines(t)
  BY <1>5, <1>6
<1>8. ASSUME NEW i \in Vim!Newlines(t), s <= i, i < c PROVE FALSE
  <2>1. s >= i + 1 /\ i \in Nat /\ s \in Nat
    BY <1>1, <1>4, <1>6, <1>8
  <2> QED
    BY <1>8, <2>1
<1> QED
  BY <1>6, <1>7, <1>8 DEF s

LEMMA LineStops ==
    ASSUME NEW t \in Seq(Bytes), NEW c \in 0..Len(t)
    PROVE  LET e == Vim!LineStop(c, t)
           IN  /\ e \in c..Len(t)
               /\ e = Len(t) \/ e \in Vim!Newlines(t)
               /\ \A i \in Vim!Newlines(t) : ~(c <= i /\ i < e)
<1> DEFINE T == {i \in Vim!Newlines(t) : i >= c}
           e == Vim!LineStop(c, t)
<1>1. Len(t) \in Nat /\ c \in Nat /\ \A i \in Vim!Newlines(t) : i \in 0 .. Len(t) - 1
  BY NewlinesIn
<1>2. T \in SUBSET (c..Len(t))
  BY <1>1
<1>3. e = Vim!Min({Len(t)} \cup T)
  BY DEF Vim!LineStop
<1> HIDE DEF T, e
<1>4. e \in c..Len(t) /\ e \in {Len(t)} \cup T /\ \A x \in T : e <= x
  BY <1>1, <1>2, <1>3, MinFrom
<1>5. e = Len(t) \/ e \in Vim!Newlines(t)
  BY <1>4 DEF T
<1>6. ASSUME NEW i \in Vim!Newlines(t), c <= i, i < e PROVE FALSE
  <2>1. i \in T
    BY <1>1, <1>6 DEF T
  <2>2. e <= i /\ e \in Nat /\ i \in Nat
    BY <1>1, <1>4, <2>1
  <2> QED
    BY <1>6, <2>2
<1> QED
  BY <1>4, <1>5, <1>6 DEF e

LEMMA LineStartOf ==
    ASSUME NEW t \in Seq(Bytes), NEW p \in 0..Len(t), NEW s \in 0..p,
           s = 0 \/ s - 1 \in Vim!Newlines(t),
           \A i \in Vim!Newlines(t) : ~(s <= i /\ i < p)
    PROVE  Vim!move_line_start(p, t) = s
<1> DEFINE r == Vim!move_line_start(p, t)
<1>1. Len(t) \in Nat /\ p \in Nat /\ s \in Nat
  BY NewlinesIn
<1>2. r \in 0..p /\ (r = 0 \/ r - 1 \in Vim!Newlines(t)) /\ \A i \in Vim!Newlines(t) : ~(r <= i /\ i < p)
  BY LineStarts
<1> HIDE DEF r
<1>3. CASE r < s
  <2>1. s - 1 \in Vim!Newlines(t) /\ r <= s - 1 /\ s - 1 < p
    BY <1>1, <1>2, <1>3
  <2> QED
    BY <1>2, <2>1
<1>4. CASE s < r
  <2>1. r - 1 \in Vim!Newlines(t) /\ s <= r - 1 /\ r - 1 < p
    BY <1>1, <1>2, <1>4
  <2> QED
    BY <2>1
<1> QED
  BY <1>1, <1>2, <1>3, <1>4 DEF r

LEMMA CardinalityIs ==
    ASSUME NEW S
    PROVE  Vim!Cardinality(S) = Cardinality(S) /\ Texts!Cardinality(S) = Cardinality(S)
  BY DEF Vim!Cardinality, Texts!Cardinality, Cardinality

(* With one newline between two offsets, the second is on the next line.   *)
LEMMA NextLine ==
    ASSUME NEW t \in Seq(Bytes), NEW p \in 0..Len(t), NEW q \in 0..Len(t), NEW e \in Vim!Newlines(t),
           p <= e, e < q, \A i \in Vim!Newlines(t) : p <= i /\ i < q => i = e
    PROVE  Vim!Cardinality({i \in Vim!Newlines(t) : i < q}) = Vim!Cardinality({i \in Vim!Newlines(t) : i < p}) + 1
<1> DEFINE P == {i \in Vim!Newlines(t) : i < p}
           Q == {i \in Vim!Newlines(t) : i < q}
<1>1. Len(t) \in Nat /\ p \in Nat /\ q \in Nat /\ \A i \in Vim!Newlines(t) : i \in 0 .. Len(t) - 1 /\ i \in Nat
  BY NewlinesIn
<1>2. IsFiniteSet(P)
  <2>1. IsFiniteSet(0..Len(t))
    BY <1>1, FS_Interval
  <2>2. P \in SUBSET (0..Len(t))
    BY <1>1
  <2> QED
    BY <2>1, <2>2, FS_Subset
<1>3. Q = P \cup {e}
  <2>1. ASSUME NEW i \in Q PROVE i \in P \cup {e}
    BY <1>1
  <2>2. ASSUME NEW i \in P \cup {e} PROVE i \in Q
    BY <1>1
  <2> QED
    BY <2>1, <2>2
<1>4. e \notin P
  BY <1>1
<1> HIDE DEF P, Q
<1>5. Cardinality(Q) = Cardinality(P) + 1
  BY <1>2, <1>3, <1>4, FS_AddElement
<1> QED
  BY <1>5, CardinalityIs DEF P, Q

(* What j does below a line that has another one below it.                 *)
LEMMA DownIs ==
    ASSUME NEW t \in Seq(Bytes), NEW c \in 0..Len(t), Vim!LineStop(c, t) # Len(t)
    PROVE  LET s == Vim!move_line_start(c, t)
               e == Vim!LineStop(c, t)
               d == Vim!move_down(c, t)
           IN  /\ s \in 0..c /\ e \in c .. (Len(t) - 1) /\ e \in Vim!Newlines(t)
               /\ d \in (e + 1)..Len(t)
               /\ Vim!move_line_start(d, t) = e + 1
               /\ d - (e + 1) <= c - s
               /\ \A i \in Vim!Newlines(t) : c <= i /\ i < d => i = e
<1> DEFINE s == Vim!move_line_start(c, t)
           e == Vim!LineStop(c, t)
           d == Vim!move_down(c, t)
           g == Vim!LineStop(e + 1, t)
<1>1. Len(t) \in Nat /\ c \in Nat /\ \A i \in Vim!Newlines(t) : i \in Nat /\ i < Len(t)
  BY NewlinesIn
<1>2. s \in 0..c
  BY LineStarts
<1>3. e \in c..Len(t) /\ e \in Vim!Newlines(t) /\ \A i \in Vim!Newlines(t) : ~(c <= i /\ i < e)
  BY LineStops
<1>4. d = IF e + 1 >= Len(t) THEN Len(t) ELSE e + 1 + Vim!Shorter(c - s, g - (e + 1))
  BY DEF Vim!move_down
<1> HIDE DEF s, e, d
<1>5. e + 1 \in 0..Len(t) /\ e \in c .. (Len(t) - 1)
  BY <1>1, <1>3
<1>6. g \in (e + 1)..Len(t) /\ \A i \in Vim!Newlines(t) : ~(e + 1 <= i /\ i < g)
  BY <1>5, LineStops
<1> HIDE DEF g
<1>7. d \in (e + 1)..g /\ d - (e + 1) <= c - s
  <2>1. CASE e + 1 >= Len(t)
    BY <1>1, <1>2, <1>4, <1>5, <1>6, <2>1
  <2>2. CASE e + 1 < Len(t)
    BY <1>1, <1>2, <1>4, <1>5, <1>6, <2>2 DEF Vim!Shorter
  <2> QED
    BY <1>1, <1>5, <2>1, <2>2
<1>8. d \in 0..Len(t) /\ d \in (e + 1)..Len(t) /\ e + 1 \in 0..d
  BY <1>1, <1>5, <1>6, <1>7
<1>9. \A i \in Vim!Newlines(t) : ~(e + 1 <= i /\ i < d)
  BY <1>1, <1>5, <1>6, <1>7
<1>10. e + 1 = 0 \/ (e + 1) - 1 \in Vim!Newlines(t)
  <2>1. (e + 1) - 1 = e
    BY <1>1, <1>3
  <2> QED
    BY <1>3, <2>1
<1>11. Vim!move_line_start(d, t) = e + 1
  BY <1>8, <1>9, <1>10, LineStartOf
<1>12. ASSUME NEW i \in Vim!Newlines(t), c <= i, i < d PROVE i = e
  <2>1. ~(i < e) /\ ~(e + 1 <= i) /\ i \in Int /\ e \in Int
    BY <1>1, <1>3, <1>5, <1>9, <1>12
  <2> QED
    BY <2>1
<1> QED
  BY <1>2, <1>3, <1>5, <1>7, <1>8, <1>11, <1>12 DEF s, e, d

(* What k does above a line that has another one above it.                 *)
LEMMA UpIs ==
    ASSUME NEW t \in Seq(Bytes), NEW c \in 0..Len(t), Vim!move_line_start(c, t) # 0
    PROVE  LET s == Vim!move_line_start(c, t)
               a == Vim!move_line_start(s - 1, t)
               u == Vim!move_up(c, t)
           IN  /\ s \in 1..c /\ s - 1 \in Vim!Newlines(t) /\ a \in 0 .. (s - 1)
               /\ u = a + Vim!Shorter(c - s, s - 1 - a)
               /\ u \in a .. (s - 1)
               /\ Vim!move_line_start(u, t) = a
               /\ u - a <= c - s
               /\ \A i \in Vim!Newlines(t) : u <= i /\ i < c => i = s - 1
<1> DEFINE s == Vim!move_line_start(c, t)
           a == Vim!move_line_start(s - 1, t)
           u == Vim!move_up(c, t)
<1>1. Len(t) \in Nat /\ c \in Nat /\ \A i \in Vim!Newlines(t) : i \in Nat /\ i < Len(t)
  BY NewlinesIn
<1>2. s \in 0..c /\ s - 1 \in Vim!Newlines(t) /\ s # 0 /\ \A i \in Vim!Newlines(t) : ~(s <= i /\ i < c)
  BY LineStarts
<1>3. u = a + Vim!Shorter(c - s, s - 1 - a)
  BY <1>2 DEF Vim!move_up
<1> HIDE DEF s, u
<1>4. s \in 1..c /\ s - 1 \in 0..Len(t)
  BY <1>1, <1>2
<1>5. a \in 0 .. (s - 1) /\ (a = 0 \/ a - 1 \in Vim!Newlines(t))
      /\ \A i \in Vim!Newlines(t) : ~(a <= i /\ i < s - 1)
  BY <1>4, LineStarts
<1> HIDE DEF a
<1>6. u \in a .. (s - 1) /\ u - a <= c - s
  BY <1>1, <1>3, <1>4, <1>5 DEF Vim!Shorter
<1>7. u \in 0..Len(t) /\ a \in 0..u
  BY <1>1, <1>4, <1>5, <1>6
<1>8. \A i \in Vim!Newlines(t) : ~(a <= i /\ i < u)
  BY <1>1, <1>4, <1>5, <1>6
<1>9. Vim!move_line_start(u, t) = a
  BY <1>5, <1>7, <1>8, LineStartOf
<1>10. ASSUME NEW i \in Vim!Newlines(t), u <= i, i < c PROVE i = s - 1
  <2>1. a <= i /\ i \in Int
    BY <1>1, <1>4, <1>5, <1>6, <1>10
  <2>2. ~(i < s - 1) /\ ~(s <= i)
    BY <1>2, <1>5, <1>10, <2>1
  <2> QED
    BY <1>4, <2>1, <2>2
<1> QED
  BY <1>2, <1>3, <1>4, <1>5, <1>6, <1>9, <1>10 DEF s, a, u

LEMMA LinesExact ==
    ASSUME NEW t \in Seq(Bytes), NEW c \in 0..Len(t)
    PROVE  Vim!LinesAdjacent(c, t)
<1> DEFINE s == Vim!move_line_start(c, t)
           e == Vim!LineStop(c, t)
           d == Vim!move_down(c, t)
           u == Vim!move_up(c, t)
           Line(p) == Vim!Cardinality({i \in Vim!Newlines(t) : i < p})
           Column(p) == p - Vim!move_line_start(p, t)
<1>1. Len(t) \in Nat /\ c \in Nat /\ \A i \in Vim!Newlines(t) : i \in Nat /\ i < Len(t)
  BY NewlinesIn
<1>2. ASSUME ~Vim!is_on_last_line(c, t) PROVE e # Len(t)
  <2>1. PICK i \in Vim!Newlines(t) : ~(i < c)
    BY <1>2 DEF Vim!is_on_last_line
  <2>2. e \in c..Len(t) /\ \A j \in Vim!Newlines(t) : ~(c <= j /\ j < e)
    BY LineStops
  <2> HIDE DEF e
  <2> QED
    BY <1>1, <2>1, <2>2
<1>3. ASSUME e # Len(t) PROVE Line(d) = Line(c) + 1 /\ Column(d) <= Column(c)
  <2>1. /\ s \in 0..c /\ e \in c .. (Len(t) - 1) /\ e \in Vim!Newlines(t)
        /\ d \in (e + 1)..Len(t)
        /\ Vim!move_line_start(d, t) = e + 1
        /\ d - (e + 1) <= c - s
        /\ \A i \in Vim!Newlines(t) : c <= i /\ i < d => i = e
    BY <1>3, DownIs
  <2>2. Column(d) <= Column(c)
    BY <2>1
  <2> HIDE DEF s, e, d
  <2>3. c <= e /\ e < d /\ d \in 0..Len(t)
    BY <1>1, <2>1
  <2>4. Line(d) = Line(c) + 1
    BY <2>1, <2>3, NextLine
  <2> QED
    BY <2>2, <2>4 DEF d
<1>4. ASSUME ~Vim!is_on_first_line(c, t) PROVE s # 0
  <2>1. PICK i \in Vim!Newlines(t) : ~(i >= c)
    BY <1>4 DEF Vim!is_on_first_line
  <2>2. s \in 0..c /\ \A j \in Vim!Newlines(t) : ~(s <= j /\ j < c)
    BY LineStarts
  <2> HIDE DEF s
  <2> QED
    BY <1>1, <2>1, <2>2
<1>5. ASSUME s # 0 PROVE Line(u) = Line(c) - 1 /\ Column(u) <= Column(c)
  <2> DEFINE a == Vim!move_line_start(s - 1, t)
  <2>1. /\ s \in 1..c /\ s - 1 \in Vim!Newlines(t) /\ a \in 0 .. (s - 1)
        /\ u \in a .. (s - 1)
        /\ Vim!move_line_start(u, t) = a
        /\ u - a <= c - s
        /\ \A i \in Vim!Newlines(t) : u <= i /\ i < c => i = s - 1
    BY <1>5, UpIs
  <2>2. Column(u) <= Column(c)
    BY <2>1
  <2> HIDE DEF s, a, u
  <2>3. u <= s - 1 /\ s - 1 < c /\ u \in 0..Len(t)
    BY <1>1, <2>1
  <2>4. Line(c) = Line(u) + 1
    BY <2>1, <2>3, NextLine
  <2>5. Line(u) \in Int
    <3>1. IsFiniteSet(0..Len(t))
      BY <1>1, FS_Interval
    <3>2. {i \in Vim!Newlines(t) : i < u} \in SUBSET (0..Len(t))
      BY <1>1
    <3>3. IsFiniteSet({i \in Vim!Newlines(t) : i < u})
      BY <3>1, <3>2, FS_Subset
    <3> QED
      BY <3>3, FS_CardinalityType, CardinalityIs
  <2>6. Line(u) = Line(c) - 1
    <3> DEFINE x == Line(u)
               y == Line(c)
    <3>1. y = x + 1 /\ x \in Int
      BY <2>4, <2>5
    <3> HIDE DEF x, y
    <3>2. x = y - 1
      BY <3>1
    <3> QED
      BY <3>2 DEF x, y
  <2> QED
    BY <2>2, <2>6 DEF u
<1>6. ASSUME d # c, Column(d) = Column(c) PROVE Vim!move_up(d, t) = c
  <2>1. e # Len(t)
    BY <1>6 DEF Vim!move_down
  <2>2. /\ s \in 0..c /\ e \in c .. (Len(t) - 1) /\ e \in Vim!Newlines(t)
        /\ d \in (e + 1)..Len(t)
        /\ Vim!move_line_start(d, t) = e + 1
    BY <2>1, DownIs
  <2>3. \A i \in Vim!Newlines(t) : ~(c <= i /\ i < e)
    BY LineStops
  <2>4. (s = 0 \/ s - 1 \in Vim!Newlines(t)) /\ \A i \in Vim!Newlines(t) : ~(s <= i /\ i < c)
    BY LineStarts
  <2>5. d - (e + 1) = c - s
    BY <1>6, <2>2
  <2> HIDE DEF s, e, d
  <2>6. d \in 0..Len(t) /\ e + 1 # 0 /\ (e + 1) - 1 = e /\ e \in 0..Len(t) /\ s \in 0..e
    BY <1>1, <2>2
  <2>7. \A i \in Vim!Newlines(t) : ~(s <= i /\ i < e)
    BY <1>1, <2>2, <2>3, <2>4
  <2>8. Vim!move_line_start(e, t) = s
    BY <2>4, <2>6, <2>7, LineStartOf
  <2>9. Vim!move_up(d, t) = s + Vim!Shorter(d - (e + 1), e - s)
    BY <2>2, <2>6, <2>8 DEF Vim!move_up
  <2>10. Vim!Shorter(d - (e + 1), e - s) = c - s
    BY <1>1, <2>2, <2>5 DEF Vim!Shorter
  <2> QED
    BY <1>1, <2>2, <2>9, <2>10
<1> HIDE DEF s, e, d, u
<1>7. /\ ~Vim!is_on_last_line(c, t) => Line(d) = Line(c) + 1 /\ Column(d) <= Column(c)
      /\ ~Vim!is_on_first_line(c, t) => Line(u) = Line(c) - 1 /\ Column(u) <= Column(c)
      /\ d # c /\ Column(d) = Column(c) => Vim!move_up(d, t) = c
  BY <1>2, <1>3, <1>4, <1>5, <1>6
<1> QED
  BY <1>7 DEF Vim!LinesAdjacent, d, u

(* Counts over a range split where the range is split, for any set of      *)
(* places.                                                                 *)
Count(P, i, j) == Cardinality({q \in i..j : q \in P})

LEMMA CountSplits ==
    ASSUME NEW P, NEW i \in Int, NEW k \in Int, NEW j \in Int, i <= k + 1, k <= j
    PROVE  /\ Count(P, i, j) \in Nat
           /\ Count(P, i, j) = Count(P, i, k) + Count(P, k + 1, j)
<1> DEFINE A == {q \in i..k : q \in P}
           B == {q \in (k + 1)..j : q \in P}
           C == {q \in i..j : q \in P}
<1>1. IsFiniteSet(i..k) /\ IsFiniteSet((k + 1)..j)
  BY FS_Interval
<1>2. IsFiniteSet(A) /\ IsFiniteSet(B)
  <2>1. A \in SUBSET (i..k) /\ B \in SUBSET ((k + 1)..j)
    OBVIOUS
  <2> HIDE DEF A, B
  <2> QED
    BY <1>1, <2>1, FS_Subset
<1>3. C = A \cup B
  <2>1. ASSUME NEW q \in C PROVE q \in A \cup B
    OBVIOUS
  <2>2. ASSUME NEW q \in A \cup B PROVE q \in C
    OBVIOUS
  <2> QED
    BY <2>1, <2>2
<1>4. A \cap B = {}
  OBVIOUS
<1> HIDE DEF A, B, C
<1>5. Cardinality(A) \in Nat /\ Cardinality(B) \in Nat
  BY <1>2, FS_CardinalityType
<1>6. Cardinality(C) = Cardinality(A) + Cardinality(B) - Cardinality({})
  BY <1>2, <1>3, <1>4, FS_Union
<1>7. Cardinality(C) = Cardinality(A) + Cardinality(B)
  BY <1>5, <1>6, FS_EmptySet
<1> QED
  BY <1>5, <1>7 DEF A, B, C, Count

LEMMA CountOne ==
    ASSUME NEW P, NEW i \in Int
    PROVE  Count(P, i, i) = IF i \in P THEN 1 ELSE 0
<1>1. CASE i \in P
  <2>1. {q \in i..i : q \in P} = {i}
    BY <1>1
  <2> QED
    BY <1>1, <2>1, FS_Singleton DEF Count
<1>2. CASE i \notin P
  <2>1. {q \in i..i : q \in P} = {}
    BY <1>2
  <2> QED
    BY <1>2, <2>1, FS_EmptySet DEF Count
<1> QED
  BY <1>1, <1>2

(* Openings minus closings, of a text at offsets that are in it.           *)
Weight(t, i) == IF Vim!Byte(t, i) = "(" THEN 1 ELSE IF Vim!Byte(t, i) = ")" THEN -1 ELSE 0

LEMMA DepthSplits ==
    ASSUME NEW t, NEW i \in Int, NEW k \in Int, NEW j \in Int, i <= k + 1, k <= j
    PROVE  /\ Vim!Depth(t, i, j) \in Int /\ Vim!Depth(t, i, k) \in Int /\ Vim!Depth(t, k + 1, j) \in Int
           /\ Vim!Depth(t, i, j) = Vim!Depth(t, i, k) + Vim!Depth(t, k + 1, j)
<1> DEFINE O == {q \in Int : Vim!Byte(t, q) = "("}
           C == {q \in Int : Vim!Byte(t, q) = ")"}
<1>1. ASSUME NEW a \in Int, NEW b \in Int
      PROVE  Vim!Depth(t, a, b) = Count(O, a, b) - Count(C, a, b)
  <2>1. {q \in a..b : q \in O} = {q \in a..b : Vim!Byte(t, q) = "("}
    OBVIOUS
  <2>2. {q \in a..b : q \in C} = {q \in a..b : Vim!Byte(t, q) = ")"}
    OBVIOUS
  <2> QED
    BY <2>1, <2>2, CardinalityIs DEF Vim!Depth, Count
<1> HIDE DEF O, C
<1>2. \A P : /\ Count(P, i, j) \in Nat
             /\ Count(P, i, j) = Count(P, i, k) + Count(P, k + 1, j)
  BY CountSplits
<1>3. \A P : Count(P, i, k) \in Nat
  <2>1. k <= k
    OBVIOUS
  <2> QED
    BY <2>1, CountSplits
<1>4. \A P : Count(P, k + 1, j) \in Nat
  <2>1. k + 1 \in Int /\ k + 1 <= k + 1
    OBVIOUS
  <2> QED
    BY <2>1, CountSplits
<1>5. Vim!Depth(t, i, j) = Count(O, i, j) - Count(C, i, j)
  BY <1>1
<1>6. Vim!Depth(t, i, k) = Count(O, i, k) - Count(C, i, k)
  BY <1>1
<1>7. Vim!Depth(t, k + 1, j) = Count(O, k + 1, j) - Count(C, k + 1, j)
  <2>1. k + 1 \in Int
    OBVIOUS
  <2> QED
    BY <1>1, <2>1
<1> DEFINE a == Count(O, i, k)
           b == Count(C, i, k)
           c == Count(O, k + 1, j)
           d == Count(C, k + 1, j)
<1>8. Count(O, i, j) = a + c /\ Count(C, i, j) = b + d
  BY <1>2
<1>9. a \in Nat /\ b \in Nat /\ c \in Nat /\ d \in Nat
  BY <1>3, <1>4
<1>10. Vim!Depth(t, i, j) = (a + c) - (b + d) /\ Vim!Depth(t, i, k) = a - b /\ Vim!Depth(t, k + 1, j) = c - d
  BY <1>5, <1>6, <1>7, <1>8
<1> HIDE DEF a, b, c, d
<1> QED
  BY <1>9, <1>10

LEMMA DepthOne ==
    ASSUME NEW t, NEW i \in Int
    PROVE  Vim!Depth(t, i, i) = Weight(t, i) /\ Weight(t, i) \in {-1, 0, 1}
<1> DEFINE O == {q \in Int : Vim!Byte(t, q) = "("}
           C == {q \in Int : Vim!Byte(t, q) = ")"}
<1>1. {q \in i..i : q \in O} = {q \in i..i : Vim!Byte(t, q) = "("}
  OBVIOUS
<1>2. {q \in i..i : q \in C} = {q \in i..i : Vim!Byte(t, q) = ")"}
  OBVIOUS
<1>3. Vim!Depth(t, i, i) = Count(O, i, i) - Count(C, i, i)
  BY <1>1, <1>2, CardinalityIs DEF Vim!Depth, Count
<1>4. i \in O <=> Vim!Byte(t, i) = "("
  OBVIOUS
<1>5. i \in C <=> Vim!Byte(t, i) = ")"
  OBVIOUS
<1> HIDE DEF O, C
<1>6. Count(O, i, i) = IF i \in O THEN 1 ELSE 0
  BY CountOne
<1>7. Count(C, i, i) = IF i \in C THEN 1 ELSE 0
  BY CountOne
<1> QED
  BY <1>3, <1>4, <1>5, <1>6, <1>7 DEF Weight

LEMMA DepthSteps ==
    ASSUME NEW t, NEW i \in Int, NEW j \in Int, i < j
    PROVE  /\ Vim!Depth(t, i, j) \in Int /\ Vim!Depth(t, i, j - 1) \in Int /\ Vim!Depth(t, i + 1, j) \in Int
           /\ Vim!Depth(t, i, j) = Vim!Depth(t, i, j - 1) + Weight(t, j)
           /\ Vim!Depth(t, i, j) = Weight(t, i) + Vim!Depth(t, i + 1, j)
<1>1. j - 1 \in Int /\ (j - 1) + 1 = j /\ i <= (j - 1) + 1 /\ j - 1 <= j
  OBVIOUS
<1>2. i <= i + 1 /\ i <= j
  OBVIOUS
<1>3. /\ Vim!Depth(t, i, j) \in Int /\ Vim!Depth(t, i, j - 1) \in Int
      /\ Vim!Depth(t, i, j) = Vim!Depth(t, i, j - 1) + Vim!Depth(t, (j - 1) + 1, j)
  BY <1>1, DepthSplits
<1>4. /\ Vim!Depth(t, i + 1, j) \in Int
      /\ Vim!Depth(t, i, j) = Vim!Depth(t, i, i) + Vim!Depth(t, i + 1, j)
  BY <1>2, DepthSplits
<1>5. Vim!Depth(t, i, i) = Weight(t, i) /\ Vim!Depth(t, j, j) = Weight(t, j)
  BY DepthOne
<1> QED
  BY <1>1, <1>3, <1>4, <1>5

(* From an opening bracket the first place of depth zero holds its closing *)
(* one, and from there the way leads back.                                 *)
LEMMA BracketCloses ==
    ASSUME NEW t \in Seq(Bytes), NEW c \in 0 .. Len(t) - 1, NEW m \in (c + 1) .. (Len(t) - 1),
           Vim!Byte(t, c) = "(", Vim!Depth(t, c, m) = 0,
           \A q \in (c + 1) .. (m - 1) : Vim!Depth(t, c, q) # 0
    PROVE  Vim!Byte(t, m) = ")" /\ Vim!move_to_matching_bracket(m, t) = c
<1>1. Len(t) \in Nat /\ c \in Int /\ m \in Int /\ c < m /\ m < Len(t) /\ 0 <= c
  BY BytesOf
<1>2. ASSUME NEW q \in c .. (m - 1) PROVE Vim!Depth(t, c, q) \in Int /\ Vim!Depth(t, c, q) >= 1
  <2> DEFINE Bad == {d \in 0 .. (m - 1 - c) : ~(Vim!Depth(t, c, c + d) >= 1)}
  <2>1. Bad = {}
    <3> SUFFICES ASSUME Bad # {} PROVE FALSE
      OBVIOUS
    <3>1. Bad \in SUBSET Nat
      BY <1>1
    <3> HIDE DEF Bad
    <3>2. PICK d \in Bad : \A x \in Bad : d <= x
      BY <3>1, LeastOf
    <3>3. d \in 0 .. (m - 1 - c) /\ ~(Vim!Depth(t, c, c + d) >= 1)
      BY <3>2 DEF Bad
    <3>4. CASE d = 0
      <4>1. c + d = c
        BY <1>1, <3>4
      <4>2. Vim!Depth(t, c, c) = 1
        BY <1>1, DepthOne DEF Weight
      <4> QED
        BY <3>3, <4>1, <4>2
    <3>5. CASE d # 0
      <4>1. d - 1 \in 0 .. (m - 1 - c) /\ d - 1 \notin Bad /\ c + (d - 1) = (c + d) - 1
            /\ c + d \in Int /\ c < c + d /\ c + d \in (c + 1) .. (m - 1)
        BY <1>1, <3>1, <3>2, <3>3, <3>5
      <4>2. Vim!Depth(t, c, (c + d) - 1) >= 1
        BY <4>1 DEF Bad
      <4>3. /\ Vim!Depth(t, c, c + d) \in Int /\ Vim!Depth(t, c, (c + d) - 1) \in Int
            /\ Vim!Depth(t, c, c + d) = Vim!Depth(t, c, (c + d) - 1) + Weight(t, c + d)
        BY <1>1, <4>1, DepthSteps
      <4>4. Weight(t, c + d) \in {-1, 0, 1}
        BY <4>1, DepthOne
      <4>5. Vim!Depth(t, c, c + d) # 0
        BY <4>1
      <4> QED
        BY <3>3, <4>2, <4>3, <4>4, <4>5
    <3> QED
      BY <3>4, <3>5
  <2>2. q - c \in 0 .. (m - 1 - c) /\ c + (q - c) = q /\ q \in Int
    BY <1>1
  <2>3. Vim!Depth(t, c, q) >= 1
    BY <2>1, <2>2
  <2>4. Vim!Depth(t, c, q) \in Int
    <3>1. c <= q + 1 /\ q <= q
      BY <1>1, <2>2
    <3> QED
      BY <1>1, <2>2, <3>1, DepthSplits
  <2> QED
    BY <2>3, <2>4
<1>3. Vim!Byte(t, m) = ")"
  <2>1. m - 1 \in c .. (m - 1)
    BY <1>1
  <2>2. Vim!Depth(t, c, m) = Vim!Depth(t, c, m - 1) + Weight(t, m) /\ Weight(t, m) \in {-1, 0, 1}
    BY <1>1, DepthSteps, DepthOne
  <2>3. Weight(t, m) = -1
    BY <1>2, <2>1, <2>2
  <2> QED
    BY <2>3 DEF Weight
<1> DEFINE hits == {q \in 0 .. m - 1 : Vim!Depth(t, q, m) = 0}
<1>4. Vim!move_to_matching_bracket(m, t) = IF hits = {} THEN m ELSE Vim!Max(hits)
  BY <1>1, <1>3 DEF Vim!move_to_matching_bracket
<1>5. c \in hits /\ hits \in SUBSET (0..m) /\ m \in Nat
  BY <1>1
<1>6. ASSUME NEW q \in hits PROVE q <= c /\ q \in Int
  <2>1. q \in 0 .. m - 1 /\ Vim!Depth(t, q, m) = 0
    OBVIOUS
  <2> HIDE DEF hits
  <2>2. ASSUME q > c PROVE FALSE
    <3>1. q - 1 \in c .. (m - 1) /\ q - 1 \in Int /\ (q - 1) + 1 = q /\ c <= (q - 1) + 1 /\ q - 1 <= m
      BY <1>1, <2>1, <2>2
    <3>2. Vim!Depth(t, c, m) = Vim!Depth(t, c, q - 1) + Vim!Depth(t, (q - 1) + 1, m)
      BY <1>1, <3>1, DepthSplits
    <3>3. 0 = Vim!Depth(t, c, q - 1) + 0
      BY <2>1, <3>1, <3>2
    <3> QED
      BY <1>2, <3>1, <3>3
  <2> QED
    BY <1>1, <2>1, <2>2
<1> HIDE DEF hits
<1>7. Vim!Max(hits) \in hits /\ Vim!Max(hits) >= c
  BY <1>5, MaxIs
<1>8. Vim!Max(hits) = c
  <2>1. Vim!Max(hits) <= c /\ Vim!Max(hits) \in Int
    BY <1>6, <1>7
  <2> QED
    BY <1>1, <1>7, <2>1
<1> QED
  BY <1>3, <1>4, <1>5, <1>8

LEMMA BracketOpens ==
    ASSUME NEW t \in Seq(Bytes), NEW c \in 0 .. Len(t) - 1, NEW m \in 0 .. (c - 1),
           Vim!Byte(t, c) = ")", Vim!Depth(t, m, c) = 0,
           \A q \in (m + 1) .. (c - 1) : Vim!Depth(t, q, c) # 0
    PROVE  Vim!Byte(t, m) = "(" /\ Vim!move_to_matching_bracket(m, t) = c
<1>1. Len(t) \in Nat /\ c \in Int /\ m \in Int /\ m < c /\ c < Len(t) /\ 0 <= m
  BY BytesOf
<1>2. ASSUME NEW q \in (m + 1) .. c PROVE Vim!Depth(t, q, c) \in Int /\ Vim!Depth(t, q, c) <= -1
  <2> DEFINE Bad == {d \in 0 .. (c - 1 - m) : ~(Vim!Depth(t, c - d, c) <= -1)}
  <2>1. Bad = {}
    <3> SUFFICES ASSUME Bad # {} PROVE FALSE
      OBVIOUS
    <3>1. Bad \in SUBSET Nat
      BY <1>1
    <3> HIDE DEF Bad
    <3>2. PICK d \in Bad : \A x \in Bad : d <= x
      BY <3>1, LeastOf
    <3>3. d \in 0 .. (c - 1 - m) /\ ~(Vim!Depth(t, c - d, c) <= -1)
      BY <3>2 DEF Bad
    <3>4. CASE d = 0
      <4>1. c - d = c
        BY <1>1, <3>4
      <4>2. Vim!Depth(t, c, c) = -1
        BY <1>1, DepthOne DEF Weight
      <4> QED
        BY <3>3, <4>1, <4>2
    <3>5. CASE d # 0
      <4>1. d - 1 \in 0 .. (c - 1 - m) /\ d - 1 \notin Bad /\ c - (d - 1) = (c - d) + 1
            /\ c - d \in Int /\ c - d < c /\ c - d \in (m + 1) .. (c - 1)
        BY <1>1, <3>1, <3>2, <3>3, <3>5
      <4>2. Vim!Depth(t, (c - d) + 1, c) <= -1
        BY <4>1 DEF Bad
      <4>3. /\ Vim!Depth(t, c - d, c) \in Int /\ Vim!Depth(t, (c - d) + 1, c) \in Int
            /\ Vim!Depth(t, c - d, c) = Weight(t, c - d) + Vim!Depth(t, (c - d) + 1, c)
        BY <1>1, <4>1, DepthSteps
      <4>4. Weight(t, c - d) \in {-1, 0, 1}
        BY <4>1, DepthOne
      <4>5. Vim!Depth(t, c - d, c) # 0
        BY <4>1
      <4> QED
        BY <3>3, <4>2, <4>3, <4>4, <4>5
    <3> QED
      BY <3>4, <3>5
  <2>2. c - q \in 0 .. (c - 1 - m) /\ c - (c - q) = q /\ q \in Int
    BY <1>1
  <2>3. Vim!Depth(t, q, c) <= -1
    BY <2>1, <2>2
  <2>4. Vim!Depth(t, q, c) \in Int
    <3>1. q <= c + 1 /\ c <= c
      BY <1>1, <2>2
    <3> QED
      BY <1>1, <2>2, <3>1, DepthSplits
  <2> QED
    BY <2>3, <2>4
<1>3. Vim!Byte(t, m) = "("
  <2>1. m + 1 \in (m + 1) .. c
    BY <1>1
  <2>2. Vim!Depth(t, m, c) = Weight(t, m) + Vim!Depth(t, m + 1, c) /\ Weight(t, m) \in {-1, 0, 1}
    BY <1>1, DepthSteps, DepthOne
  <2>3. Weight(t, m) = 1
    BY <1>2, <2>1, <2>2
  <2> QED
    BY <2>3 DEF Weight
<1> DEFINE hits == {q \in m + 1 .. Len(t) - 1 : Vim!Depth(t, m, q) = 0}
<1>4. Vim!move_to_matching_bracket(m, t) = IF hits = {} THEN m ELSE Vim!Min(hits)
  BY <1>1, <1>3 DEF Vim!move_to_matching_bracket
<1>5. c \in hits /\ hits \in SUBSET Nat
  BY <1>1
<1>6. ASSUME NEW q \in hits PROVE c <= q /\ q \in Int
  <2>1. q \in m + 1 .. Len(t) - 1 /\ Vim!Depth(t, m, q) = 0
    OBVIOUS
  <2> HIDE DEF hits
  <2>2. ASSUME q < c PROVE FALSE
    <3>1. q + 1 \in (m + 1) .. c /\ q \in Int /\ m <= q + 1 /\ q <= c
      BY <1>1, <2>1, <2>2
    <3>2. Vim!Depth(t, m, c) = Vim!Depth(t, m, q) + Vim!Depth(t, q + 1, c)
      BY <1>1, <3>1, DepthSplits
    <3>3. 0 = 0 + Vim!Depth(t, q + 1, c)
      BY <2>1, <3>2
    <3> QED
      BY <1>2, <3>1, <3>3
  <2> QED
    BY <1>1, <2>1, <2>2
<1> HIDE DEF hits
<1>7. Vim!Min(hits) \in hits /\ Vim!Min(hits) <= c
  BY <1>5, MinIs
<1>8. Vim!Min(hits) = c
  <2>1. Vim!Min(hits) >= c /\ Vim!Min(hits) \in Int
    BY <1>6, <1>7
  <2> QED
    BY <1>1, <1>7, <2>1
<1> QED
  BY <1>3, <1>4, <1>5, <1>8

(* Where % goes, and that it comes back.                                   *)
LEMMA BracketsExact ==
    ASSUME NEW t \in Seq(Bytes), NEW c \in 0..Len(t)
    PROVE  /\ Vim!BracketsPair(c, t)
           /\ LET m == Vim!move_to_matching_bracket(c, t)
              IN  m = c \/ (m \in 0 .. Len(t) - 1 /\ Vim!Byte(t, m) \in {"(", ")"})
<1> DEFINE m == Vim!move_to_matching_bracket(c, t)
<1>1. Len(t) \in Nat /\ c \in Nat
  BY BytesOf
<1>2. ASSUME NEW a \in 0..Len(t), NEW b \in 0..Len(t), a < b
      PROVE  /\ Vim!Min({a, b}) = a /\ Vim!Max({a, b}) = b /\ Vim!Min({b, a}) = a /\ Vim!Max({b, a}) = b
  <2>1. {a, b} \in SUBSET Nat /\ {a, b} \in SUBSET (0..Len(t)) /\ {a, b} # {} /\ {b, a} = {a, b}
    BY <1>1
  <2> DEFINE X == {a, b}
  <2>2. a \in X /\ b \in X /\ \A x \in X : x = a \/ x = b
    OBVIOUS
  <2>3. X \in SUBSET Nat /\ X \in SUBSET (0..Len(t)) /\ X # {} /\ {b, a} = X
    BY <2>1
  <2> HIDE DEF X
  <2>4. Vim!Min(X) \in X /\ Vim!Min(X) <= a /\ Vim!Max(X) \in X /\ Vim!Max(X) >= b
    BY <1>1, <2>2, <2>3, MinIs, MaxIs
  <2>5. a \in Int /\ b \in Int /\ Vim!Min(X) # b /\ Vim!Max(X) # a
    BY <1>1, <1>2, <2>4
  <2>6. Vim!Min(X) = a /\ Vim!Max(X) = b
    BY <2>2, <2>4, <2>5
  <2> QED
    BY <2>3, <2>6 DEF X
<1>3. CASE c < Len(t) /\ Vim!Byte(t, c) = "("
  <2> DEFINE hits == {q \in c + 1 .. Len(t) - 1 : Vim!Depth(t, c, q) = 0}
  <2>1. m = IF hits = {} THEN c ELSE Vim!Min(hits)
    BY <1>1, <1>3 DEF Vim!move_to_matching_bracket
  <2>2. CASE hits = {}
    BY <2>1, <2>2 DEF Vim!BracketsPair
  <2>3. CASE hits # {}
    <3>1. hits \in SUBSET Nat
      BY <1>1
    <3>2. m = Vim!Min(hits)
      BY <2>1, <2>3
    <3> HIDE DEF hits, m
    <3>3. m \in hits /\ \A q \in hits : m <= q
      BY <2>3, <3>1, <3>2, MinIs
    <3>4. m \in (c + 1) .. (Len(t) - 1) /\ Vim!Depth(t, c, m) = 0
      BY <3>3 DEF hits
    <3>5. ASSUME NEW q \in (c + 1) .. (m - 1) PROVE Vim!Depth(t, c, q) # 0
      <4>1. q \notin hits /\ q \in c + 1 .. Len(t) - 1
        BY <1>1, <3>3, <3>4
      <4> QED
        BY <4>1 DEF hits
    <3>6. c \in 0 .. Len(t) - 1 /\ c < m /\ m \in 0..Len(t) /\ m \in 0 .. Len(t) - 1
      BY <1>1, <1>3, <3>4
    <3>7. Vim!Byte(t, m) = ")" /\ Vim!move_to_matching_bracket(m, t) = c
      BY <1>3, <3>4, <3>5, <3>6, BracketCloses
    <3>8. Vim!Min({m, c}) = c /\ Vim!Max({m, c}) = m
      BY <1>2, <3>6
    <3> QED
      BY <3>4, <3>6, <3>7, <3>8 DEF m, Vim!BracketsPair
  <2> QED
    BY <2>2, <2>3
<1>4. CASE c < Len(t) /\ Vim!Byte(t, c) = ")"
  <2> DEFINE hits == {q \in 0 .. c - 1 : Vim!Depth(t, q, c) = 0}
  <2>1. m = IF hits = {} THEN c ELSE Vim!Max(hits)
    BY <1>1, <1>4 DEF Vim!move_to_matching_bracket
  <2>2. CASE hits = {}
    BY <2>1, <2>2 DEF Vim!BracketsPair
  <2>3. CASE hits # {}
    <3>1. hits \in SUBSET (0..c)
      BY <1>1
    <3>2. m = Vim!Max(hits)
      BY <2>1, <2>3
    <3> HIDE DEF hits, m
    <3>3. m \in hits /\ \A q \in hits : m >= q
      BY <1>1, <2>3, <3>1, <3>2, MaxIs
    <3>4. m \in 0 .. (c - 1) /\ Vim!Depth(t, m, c) = 0
      BY <3>3 DEF hits
    <3>5. ASSUME NEW q \in (m + 1) .. (c - 1) PROVE Vim!Depth(t, q, c) # 0
      <4>1. q \notin hits /\ q \in 0 .. c - 1
        BY <1>1, <3>3, <3>4
      <4> QED
        BY <4>1 DEF hits
    <3>6. c \in 0 .. Len(t) - 1 /\ m < c /\ m \in 0..Len(t) /\ m \in 0 .. Len(t) - 1
      BY <1>1, <1>4, <3>4
    <3>7. Vim!Byte(t, m) = "(" /\ Vim!move_to_matching_bracket(m, t) = c
      BY <1>4, <3>4, <3>5, <3>6, BracketOpens
    <3>8. Vim!Min({m, c}) = m /\ Vim!Max({m, c}) = c
      BY <1>2, <3>6
    <3> QED
      BY <3>4, <3>6, <3>7, <3>8 DEF m, Vim!BracketsPair
  <2> QED
    BY <2>2, <2>3
<1>5. CASE c >= Len(t) \/ Vim!Byte(t, c) \notin {"(", ")"}
  <2> DEFINE hits == IF c >= Len(t) THEN {}
              ELSE CASE Vim!Byte(t, c) = "(" -> {q \in c + 1 .. Len(t) - 1 : Vim!Depth(t, c, q) = 0}
                     [] Vim!Byte(t, c) = ")" -> {q \in 0 .. c - 1 : Vim!Depth(t, q, c) = 0}
                     [] OTHER -> {}
  <2>1. hits = {}
    <3>1. CASE c >= Len(t)
      BY <3>1
    <3>2. CASE ~(c >= Len(t)) /\ Vim!Byte(t, c) \notin {"(", ")"}
      BY <3>2
    <3> QED
      BY <1>5, <3>1, <3>2
  <2>2. m = c
    <3> HIDE DEF hits
    <3> QED
      BY <2>1 DEF Vim!move_to_matching_bracket, hits
  <2> QED
    BY <2>2 DEF Vim!BracketsPair
<1> QED
  BY <1>1, <1>3, <1>4, <1>5

-----------------------------------------------------------------------------
(* The bytes of a text are whole characters: the second byte of a wide one *)
(* follows its first.                                                      *)
WholeText(t) == t \in Seq(Bytes) /\ \A i \in 1..Len(t) : t[i] = "C" => i > 1 /\ t[i - 1] = "L"

LEMMA WholeBytes ==
    ASSUME NEW t, WholeText(t)
    PROVE  /\ t \in Seq(Bytes) /\ Len(t) \in Nat
           /\ \A i \in 0 .. Len(t) - 1 : Vim!Byte(t, i) = "C" => i > 0 /\ Vim!Byte(t, i - 1) = "L"
           /\ \A i \in 0 .. Len(t) - 1 : Vim!is_char_boundary(t, i) <=> Vim!Byte(t, i) # "C"
           /\ Vim!is_char_boundary(t, 0) /\ Vim!is_char_boundary(t, Len(t))
<1>1. t \in Seq(Bytes) /\ \A i \in 1..Len(t) : t[i] = "C" => i > 1 /\ t[i - 1] = "L"
  BY DEF WholeText
<1>2. Len(t) \in Nat
  BY <1>1, LenProperties
<1>3. ASSUME NEW i \in 0 .. Len(t) - 1, Vim!Byte(t, i) = "C"
      PROVE  i > 0 /\ Vim!Byte(t, i - 1) = "L"
  <2>1. i + 1 \in 1..Len(t) /\ (i + 1) - 1 = (i - 1) + 1 /\ t[i + 1] = "C"
    BY <1>2, <1>3 DEF Vim!Byte
  <2>2. i + 1 > 1 /\ t[(i + 1) - 1] = "L"
    BY <1>1, <2>1
  <2> QED
    BY <1>2, <2>1, <2>2 DEF Vim!Byte
<1>4. ASSUME NEW i \in 0 .. Len(t) - 1
      PROVE  Vim!is_char_boundary(t, i) <=> Vim!Byte(t, i) # "C"
  <2>1. i < Len(t) /\ i # Len(t)
    BY <1>2
  <2>2. i = 0 => Vim!Byte(t, i) # "C"
    BY <1>2, <1>3
  <2> QED
    BY <2>1, <2>2, Zenon DEF Vim!is_char_boundary
<1>5. Vim!is_char_boundary(t, 0) /\ Vim!is_char_boundary(t, Len(t))
  BY DEF Vim!is_char_boundary
<1> QED
  BY <1>1, <1>2, <1>3, <1>4, <1>5

(* A motion to the nearest boundary on one side.                           *)
LEMMA NearestBoundary ==
    ASSUME NEW t, WholeText(t), NEW c \in 0..Len(t)
    PROVE  /\ c > 0 => Vim!Max({q \in Vim!Boundaries(t) : q < c}) \in Vim!Boundaries(t)
           /\ c < Len(t) => Vim!Min({q \in Vim!Boundaries(t) : q > c}) \in Vim!Boundaries(t)
<1>1. Len(t) \in Nat /\ 0 \in Vim!Boundaries(t) /\ Len(t) \in Vim!Boundaries(t)
  <2>1. Len(t) \in Nat /\ Vim!is_char_boundary(t, 0) /\ Vim!is_char_boundary(t, Len(t))
    BY WholeBytes
  <2>2. 0 \in 0..Len(t) /\ Len(t) \in 0..Len(t)
    BY <2>1
  <2> QED
    BY <2>1, <2>2, Zenon DEF Vim!Boundaries
<1>2. Vim!Boundaries(t) \in SUBSET (0..Len(t))
  BY DEF Vim!Boundaries
<1> DEFINE B == Vim!Boundaries(t)
           L == {q \in B : q < c}
           R == {q \in B : q > c}
<1> HIDE DEF B
<1>3. c > 0 => Vim!Max(L) \in B
  <2> SUFFICES ASSUME c > 0 PROVE Vim!Max(L) \in B
    OBVIOUS
  <2>1. L \in SUBSET (0..Len(t)) /\ 0 \in L /\ \A q \in L : q \in B
    BY <1>1, <1>2 DEF B
  <2> HIDE DEF L
  <2>2. Vim!Max(L) \in L
    BY <1>1, <2>1, MaxIs
  <2> QED
    BY <2>1, <2>2
<1>4. c < Len(t) => Vim!Min(R) \in B
  <2> SUFFICES ASSUME c < Len(t) PROVE Vim!Min(R) \in B
    OBVIOUS
  <2>1. \A q \in R : q \in B /\ q \in Nat
    BY <1>1, <1>2 DEF B
  <2>2. R \in SUBSET Nat /\ Len(t) \in R
    BY <1>1, <2>1 DEF B
  <2> HIDE DEF R
  <2>3. Vim!Min(R) \in R
    BY <2>2, MinIs
  <2> QED
    BY <2>1, <2>3
<1> QED
  BY <1>3, <1>4 DEF B

(* A word does not start inside a character.                               *)
LEMMA StartsAtBoundary ==
    ASSUME NEW t, WholeText(t), NEW i,
           i \in Vim!Starts(t, Vim!class_of) \/ i \in Vim!Starts(t, Vim!IsBlank)
    PROVE  Vim!is_char_boundary(t, i)
<1>1. t \in Seq(Bytes) /\ Len(t) \in Nat
  BY WholeBytes
<1>2. i \in 0..Len(t)
  BY <1>1, StartsIn
<1>3. /\ i < Len(t)
      /\ i = 0 \/ Vim!class_of(Vim!Byte(t, i - 1)) # Vim!class_of(Vim!Byte(t, i))
         \/ Vim!Byte(t, i - 1) \in Vim!White
  BY <1>1, <1>2, StartsAre
<1>4. i \in 0 .. Len(t) - 1
  BY <1>1, <1>2, <1>3
<1>5. Vim!Byte(t, i) # "C"
  <2> SUFFICES ASSUME Vim!Byte(t, i) = "C" PROVE FALSE
    OBVIOUS
  <2>1. i > 0 /\ Vim!Byte(t, i - 1) = "L"
    BY <1>4, WholeBytes
  <2>2. "L" \notin Vim!White /\ Vim!class_of("L") = Vim!class_of("C")
    BY DEF Vim!White, Vim!class_of
  <2>3. i # 0
    BY <1>2, <2>1
  <2> QED
    BY <1>3, <2>1, <2>2, <2>3
<1> QED
  BY <1>4, <1>5, WholeBytes

LEMMA WordMotions ==
    ASSUME NEW t, WholeText(t), NEW c \in 0..Len(t)
    PROVE  /\ Vim!is_char_boundary(t, Vim!move_word_forward(c, t))
           /\ Vim!is_char_boundary(t, Vim!move_word_backward(c, t))
           /\ Vim!is_char_boundary(t, Vim!move_word_forward_word(c, t))
           /\ Vim!is_char_boundary(t, Vim!move_word_backward_word(c, t))
<1>1. t \in Seq(Bytes) /\ Len(t) \in Nat
  BY WholeBytes
<1>2. Vim!is_char_boundary(t, 0) /\ Vim!is_char_boundary(t, Len(t))
  BY WholeBytes
<1>3. ASSUME NEW T \in SUBSET (0..Len(t)), \A i \in T : Vim!is_char_boundary(t, i), NEW f
      PROVE  /\ Vim!is_char_boundary(t, Vim!Min({Len(t)} \cup {i \in T : i > f}))
             /\ Vim!is_char_boundary(t, Vim!Max({0} \cup {i \in T : i < f}))
  <2> DEFINE H == {i \in T : i > f}
             K == {i \in T : i < f}
  <2>1. H \in SUBSET (0..Len(t)) /\ \A i \in H : i \in T
    OBVIOUS
  <2>2. K \in SUBSET (0..Len(t)) /\ \A i \in K : i \in T
    OBVIOUS
  <2> HIDE DEF H, K
  <2>3. 0 \in 0..Len(t)
    BY <1>1
  <2>4. Vim!Min({Len(t)} \cup H) \in {Len(t)} \cup H
    BY <1>1, <2>1, <2>3, MinFrom
  <2>5. Vim!Max({0} \cup K) \in {0} \cup K
    BY <1>1, <2>2, MaxUpto
  <2>6. \A i \in {Len(t)} \cup H : Vim!is_char_boundary(t, i)
    BY <1>2, <1>3, <2>1
  <2>7. \A i \in {0} \cup K : Vim!is_char_boundary(t, i)
    BY <1>2, <1>3, <2>2
  <2>8. Vim!is_char_boundary(t, Vim!Min({Len(t)} \cup H)) /\ Vim!is_char_boundary(t, Vim!Max({0} \cup K))
    BY <2>4, <2>5, <2>6, <2>7, Zenon
  <2> QED
    BY <2>8 DEF H, K
<1> DEFINE T == Vim!Starts(t, Vim!class_of)
           W == Vim!Starts(t, Vim!IsBlank)
<1>4. T \in SUBSET (0..Len(t)) /\ W \in SUBSET (0..Len(t))
  BY StartsIn
<1>5. (\A i \in T : Vim!is_char_boundary(t, i)) /\ (\A i \in W : Vim!is_char_boundary(t, i))
  BY StartsAtBoundary
<1>6. Vim!move_word_forward(c, t) = Vim!Min({Len(t)} \cup {i \in T : i > c})
  BY <1>1, WordForward
<1>7. Vim!move_word_backward(c, t) = Vim!Max({0} \cup {i \in T : i < Vim!OnLast(c, t)})
  BY <1>1, WordBackward
<1>8. Vim!move_word_forward_word(c, t) = Vim!Min({Len(t)} \cup {i \in W : i > c})
  BY <1>1, BigForward
<1>9. Vim!move_word_backward_word(c, t) = Vim!Max({0} \cup {i \in W : i < c})
  BY <1>1, BigBackward
<1> HIDE DEF T, W
<1>10. Vim!is_char_boundary(t, Vim!move_word_forward(c, t))
  BY <1>3, <1>4, <1>5, <1>6
<1>11. Vim!is_char_boundary(t, Vim!move_word_backward(c, t))
  BY <1>3, <1>4, <1>5, <1>7
<1>12. Vim!is_char_boundary(t, Vim!move_word_forward_word(c, t))
  BY <1>3, <1>4, <1>5, <1>8
<1>13. Vim!is_char_boundary(t, Vim!move_word_backward_word(c, t))
  BY <1>3, <1>4, <1>5, <1>9
<1> QED
  BY <1>10, <1>11, <1>12, <1>13

LEMMA LineMotions ==
    ASSUME NEW t, WholeText(t), NEW c \in 0..Len(t)
    PROVE  /\ Vim!is_char_boundary(t, Vim!move_line_start(c, t))
           /\ Vim!is_char_boundary(t, Vim!move_first_non_blank(c, t))
           /\ Vim!is_char_boundary(t, Vim!move_line_end(c, t))
<1>1. t \in Seq(Bytes) /\ Len(t) \in Nat
  BY WholeBytes
<1> DEFINE s == Vim!move_line_start(c, t)
           hits == {i \in s .. Len(t) - 1 : Vim!Byte(t, i) # "s"}
<1>2. s \in 0..c /\ (s = 0 \/ s - 1 \in Vim!Newlines(t))
  BY <1>1, LineStarts
<1>3. s < Len(t) => Vim!Byte(t, s) # "C"
  <2> SUFFICES ASSUME s < Len(t), Vim!Byte(t, s) = "C" PROVE FALSE
    OBVIOUS
  <2>1. s \in 0 .. Len(t) - 1
    BY <1>1, <1>2
  <2>2. s > 0 /\ Vim!Byte(t, s - 1) = "L"
    BY <2>1, WholeBytes
  <2>3. s - 1 \in Vim!Newlines(t)
    BY <1>2, <2>2
  <2>4. Vim!Byte(t, s - 1) = "n"
    BY <1>1, <2>3, NewlinesIn
  <2> QED
    BY <2>2, <2>4
<1>4. Vim!is_char_boundary(t, s)
  <2>1. s = Len(t) \/ s \in 0 .. Len(t) - 1
    BY <1>1, <1>2
  <2>2. CASE s = Len(t)
    BY <2>2, WholeBytes
  <2>3. CASE s \in 0 .. Len(t) - 1
    <3>1. Vim!Byte(t, s) # "C"
      BY <1>1, <1>3, <2>3
    <3> HIDE DEF s
    <3> QED
      BY <2>3, <3>1, WholeBytes
  <2> QED
    BY <2>1, <2>2, <2>3
<1>5. Vim!move_first_non_blank(c, t) = IF hits = {} THEN s ELSE Vim!Min(hits)
  BY DEF Vim!move_first_non_blank
<1> HIDE DEF s
<1>6. hits # {} => Vim!is_char_boundary(t, Vim!Min(hits))
  <2> SUFFICES ASSUME hits # {} PROVE Vim!is_char_boundary(t, Vim!Min(hits))
    OBVIOUS
  <2> DEFINE h == Vim!Min(hits)
  <2>1. \A i \in hits : i \in Nat
    BY <1>1, <1>2
  <2>2. hits \in SUBSET Nat
    BY <2>1
  <2>3. h \in hits /\ \A i \in hits : h <= i
    <3> HIDE DEF hits
    <3> QED
      BY <2>2, MinIs
  <2> HIDE DEF h
  <2>4. h \in s .. Len(t) - 1 /\ h \in 0 .. Len(t) - 1
    BY <1>1, <1>2, <2>3
  <2>5. Vim!Byte(t, h) # "C"
    <3> SUFFICES ASSUME Vim!Byte(t, h) = "C" PROVE FALSE
      OBVIOUS
    <3>1. h > 0 /\ Vim!Byte(t, h - 1) = "L"
      BY <2>4, WholeBytes
    <3>2. h # s
      BY <1>1, <1>3, <2>4
    <3>3. h - 1 \in s .. Len(t) - 1
      BY <1>1, <1>2, <2>4, <3>2
    <3>4. h - 1 \in hits
      BY <3>1, <3>3
    <3>5. h <= h - 1
      BY <2>3, <3>4
    <3> QED
      BY <2>4, <3>5
  <2>6. Vim!is_char_boundary(t, h)
    BY <2>4, <2>5, WholeBytes
  <2> QED
    BY <2>6 DEF h
<1>7. Vim!is_char_boundary(t, Vim!move_line_end(c, t))
  <2> DEFINE e == Vim!LineStop(c, t)
             q == Vim!Max({x \in Vim!Boundaries(t) : x < e})
  <2>1. e \in c..Len(t)
    BY <1>1, LineStops
  <2>2. Vim!move_line_end(c, t) = IF e = 0 THEN 0 ELSE q
    BY DEF Vim!move_line_end
  <2> HIDE DEF e
  <2>3. e \in 0..Len(t)
    BY <1>1, <2>1
  <2>4. e # 0 => q \in Vim!Boundaries(t)
    <3>1. e # 0 => e > 0
      BY <1>1, <2>3
    <3> QED
      BY <2>3, <3>1, NearestBoundary
  <2>5. e # 0 => Vim!is_char_boundary(t, q)
    BY <2>4, Zenon DEF Vim!Boundaries
  <2> QED
    BY <2>2, <2>5, WholeBytes
<1> QED
  BY <1>4, <1>5, <1>6, <1>7 DEF s

LEMMA StaysOnBoundary ==
    ASSUME NEW t, WholeText(t), NEW c \in Vim!Boundaries(t)
    PROVE  /\ Vim!move_left(c, t) \in Vim!Boundaries(t)
           /\ Vim!move_right(c, t) \in Vim!Boundaries(t)
           /\ Vim!BoundaryMotions(c, t)
<1>1. t \in Seq(Bytes) /\ Len(t) \in Nat
  BY WholeBytes
<1>2. c \in 0..Len(t) /\ Vim!is_char_boundary(t, c)
  BY DEF Vim!Boundaries
<1>3. Vim!move_left(c, t) \in Vim!Boundaries(t) /\ Vim!move_right(c, t) \in Vim!Boundaries(t)
  BY <1>2, NearestBoundary DEF Vim!move_left, Vim!move_right
<1>4. Vim!is_char_boundary(t, Vim!move_left(c, t)) /\ Vim!is_char_boundary(t, Vim!move_right(c, t))
  BY <1>3, Zenon DEF Vim!Boundaries
<1>5. Vim!is_char_boundary(t, Vim!move_to_matching_bracket(c, t))
  <2> DEFINE m == Vim!move_to_matching_bracket(c, t)
  <2>1. m = c \/ (m \in 0 .. Len(t) - 1 /\ Vim!Byte(t, m) \in {"(", ")"})
    BY <1>1, <1>2, BracketsExact
  <2> HIDE DEF m
  <2>2. Vim!is_char_boundary(t, m)
    BY <1>2, <2>1, WholeBytes
  <2> QED
    BY <2>2 DEF m
<1>6. Vim!BoundaryMotions(c, t)
  BY <1>2, <1>4, <1>5, LineMotions, WordMotions, Zenon DEF Vim!BoundaryMotions
<1> QED
  BY <1>3, <1>6

(* What is typed is whole characters, and the cursor is between two.       *)
MotionInv == WholeText(typed) /\ at \in Vim!Boundaries(typed)

LEMMA TypedChar ==
    ASSUME NEW ch \in {<<"k">>, <<"s">>, <<"n">>, <<"p">>, <<"(">>, <<")">>, <<"L", "C">>}
    PROVE  WholeText(ch) /\ (Len(ch) \in {1, 2}) /\ ch[1] # "C"
<1>1. {"k", "s", "n", "p", "(", ")", "L", "C"} = Bytes
  BY DEF Bytes, Vim!White, Vim!NotWhite
<1>2. \A b \in {"k", "s", "n", "p", "(", ")"} : WholeText(<<b>>) /\ Len(<<b>>) = 1 /\ <<b>>[1] # "C"
  BY <1>1 DEF WholeText
<1>3. WholeText(<<"L", "C">>) /\ Len(<<"L", "C">>) = 2 /\ <<"L", "C">>[1] # "C"
  <2>1. <<"L", "C">> \in Seq(Bytes)
    BY <1>1
  <2> QED
    BY <2>1 DEF WholeText
<1> QED
  BY <1>2, <1>3

LEMMA WholeAppend ==
    ASSUME NEW t, WholeText(t), NEW ch, WholeText(ch)
    PROVE  WholeText(t \o ch)
<1>1. t \in Seq(Bytes) /\ ch \in Seq(Bytes) /\ Len(t) \in Nat /\ Len(ch) \in Nat
  BY WholeBytes
<1>2. t \o ch \in Seq(Bytes) /\ Len(t \o ch) = Len(t) + Len(ch)
      /\ \A i \in 1 .. Len(t) + Len(ch) : (t \o ch)[i] = IF i <= Len(t) THEN t[i] ELSE ch[i - Len(t)]
  BY <1>1, ConcatProperties
<1>3. ASSUME NEW i \in 1 .. Len(t \o ch), (t \o ch)[i] = "C"
      PROVE  i > 1 /\ (t \o ch)[i - 1] = "L"
  <2>1. i \in 1 .. Len(t) + Len(ch)
    BY <1>2
  <2>2. CASE i <= Len(t)
    <3>1. i \in 1..Len(t) /\ t[i] = "C"
      BY <1>1, <1>2, <1>3, <2>1, <2>2
    <3>2. i > 1 /\ t[i - 1] = "L"
      BY <3>1 DEF WholeText
    <3>3. i - 1 \in 1 .. Len(t) + Len(ch) /\ i - 1 <= Len(t)
      BY <1>1, <2>1, <2>2, <3>2
    <3> QED
      BY <1>2, <3>2, <3>3
  <2>3. CASE i > Len(t)
    <3> DEFINE j == i - Len(t)
    <3>1. j \in 1..Len(ch) /\ ch[j] = "C"
      BY <1>1, <1>2, <1>3, <2>1, <2>3
    <3>2. j > 1 /\ ch[j - 1] = "L"
      BY <3>1 DEF WholeText
    <3>3. i - 1 \in 1 .. Len(t) + Len(ch) /\ ~(i - 1 <= Len(t)) /\ (i - 1) - Len(t) = j - 1 /\ i > 1
      BY <1>1, <2>1, <2>3, <3>2
    <3> HIDE DEF j
    <3> QED
      BY <1>2, <3>2, <3>3
  <2> QED
    BY <1>1, <2>1, <2>2, <2>3
<1> QED
  BY <1>2, <1>3 DEF WholeText

LEMMA MotionStarts == MotionInit => MotionInv
<1> SUFFICES ASSUME MotionInit PROVE MotionInv
  OBVIOUS
<1>1. typed = <<>> /\ at = 0
  BY DEF MotionInit
<1>2. WholeText(<<>>) /\ 0 \in Vim!Boundaries(<<>>)
  BY DEF WholeText, Vim!Boundaries, Vim!is_char_boundary
<1> QED
  BY <1>1, <1>2 DEF MotionInv

LEMMA MotionSteps == MotionInv /\ (Type \/ Move) => MotionInv'
<1> SUFFICES ASSUME MotionInv, Type \/ Move PROVE MotionInv'
  OBVIOUS
<1>1. WholeText(typed) /\ at \in Vim!Boundaries(typed)
  BY DEF MotionInv
<1>2. CASE Type
  <2>1. PICK ch \in {<<"k">>, <<"s">>, <<"n">>, <<"p">>, <<"(">>, <<")">>, <<"L", "C">>} :
          typed' = typed \o ch /\ at' = 0
    BY <1>2 DEF Type
  <2>2. WholeText(typed')
    BY <1>1, <2>1, TypedChar, WholeAppend
  <2>3. 0 \in 0..Len(typed') /\ Vim!is_char_boundary(typed', 0)
    BY <2>2, WholeBytes
  <2>4. 0 \in Vim!Boundaries(typed')
    BY <2>3, Zenon DEF Vim!Boundaries
  <2> QED
    BY <2>1, <2>2, <2>4 DEF MotionInv
<1>3. CASE Move
  <2>1. typed' = typed /\ at' = Vim!move_right(at, typed)
    BY <1>3 DEF Move
  <2>2. at' \in Vim!Boundaries(typed)
    BY <1>1, <2>1, StaysOnBoundary
  <2> QED
    BY <1>1, <2>1, <2>2 DEF MotionInv
<1> QED
  BY <1>2, <1>3

LEMMA MotionsExact ==
    ASSUME MotionInv
    PROVE  /\ Vim!ForwardToStart(at, typed) /\ Vim!BackwardToStart(at, typed)
           /\ Vim!EndOfWord(at, typed) /\ Vim!BracketsPair(at, typed)
           /\ Vim!LinesAdjacent(at, typed) /\ Vim!BoundaryMotions(at, typed)
<1>1. WholeText(typed) /\ at \in Vim!Boundaries(typed)
  BY DEF MotionInv
<1>2. typed \in Seq(Bytes) /\ at \in 0..Len(typed)
  BY <1>1, WholeBytes DEF Vim!Boundaries
<1> QED
  BY <1>1, <1>2, WordsExact, BracketsExact, LinesExact, StaysOnBoundary

-----------------------------------------------------------------------------
(***************************************************************************)
(* What the server reads off a line.  Quotes and open parentheses are      *)
(* counted over ranges of places.                                          *)
(***************************************************************************)
LEMMA CountNone ==
    ASSUME NEW P, NEW i \in Int, NEW j \in Int, \A k \in i..j : k \notin P
    PROVE  Count(P, i, j) = 0
<1>1. {q \in i..j : q \in P} = {}
  OBVIOUS
<1> QED
  BY <1>1, FS_EmptySet DEF Count

LEMMA CountSame ==
    ASSUME NEW P, NEW R, NEW i \in Int, NEW j \in Int, \A k \in i..j : k \in P <=> k \in R
    PROVE  Count(P, i, j) = Count(R, i, j)
<1>1. {q \in i..j : q \in P} = {q \in i..j : q \in R}
  OBVIOUS
<1> QED
  BY <1>1 DEF Count

LEMMA CountNext ==
    ASSUME NEW P, NEW i \in Int, NEW j \in Int, i <= j
    PROVE  /\ Count(P, i, j) \in Nat /\ Count(P, i, j - 1) \in Nat
           /\ Count(P, i, j) = Count(P, i, j - 1) + (IF j \in P THEN 1 ELSE 0)
<1>1. j - 1 \in Int /\ i <= (j - 1) + 1 /\ j - 1 <= j /\ (j - 1) + 1 = j /\ j - 1 <= j - 1
  OBVIOUS
<1>2. Count(P, i, j) \in Nat /\ Count(P, i, j) = Count(P, i, j - 1) + Count(P, j, j)
  BY <1>1, CountSplits
<1>3. Count(P, i, j - 1) \in Nat
  BY <1>1, CountSplits
<1> QED
  BY <1>2, <1>3, CountOne

LEMMA CountShift ==
    ASSUME NEW P, NEW R, NEW d \in Int, NEW n \in Nat,
           \A k \in 1..n : k \in R <=> k + d \in P
    PROVE  Count(R, 1, n) = Count(P, 1 + d, n + d)
<1> DEFINE G == {k \in 0..n : Count(R, 1, k) = Count(P, 1 + d, k + d)}
<1>1. 0 \in G
  <2>1. Count(R, 1, 0) = 0
    BY CountNone
  <2>2. Count(P, 1 + d, 0 + d) = 0
    <3>1. 1 + d \in Int /\ 0 + d \in Int /\ \A k \in (1 + d) .. (0 + d) : k \notin P
      OBVIOUS
    <3> QED
      BY <3>1, CountNone
  <2> QED
    BY <2>1, <2>2
<1>2. ASSUME NEW k \in 1..n, k - 1 \in G PROVE k \in G
  <2>1. Count(R, 1, k - 1) = Count(P, 1 + d, (k - 1) + d)
    BY <1>2
  <2>2. Count(R, 1, k) = Count(R, 1, k - 1) + (IF k \in R THEN 1 ELSE 0)
    BY CountNext
  <2>3. 1 + d \in Int /\ k + d \in Int /\ 1 + d <= k + d /\ (k + d) - 1 = (k - 1) + d
    OBVIOUS
  <2>4. Count(P, 1 + d, k + d) = Count(P, 1 + d, (k - 1) + d) + (IF k + d \in P THEN 1 ELSE 0)
    BY <2>3, CountNext
  <2>5. Count(R, 1, k) = Count(P, 1 + d, k + d)
    BY <2>1, <2>2, <2>4
  <2> QED
    BY <2>5
<1> HIDE DEF G
<1>3. n \in G
  BY <1>1, <1>2, AllReached
<1> QED
  BY <1>3 DEF G

LEMMA OddSum ==
    ASSUME NEW a \in Nat, NEW b \in Nat, a % 2 # 1
    PROVE  (a + b) % 2 = 1 <=> b % 2 = 1
  OBVIOUS

(* Where a line has its quotes, and the parentheses outside of strings.    *)
Quotes(p) == {k \in 1..Len(p) : p[k] = "q"}
Outside(p, T) == {k \in 1..Len(p) : p[k] \in T /\ ~Texts!is_in_string(Texts!Upto(p, k))}

LEMMA StringIs ==
    ASSUME NEW S, NEW p \in Seq(S)
    PROVE  Texts!is_in_string(p) <=> Count(Quotes(p), 1, Len(p)) % 2 = 1
<1>1. DOMAIN p = 1..Len(p)
  BY LenProperties
<1>2. {i \in DOMAIN p : p[i] = "q"} = {q \in 1..Len(p) : q \in Quotes(p)}
  BY <1>1 DEF Quotes
<1> QED
  BY <1>2, CardinalityIs DEF Texts!is_in_string, Count

LEMMA PartIs ==
    ASSUME NEW S, NEW p \in Seq(S), NEW i \in 1 .. Len(p) + 1, NEW j \in (i - 1)..Len(p)
    PROVE  LET s == SubSeq(p, i, j)
           IN  /\ s \in Seq(S) /\ Len(s) = (j - i) + 1 /\ Len(s) \in Nat
               /\ \A k \in 1..Len(s) : s[k] = p[k + (i - 1)]
<1>1. Len(p) \in Nat
  BY LenProperties
<1>2. \A k \in i..j : k \in 1..Len(p)
  BY <1>1
<1>3. SubSeq(p, i, j) \in Seq(S)
  <2>1. \A k \in i..j : p[k] \in S
    BY <1>2, ElementOfSeq
  <2> QED
    BY <1>1, <2>1, SubSeqProperties
<1>4. Len(SubSeq(p, i, j)) = IF i <= j THEN (j - i) + 1 ELSE 0
  BY <1>1, SubSeqProperties
<1>5. Len(SubSeq(p, i, j)) = (j - i) + 1 /\ Len(SubSeq(p, i, j)) \in Nat
  BY <1>1, <1>4
<1>6. \A k \in 1 .. (j - i) + 1 : SubSeq(p, i, j)[k] = p[k + (i - 1)]
  BY <1>1 
<1> QED
  BY <1>3, <1>5, <1>6

LEMMA QuotedIs ==
    ASSUME NEW S, NEW p \in Seq(S), NEW i \in 1 .. Len(p) + 1
    PROVE  Texts!is_in_string(Texts!Upto(p, i)) <=> Count(Quotes(p), 1, i - 1) % 2 = 1
<1> DEFINE s == SubSeq(p, 1, i - 1)
<1>1. Len(p) \in Nat /\ 1 \in 1 .. Len(p) + 1 /\ i - 1 \in 0..Len(p) /\ 1 - 1 = 0
  BY LenProperties
<1>2. s \in Seq(S) /\ Len(s) = i - 1 /\ \A k \in 1..Len(s) : s[k] = p[k]
  <2>1. s \in Seq(S) /\ Len(s) = ((i - 1) - 1) + 1 /\ \A k \in 1..Len(s) : s[k] = p[k + (1 - 1)]
    BY <1>1, PartIs
  <2> QED
    BY <1>1, <2>1
<1> HIDE DEF s
<1>3. Texts!is_in_string(s) <=> Count(Quotes(s), 1, i - 1) % 2 = 1
  BY <1>2, StringIs
<1>4. \A k \in 1 .. i - 1 : k \in Quotes(s) <=> k \in Quotes(p)
  BY <1>1, <1>2 DEF Quotes
<1>5. Count(Quotes(s), 1, i - 1) = Count(Quotes(p), 1, i - 1)
  BY <1>1, <1>4, CountSame
<1> QED
  BY <1>3, <1>5 DEF s, Texts!Upto

LEMMA UnmatchedIs ==
    ASSUME NEW S, NEW p \in Seq(S)
    PROVE  Texts!count_unmatched_parens(p) =
             Count(Outside(p, {"(", "A"}), 1, Len(p)) - Count(Outside(p, {")"}), 1, Len(p))
<1>1. DOMAIN p = 1..Len(p)
  BY LenProperties
<1>2. ASSUME NEW T
      PROVE  Texts!Cardinality({i \in DOMAIN p : p[i] \in T /\ ~Texts!is_in_string(Texts!Upto(p, i))})
               = Count(Outside(p, T), 1, Len(p))
  <2>1. {i \in DOMAIN p : p[i] \in T /\ ~Texts!is_in_string(Texts!Upto(p, i))}
          = {q \in 1..Len(p) : q \in Outside(p, T)}
    BY <1>1 DEF Outside
  <2> QED
    BY <2>1, CardinalityIs DEF Count
<1> QED
  BY <1>2 DEF Texts!count_unmatched_parens

(* Counted from a place that is outside of strings, a part of a line has   *)
(* the parentheses that the line has there.                                *)
LEMMA UnmatchedPart ==
    ASSUME NEW S, NEW p \in Seq(S), NEW i \in 1..Len(p), NEW j \in i..Len(p),
           ~Texts!is_in_string(Texts!Upto(p, i))
    PROVE  Texts!count_unmatched_parens(SubSeq(p, i, j)) =
             Count(Outside(p, {"(", "A"}), i, j) - Count(Outside(p, {")"}), i, j)
<1> DEFINE s == SubSeq(p, i, j)
           n == (j - i) + 1
           d == i - 1
           Q == Quotes(p)
<1>1. Len(p) \in Nat /\ i \in 1 .. Len(p) + 1 /\ j \in (i - 1)..Len(p)
  BY LenProperties
<1>2. s \in Seq(S) /\ Len(s) = n /\ \A k \in 1..n : s[k] = p[k + d]
  BY <1>1, PartIs
<1>3. n \in Nat /\ d \in Nat /\ 1 + d = i /\ n + d = j /\ \A k \in 1..n : k + d \in i..j /\ k + d \in 1..Len(p)
  BY <1>1
<1>4. Count(Q, 1, d) % 2 # 1
  BY <1>1, QuotedIs
<1> HIDE DEF s, n, d, Q
<1>5. ASSUME NEW k \in 1..n
      PROVE  Texts!is_in_string(Texts!Upto(s, k)) <=> Texts!is_in_string(Texts!Upto(p, k + d))
  <2> DEFINE R == Quotes(s)
             m == k - 1
  <2>1. m \in Nat /\ m <= n /\ \A h \in 1..m : h \in 1..n
    BY <1>3
  <2>2. Texts!is_in_string(Texts!Upto(s, k)) <=> Count(R, 1, m) % 2 = 1
    <3>1. k \in 1 .. Len(s) + 1
      BY <1>2, <1>3
    <3> QED
      BY <1>2, <3>1, QuotedIs
  <2>3. Texts!is_in_string(Texts!Upto(p, k + d)) <=> Count(Q, 1, m + d) % 2 = 1
    <3>1. k + d \in 1 .. Len(p) + 1 /\ (k + d) - 1 = m + d
      BY <1>1, <1>3
    <3> QED
      BY <3>1, QuotedIs DEF Q
  <2>4. \A h \in 1..m : h \in R <=> h + d \in Q
    <3> SUFFICES ASSUME NEW h \in 1..m PROVE h \in R <=> h + d \in Q
      OBVIOUS
    <3>1. h \in 1..n /\ h + d \in 1..Len(p) /\ s[h] = p[h + d]
      BY <1>2, <1>3, <2>1
    <3> QED
      BY <1>2, <3>1 DEF Quotes, Q
  <2> HIDE DEF R, m
  <2>5. Count(R, 1, m) = Count(Q, 1 + d, m + d)
    BY <1>3, <2>1, <2>4, CountShift
  <2>6. Count(Q, 1, m + d) = Count(Q, 1, d) + Count(Q, d + 1, m + d)
    BY <1>3, <2>1, CountSplits
  <2>7. Count(Q, 1, d) \in Nat /\ Count(Q, d + 1, m + d) \in Nat
    <3>1. Count(Q, 1, d) \in Nat
      BY <1>3, CountSplits
    <3>2. d + 1 \in Int /\ d \in Int /\ m + d \in Int /\ d + 1 <= (m + d) + 1 /\ m + d <= m + d
      BY <1>3, <2>1
    <3> QED
      BY <3>1, <3>2, CountSplits
  <2>8. Count(Q, 1, m + d) % 2 = 1 <=> Count(Q, d + 1, m + d) % 2 = 1
    BY <1>4, <2>6, <2>7, OddSum
  <2>9. 1 + d = d + 1
    BY <1>3
  <2> QED
    BY <2>2, <2>3, <2>5, <2>8, <2>9
<1>6. ASSUME NEW T PROVE Count(Outside(s, T), 1, n) = Count(Outside(p, T), i, j)
  <2>1. \A k \in 1..n : k \in Outside(s, T) <=> k + d \in Outside(p, T)
    BY <1>2, <1>3, <1>5 DEF Outside
  <2>2. Count(Outside(s, T), 1, n) = Count(Outside(p, T), 1 + d, n + d)
    BY <1>3, <2>1, CountShift
  <2> QED
    BY <1>3, <2>2
<1>7. Texts!count_unmatched_parens(s) =
        Count(Outside(s, {"(", "A"}), 1, n) - Count(Outside(s, {")"}), 1, n)
  BY <1>2, UnmatchedIs
<1> QED
  BY <1>6, <1>7 DEF s

LEMMA TextsExtremes ==
    ASSUME NEW S
    PROVE  Texts!Min(S) = Vim!Min(S) /\ Texts!Max(S) = Vim!Max(S)
  BY DEF Texts!Min, Texts!Max, Vim!Min, Vim!Max

(* What each context that is found says of the line.                       *)
LEMMA ContextSays ==
    ASSUME NEW p
    PROVE  LET t == Texts!Trimmed(p)
               c == Texts!detect_context(p)
           IN  /\ ~(t # <<>> /\ Head(t) = "I") =>
                    /\ c = "InString" <=> Texts!is_in_string(p)
                    /\ c \in {"InComment", "LintAllow"} <=> ~Texts!is_in_string(p) /\ Texts!InComment(p)
               /\ c = "LintAllow" =>
                    Texts!InComment(p) /\ Texts!is_in_seq_allow(Texts!After(p, Texts!LastHash(p)))
               /\ c = "InStackEffect" => Texts!count_unmatched_parens(p) > 0
<1> DEFINE t == Texts!Trimmed(p)
           c == Texts!detect_context(p)
           inc == t # <<>> /\ Head(t) = "I"
           name == t # <<>> /\ Head(t) = ":"
                     /\ Texts!ToSet(Texts!Trimmed(Tail(t))) \cap {"s", "I", "(", "A"} = {}
<1>1. c = IF inc THEN "IncludeModule"
          ELSE IF Texts!is_in_string(p) THEN "InString"
          ELSE IF Texts!InComment(p)
               THEN IF Texts!is_in_seq_allow(Texts!After(p, Texts!LastHash(p))) THEN "LintAllow" ELSE "InComment"
          ELSE IF name THEN "WordDefName"
          ELSE IF Texts!count_unmatched_parens(p) > 0 THEN "InStackEffect" ELSE "Code"
  BY DEF Texts!detect_context
<1> HIDE DEF inc, name, c
<1>2. /\ ~inc =>
           /\ c = "InString" <=> Texts!is_in_string(p)
           /\ c \in {"InComment", "LintAllow"} <=> ~Texts!is_in_string(p) /\ Texts!InComment(p)
      /\ c = "LintAllow" =>
           Texts!InComment(p) /\ Texts!is_in_seq_allow(Texts!After(p, Texts!LastHash(p)))
      /\ c = "InStackEffect" => Texts!count_unmatched_parens(p) > 0
  BY <1>1
<1> QED
  BY <1>2 DEF inc, c

LEMMA LastHashIs ==
    ASSUME NEW S, NEW p \in Seq(S), Texts!Contains(p, "#")
    PROVE  /\ Texts!LastHash(p) \in 1..Len(p) /\ p[Texts!LastHash(p)] = "#"
           /\ \A i \in 1..Len(p) : p[i] = "#" => Texts!LastHash(p) >= i
<1> DEFINE H == {i \in DOMAIN p : p[i] = "#"}
<1>1. DOMAIN p = 1..Len(p) /\ Len(p) \in Nat
  BY LenProperties
<1>2. H \in SUBSET (0..Len(p)) /\ H # {}
  BY <1>1 DEF Texts!Contains
<1>3. Texts!LastHash(p) = Vim!Max(H)
  BY TextsExtremes DEF Texts!LastHash
<1>4. Vim!Max(H) \in H /\ \A x \in H : Vim!Max(H) >= x
  <2> HIDE DEF H
  <2> QED
    BY <1>1, <1>2, MaxIs
<1> QED
  BY <1>1, <1>3, <1>4

(* The first hash outside of a string, with no quote after it, leaves every *)
(* place after it outside of strings.                                      *)
LEMMA CommentStays ==
    ASSUME NEW S, NEW p \in Seq(S), NEW m \in 1..Len(p),
           p[m] = "#", ~Texts!is_in_string(Texts!Upto(p, m)),
           ~Texts!Contains(Texts!After(p, m), "q")
    PROVE  /\ ~Texts!is_in_string(p)
           /\ \A i \in m..Len(p) : ~Texts!is_in_string(Texts!Upto(p, i))
<1> DEFINE Q == Quotes(p)
<1>1. Len(p) \in Nat /\ m \in 1 .. Len(p) + 1
  BY LenProperties
<1>2. \A k \in m..Len(p) : k \notin Q
  <2> SUFFICES ASSUME NEW k \in m..Len(p), p[k] = "q" PROVE FALSE
    BY DEF Quotes
  <2>1. k # m
    OBVIOUS
  <2> DEFINE s == SubSeq(p, m + 1, Len(p))
  <2>2. m + 1 \in 1 .. Len(p) + 1 /\ Len(p) \in ((m + 1) - 1)..Len(p)
    BY <1>1
  <2>3. Len(s) = (Len(p) - (m + 1)) + 1 /\ \A h \in 1..Len(s) : s[h] = p[h + ((m + 1) - 1)]
    BY <2>2, PartIs
  <2> HIDE DEF s
  <2>4. k - m \in 1..Len(s) /\ (k - m) + ((m + 1) - 1) = k
    BY <1>1, <2>1, <2>3
  <2>5. s[k - m] = "q"
    BY <2>3, <2>4
  <2>6. Texts!Contains(s, "q")
    BY <2>4, <2>5 DEF Texts!Contains
  <2> QED
    BY <2>6 DEF s, Texts!After
<1>3. Count(Q, 1, m - 1) % 2 # 1
  BY <1>1, QuotedIs
<1> HIDE DEF Q
<1>4. ASSUME NEW k \in (m - 1)..Len(p) PROVE Count(Q, 1, k) = Count(Q, 1, m - 1)
  <2>1. Count(Q, 1, k) = Count(Q, 1, m - 1) + Count(Q, (m - 1) + 1, k)
    BY <1>1, CountSplits
  <2>2. Count(Q, (m - 1) + 1, k) = 0
    BY <1>1, <1>2, CountNone
  <2>3. Count(Q, 1, m - 1) \in Nat
    BY <1>1, CountSplits
  <2> QED
    BY <2>1, <2>2, <2>3
<1>5. ~Texts!is_in_string(p)
  <2>1. Len(p) \in (m - 1)..Len(p)
    BY <1>1
  <2> QED
    BY <1>3, <1>4, <2>1, StringIs DEF Q
<1>6. ASSUME NEW i \in m..Len(p) PROVE ~Texts!is_in_string(Texts!Upto(p, i))
  <2>1. i \in 1 .. Len(p) + 1 /\ i - 1 \in (m - 1)..Len(p)
    BY <1>1
  <2> QED
    BY <1>3, <1>4, <2>1, QuotedIs DEF Q
<1> QED
  BY <1>5, <1>6

(* With more openings than closings there is an opening that nothing       *)
(* after it closes: the one after the last place where none was open.      *)
LEMMA OpenParen ==
    ASSUME NEW S, NEW p \in Seq(S), Texts!count_unmatched_parens(p) > 0
    PROVE  \E i \in 1..Len(p) :
             /\ p[i] \in {"(", "A"} /\ ~Texts!is_in_string(Texts!Upto(p, i))
             /\ \A j \in i..Len(p) : Texts!count_unmatched_parens(SubSeq(p, i, j)) > 0
<1> DEFINE O == Outside(p, {"(", "A"})
           C == Outside(p, {")"})
           U(k) == Count(O, 1, k) - Count(C, 1, k)
           Z == {k \in 0..Len(p) : U(k) <= 0}
<1>1. Len(p) \in Nat
  BY LenProperties
<1>2. U(Len(p)) > 0
  BY UnmatchedIs
<1>3. \A k \in 1..Len(p) : k \in O <=> p[k] \in {"(", "A"} /\ ~Texts!is_in_string(Texts!Upto(p, k))
  BY DEF Outside
<1> HIDE DEF O, C
<1>4. ASSUME NEW k \in 0..Len(p)
      PROVE  Count(O, 1, k) \in Nat /\ Count(C, 1, k) \in Nat
  <2>1. k \in Int /\ 1 <= k + 1 /\ k <= k
    OBVIOUS
  <2> QED
    BY <2>1, CountSplits
<1>5. 0 \in Z
  <2>1. Count(O, 1, 0) = 0 /\ Count(C, 1, 0) = 0
    BY CountNone
  <2> QED
    BY <1>1, <2>1
<1>6. Z \in SUBSET (0..Len(p))
  OBVIOUS
<1> DEFINE z == Vim!Max(Z)
<1>7. z \in Z /\ \A x \in Z : z >= x
  <2> HIDE DEF Z
  <2> QED
    BY <1>1, <1>5, <1>6, MaxIs
<1> HIDE DEF z
<1>8. z \in 0..Len(p) /\ U(z) <= 0 /\ \A k \in 0..Len(p) : k > z => U(k) > 0
  <2>1. z \in 0..Len(p) /\ U(z) <= 0
    BY <1>7
  <2>2. ASSUME NEW k \in 0..Len(p), k > z PROVE U(k) > 0
    <3>1. k \notin Z
      BY <1>1, <1>7, <2>1, <2>2
    <3>2. ~(U(k) <= 0)
      BY <3>1
    <3> QED
      BY <1>4, <3>2
  <2> QED
    BY <2>1, <2>2
<1>9. z # Len(p)
  BY <1>1, <1>2, <1>4, <1>8
<1> DEFINE i == z + 1
<1>10. i \in 1..Len(p) /\ i \in 0..Len(p) /\ i > z /\ i - 1 = z
  BY <1>1, <1>8, <1>9
<1> HIDE DEF i, Z
<1>11. i \in O
  <2>1. /\ Count(O, 1, i) = Count(O, 1, z) + (IF i \in O THEN 1 ELSE 0)
        /\ Count(C, 1, i) = Count(C, 1, z) + (IF i \in C THEN 1 ELSE 0)
    BY <1>10, CountNext
  <2>2. U(i) > 0 /\ U(z) <= 0
    BY <1>8, <1>10
  <2> QED
    BY <1>4, <1>8, <1>10, <2>1, <2>2
<1>12. p[i] \in {"(", "A"} /\ ~Texts!is_in_string(Texts!Upto(p, i))
  BY <1>3, <1>10, <1>11
<1>13. ASSUME NEW j \in i..Len(p) PROVE Texts!count_unmatched_parens(SubSeq(p, i, j)) > 0
  <2>1. j \in 0..Len(p) /\ j > z /\ j \in Int /\ z \in Int /\ 1 <= z + 1 /\ z <= j
    BY <1>8, <1>10
  <2>2. Texts!count_unmatched_parens(SubSeq(p, i, j)) = Count(O, i, j) - Count(C, i, j)
    BY <1>10, <1>12, UnmatchedPart DEF O, C
  <2>3. /\ Count(O, 1, j) = Count(O, 1, z) + Count(O, i, j)
        /\ Count(C, 1, j) = Count(C, 1, z) + Count(C, i, j)
    BY <2>1, CountSplits DEF i
  <2>4. Count(O, i, j) \in Nat /\ Count(C, i, j) \in Nat
    <3>1. i \in Int /\ i <= j + 1 /\ j <= j
      BY <1>10, <2>1
    <3> QED
      BY <2>1, <3>1, CountSplits
  <2>5. U(j) > 0 /\ U(z) <= 0
    BY <1>8, <2>1
  <2>6. Count(O, 1, z) \in Nat /\ Count(C, 1, z) \in Nat
    BY <1>4, <1>8
  <2> QED
    BY <2>2, <2>3, <2>4, <2>5, <2>6
<1> QED
  BY <1>10, <1>12, <1>13

LEMMA ContextExact ==
    ASSUME NEW S, prefix \in Seq(S)
    PROVE  Texts!ContextIsTrue
<1> DEFINE F == Texts!FirstComment
           c == Texts!detect_context(prefix)
<1> SUFFICES ASSUME ~Texts!Include,
                    F = {} \/ ~Texts!Contains(Texts!After(prefix, Texts!Min(F)), "q")
             PROVE  /\ Texts!Truly = "string" <=> c = "InString"
                    /\ Texts!Truly = "comment" <=> c \in {"InComment", "LintAllow"}
                    /\ c = "InStackEffect" =>
                         \E i \in DOMAIN prefix :
                           /\ prefix[i] \in {"(", "A"}
                           /\ ~Texts!is_in_string(Texts!Upto(prefix, i))
                           /\ ~\E j \in i .. Len(prefix) :
                                 /\ prefix[j] = ")" /\ ~Texts!is_in_string(Texts!Upto(prefix, j))
                                 /\ Texts!count_unmatched_parens(SubSeq(prefix, i, j)) <= 0
  BY Zenon DEF Texts!ContextIsTrue
<1>1. DOMAIN prefix = 1..Len(prefix) /\ Len(prefix) \in Nat
  BY LenProperties
<1>2. /\ c = "InString" <=> Texts!is_in_string(prefix)
      /\ c \in {"InComment", "LintAllow"} <=> ~Texts!is_in_string(prefix) /\ Texts!InComment(prefix)
      /\ c = "InStackEffect" => Texts!count_unmatched_parens(prefix) > 0
  BY ContextSays DEF Texts!Include
<1>3. \A i : i \in F <=> i \in 1..Len(prefix) /\ prefix[i] = "#" /\ ~Texts!is_in_string(Texts!Upto(prefix, i))
  BY <1>1 DEF Texts!FirstComment
<1>4. /\ Texts!Truly = "comment" <=> F # {}
      /\ Texts!Truly = "string" <=> F = {} /\ Texts!is_in_string(prefix)
  BY DEF Texts!Truly
<1> HIDE DEF F, c
<1>5. F # {} => ~Texts!is_in_string(prefix) /\ Texts!InComment(prefix)
  <2> SUFFICES ASSUME F # {} PROVE ~Texts!is_in_string(prefix) /\ Texts!InComment(prefix)
    OBVIOUS
  <2> DEFINE m == Texts!Min(F)
  <2>1. \A i \in F : i \in Nat
    BY <1>1, <1>3
  <2>2. F \in SUBSET Nat
    BY <2>1
  <2>3. m \in F
    BY <2>2, MinIs, TextsExtremes
  <2>4. ~Texts!Contains(Texts!After(prefix, m), "q")
    OBVIOUS
  <2> HIDE DEF m
  <2>5. m \in 1..Len(prefix) /\ prefix[m] = "#" /\ ~Texts!is_in_string(Texts!Upto(prefix, m))
    BY <1>3, <2>3
  <2>6. /\ ~Texts!is_in_string(prefix)
        /\ \A i \in m..Len(prefix) : ~Texts!is_in_string(Texts!Upto(prefix, i))
    BY <2>4, <2>5, CommentStays
  <2>7. Texts!Contains(prefix, "#")
    BY <2>5 DEF Texts!Contains
  <2> DEFINE h == Texts!LastHash(prefix)
  <2>8. h \in 1..Len(prefix) /\ h >= m
    BY <2>5, <2>7, LastHashIs
  <2>9. h \in m..Len(prefix)
    <3> HIDE DEF h
    <3> QED
      BY <1>1, <2>5, <2>8
  <2> QED
    BY <2>6, <2>7, <2>9 DEF Texts!InComment
<1>6. Texts!InComment(prefix) => F # {}
  <2> SUFFICES ASSUME Texts!InComment(prefix) PROVE F # {}
    OBVIOUS
  <2>1. Texts!Contains(prefix, "#") /\ ~Texts!is_in_string(Texts!Upto(prefix, Texts!LastHash(prefix)))
    BY DEF Texts!InComment
  <2>2. Texts!LastHash(prefix) \in 1..Len(prefix) /\ prefix[Texts!LastHash(prefix)] = "#"
    BY <2>1, LastHashIs
  <2>3. Texts!LastHash(prefix) \in F
    BY <1>3, <2>1, <2>2
  <2> QED
    BY <2>3
<1>7. c = "InStackEffect" =>
        \E i \in DOMAIN prefix :
          /\ prefix[i] \in {"(", "A"}
          /\ ~Texts!is_in_string(Texts!Upto(prefix, i))
          /\ ~\E j \in i .. Len(prefix) :
                /\ prefix[j] = ")" /\ ~Texts!is_in_string(Texts!Upto(prefix, j))
                /\ Texts!count_unmatched_parens(SubSeq(prefix, i, j)) <= 0
  <2> SUFFICES ASSUME c = "InStackEffect"
               PROVE  \E i \in DOMAIN prefix :
                        /\ prefix[i] \in {"(", "A"}
                        /\ ~Texts!is_in_string(Texts!Upto(prefix, i))
                        /\ ~\E j \in i .. Len(prefix) :
                              /\ prefix[j] = ")" /\ ~Texts!is_in_string(Texts!Upto(prefix, j))
                              /\ Texts!count_unmatched_parens(SubSeq(prefix, i, j)) <= 0
    OBVIOUS
  <2>1. PICK i \in 1..Len(prefix) :
          /\ prefix[i] \in {"(", "A"} /\ ~Texts!is_in_string(Texts!Upto(prefix, i))
          /\ \A j \in i..Len(prefix) : Texts!count_unmatched_parens(SubSeq(prefix, i, j)) > 0
    BY <1>2, OpenParen
  <2>2. ASSUME NEW j \in i..Len(prefix)
        PROVE  ~(Texts!count_unmatched_parens(SubSeq(prefix, i, j)) <= 0)
    <3>1. j \in Int /\ j >= i /\ j <= Len(prefix)
      BY <1>1
    <3>2. Texts!count_unmatched_parens(SubSeq(prefix, i, j)) =
            Count(Outside(prefix, {"(", "A"}), i, j) - Count(Outside(prefix, {")"}), i, j)
      BY <2>1, UnmatchedPart
    <3>3. \A P : Count(P, i, j) \in Nat
      <4>1. i \in Int /\ i <= j + 1 /\ j <= j
        BY <3>1
      <4> QED
        BY <3>1, <4>1, CountSplits
    <3>4. Texts!count_unmatched_parens(SubSeq(prefix, i, j)) > 0
      BY <2>1
    <3> QED
      BY <3>2, <3>3, <3>4
  <2> QED
    BY <1>1, <2>1, <2>2, Zenon
<1>8. Texts!Truly = "string" <=> c = "InString"
  BY <1>2, <1>4, <1>5
<1>9. Texts!Truly = "comment" <=> c \in {"InComment", "LintAllow"}
  BY <1>2, <1>4, <1>5, <1>6, Zenon
<1> QED
  BY <1>7, <1>8, <1>9

LEMMA TrimmedIs ==
    ASSUME NEW S, NEW s \in Seq(S), Texts!Trimmed(s) # <<>>
    PROVE  \E m \in 1..Len(s) : Texts!Trimmed(s) = SubSeq(s, m, Len(s))
<1> DEFINE code == {i \in DOMAIN s : s[i] # "s"}
<1>1. DOMAIN s = 1..Len(s) /\ Len(s) \in Nat
  BY LenProperties
<1>2. code # {} /\ Texts!Trimmed(s) = SubSeq(s, Texts!Min(code), Len(s))
  BY DEF Texts!Trimmed
<1>3. \A i \in code : i \in 1..Len(s) /\ i \in Nat
  BY <1>1
<1> HIDE DEF code
<1>4. code \in SUBSET Nat
  BY <1>3
<1>5. Texts!Min(code) \in code
  BY <1>2, <1>4, MinIs, TextsExtremes
<1> QED
  BY <1>2, <1>3, <1>5

LEMMA AllowExact ==
    ASSUME NEW S, prefix \in Seq(S)
    PROVE  Texts!AllowIsOpen
<1> SUFFICES ASSUME Texts!detect_context(prefix) = "LintAllow"
             PROVE  \/ Texts!Last(prefix) = "p"
                    \/ \E i \in DOMAIN prefix : prefix[i] = "A" /\ ~Texts!Contains(Texts!After(prefix, i), ")")
  BY DEF Texts!AllowIsOpen
<1> DEFINE h == Texts!LastHash(prefix)
           s == SubSeq(prefix, h + 1, Len(prefix))
           c == Texts!Trimmed(s)
<1>1. DOMAIN prefix = 1..Len(prefix) /\ Len(prefix) \in Nat
  BY LenProperties
<1>2. Texts!Contains(prefix, "#") /\ Texts!is_in_seq_allow(s)
  BY ContextSays DEF Texts!InComment, Texts!After
<1>3. (c # <<>> /\ Head(c) = "A" /\ ~Texts!Contains(c, ")")) \/ c = <<"p">>
  BY <1>2 DEF Texts!is_in_seq_allow
<1>4. h \in 1..Len(prefix)
  BY <1>2, LastHashIs
<1> HIDE DEF h
<1>5. h + 1 \in 1 .. Len(prefix) + 1 /\ Len(prefix) \in ((h + 1) - 1)..Len(prefix)
  BY <1>1, <1>4
<1>6. s \in Seq(S) /\ Len(s) = (Len(prefix) - (h + 1)) + 1 /\ Len(s) \in Nat
      /\ \A k \in 1..Len(s) : s[k] = prefix[k + ((h + 1) - 1)]
  BY <1>5, PartIs
<1> HIDE DEF s
<1>7. c # <<>>
  <2>1. <<"p">> # <<>>
    OBVIOUS
  <2> QED
    BY <1>3, <2>1
<1>8. PICK m \in 1..Len(s) : c = SubSeq(s, m, Len(s))
  BY <1>6, <1>7, TrimmedIs
<1>9. m \in 1 .. Len(s) + 1 /\ Len(s) \in (m - 1)..Len(s)
  BY <1>6
<1>10. Len(c) = (Len(s) - m) + 1 /\ \A k \in 1..Len(c) : c[k] = s[k + (m - 1)]
  BY <1>6, <1>8, <1>9, PartIs
<1> HIDE DEF c
<1>11. ASSUME NEW k \in 1..Len(c) PROVE c[k] = prefix[k + (m - 1) + h] /\ k + (m - 1) + h \in 1..Len(prefix)
  <2> DEFINE x == k + (m - 1)
  <2>1. x \in 1..Len(s) /\ x + ((h + 1) - 1) = x + h
    BY <1>4, <1>6, <1>10
  <2>2. c[k] = s[x]
    BY <1>10
  <2> HIDE DEF x
  <2>3. s[x] = prefix[x + h]
    BY <1>6, <2>1
  <2>4. x + h \in 1..Len(prefix)
    BY <1>1, <1>4, <1>6, <2>1
  <2> QED
    BY <2>2, <2>3, <2>4 DEF x
<1>12. CASE c = <<"p">>
  <2>1. Len(c) = 1 /\ c[1] = "p"
    BY <1>12
  <2>2. m = Len(s)
    <3>1. \A x, y \in Int : (x - y) + 1 = 1 => y = x
      OBVIOUS
    <3>2. (Len(s) - m) + 1 = 1
      BY <1>10, <2>1
    <3>3. m \in Int /\ Len(s) \in Int
      BY <1>6
    <3> QED
      BY <3>1, <3>2, <3>3
  <2>3. 1 + (m - 1) + h = Len(prefix)
    BY <1>1, <1>4, <1>6, <2>2
  <2>4. 1 \in 1..Len(c)
    BY <2>1
  <2>5. prefix[Len(prefix)] = "p"
    BY <1>11, <2>1, <2>3, <2>4
  <2> QED
    BY <2>5 DEF Texts!Last
<1>13. CASE Head(c) = "A" /\ ~Texts!Contains(c, ")")
  <2> DEFINE i == m + h
             a == SubSeq(prefix, i + 1, Len(prefix))
  <2>1. 1 \in 1..Len(c) /\ 1 + (m - 1) + h = i
    BY <1>4, <1>6, <1>10
  <2>2. c[1] = "A"
    BY <1>13
  <2>3. prefix[i] = "A" /\ i \in 1..Len(prefix)
    BY <1>11, <2>1, <2>2
  <2>4. Len(a) = (Len(prefix) - (i + 1)) + 1 /\ \A k \in 1..Len(a) : a[k] = prefix[k + ((i + 1) - 1)]
    <3>1. i + 1 \in 1 .. Len(prefix) + 1 /\ Len(prefix) \in ((i + 1) - 1)..Len(prefix)
      BY <1>1, <2>3
    <3> QED
      BY <3>1, PartIs
  <2> HIDE DEF a
  <2>5. ASSUME NEW k \in 1..Len(a), a[k] = ")" PROVE FALSE
    <3>1. k + 1 \in 1..Len(c) /\ (k + 1) + (m - 1) + h = k + ((i + 1) - 1)
      BY <1>1, <1>4, <1>6, <1>10, <2>4
    <3>2. c[k + 1] = ")"
      BY <1>11, <2>4, <2>5, <3>1
    <3> QED
      BY <1>13, <3>1, <3>2 DEF Texts!Contains
  <2>6. ~Texts!Contains(a, ")")
    BY <2>5 DEF Texts!Contains
  <2> HIDE DEF i
  <2> QED
    BY <1>1, <2>3, <2>6 DEF a, Texts!After
<1> QED
  BY <1>3, <1>12, <1>13 DEF c

(* A line is whole characters of three kinds of bytes.                     *)
WholeLine == /\ line \in Seq({"w", "s", "L", "C"})
             /\ \A i \in 1..Len(line) : line[i] = "C" => i > 1 /\ line[i - 1] = "L"

LEMMA WordExact ==
    ASSUME WholeLine, col \in Nat
    PROVE  Texts!WordIsMaximal
<1> DEFINE n == Len(line)
           W == Texts!Wordless(line)
           b == Texts!WordStart(line, col)
           e == Texts!WordEnd(line, col)
           a == Texts!Min({col, n})
           w == Texts!get_word_at_position(line, col)
           Run(i, j) == i <= a /\ a <= j /\ \A k \in i + 1 .. j : line[k] = "w"
<1> SUFFICES ASSUME ~Texts!Contains(line, "L")
             PROVE  /\ Run(b, e) \/ w = <<>>
                    /\ \A i, j \in 0..n : Run(i, j) => j - i <= Len(w)
  BY DEF Texts!WordIsMaximal
<1>1. line \in Seq({"w", "s", "L", "C"}) /\ n \in Nat
  BY LenProperties DEF WholeLine
<1>2. \A k \in 1..n : line[k] \in {"w", "s"}
  <2> SUFFICES ASSUME NEW k \in 1..n PROVE line[k] \in {"w", "s"}
    OBVIOUS
  <2>1. line[k] \in {"w", "s", "L", "C"}
    BY <1>1, ElementOfSeq
  <2>2. \A h \in 1..n : line[h] # "L"
    BY DEF Texts!Contains
  <2>3. line[k] # "C"
    <3> SUFFICES ASSUME line[k] = "C" PROVE FALSE
      OBVIOUS
    <3>1. k > 1 /\ line[k - 1] = "L"
      BY DEF WholeLine
    <3>2. k - 1 \in 1..n
      BY <1>1, <3>1
    <3> QED
      BY <2>2, <3>1, <3>2
  <2> QED
    BY <2>1, <2>2, <2>3
<1>3. \A i : i \in W <=> i \in 0 .. n - 1 /\ line[i + 1] = "s"
  <2>1. ASSUME NEW i \in 0 .. n - 1 PROVE line[i + 1] \in {"s", "L"} <=> line[i + 1] = "s"
    <3>1. i + 1 \in 1..n
      BY <1>1
    <3> QED
      BY <1>2, <3>1
  <2> QED
    BY <2>1 DEF Texts!Wordless
<1>4. a \in 0..n /\ a <= col /\ (a = col \/ a = n)
  <2>1. {col, n} \in SUBSET Nat /\ {col, n} # {}
    BY <1>1
  <2>2. a \in {col, n} /\ \A x \in {col, n} : a <= x
    BY <2>1, MinIs, TextsExtremes
  <2> QED
    BY <1>1, <2>2
<1>5. /\ b \in 0..n /\ b <= a
      /\ b = 0 \/ (b - 1 \in W /\ b - 1 < col)
      /\ \A i \in W : i < col => i + 1 <= b
  <2> DEFINE T == {i + 1 : i \in {j \in W : j < col}}
  <2>1. b = Vim!Max({0} \cup T)
    BY TextsExtremes DEF Texts!WordStart
  <2>2. \A x \in T : x \in 0..n /\ x <= col /\ x - 1 \in W /\ x - 1 < col
    <3> SUFFICES ASSUME NEW i \in W, i < col
                 PROVE  i + 1 \in 0..n /\ i + 1 <= col /\ (i + 1) - 1 \in W /\ (i + 1) - 1 < col
      OBVIOUS
    <3>1. i \in 0 .. n - 1
      BY <1>3
    <3>2. (i + 1) - 1 = i
      BY <3>1
    <3> HIDE DEF W
    <3> QED
      BY <1>1, <3>1, <3>2
  <2>3. T \in SUBSET (0..n)
    BY <2>2
  <2>4. \A i \in W : i < col => i + 1 \in T
    OBVIOUS
  <2> HIDE DEF T, b, W
  <2>5. b \in 0..n /\ b \in {0} \cup T /\ \A x \in T : b >= x
    BY <1>1, <2>1, <2>3, MaxUpto
  <2>6. b <= a
    BY <1>1, <1>4, <2>2, <2>5
  <2>7. \A i \in W : i < col => i + 1 <= b
    <3> SUFFICES ASSUME NEW i \in W, i < col PROVE i + 1 <= b
      OBVIOUS
    <3>1. i + 1 \in T /\ i + 1 \in 0..n
      BY <2>2, <2>4
    <3>2. b >= i + 1
      BY <2>5, <3>1
    <3> QED
      BY <2>5, <3>1, <3>2
  <2> QED
    BY <2>2, <2>5, <2>6, <2>7
<1>6. /\ e \in 0..n /\ a <= e
      /\ e = n \/ (e \in W /\ e >= col)
      /\ \A i \in W : i >= col => e <= i
  <2> DEFINE T == {i \in W : i >= col}
  <2>1. e = Vim!Min({n} \cup T)
    BY TextsExtremes DEF Texts!WordEnd
  <2>2. \A x \in T : x \in 0..n /\ x >= col /\ x \in W
    BY <1>1, <1>3
  <2>3. T \in SUBSET (0..n) /\ 0 \in 0..n
    BY <1>1, <2>2
  <2>4. \A i \in W : i >= col => i \in T
    OBVIOUS
  <2> HIDE DEF T, e, W
  <2>5. e \in 0..n /\ e \in {n} \cup T /\ \A x \in T : e <= x
    BY <1>1, <2>1, <2>3, MinFrom
  <2>6. a <= e
    BY <1>1, <1>4, <2>2, <2>5
  <2> QED
    BY <2>2, <2>4, <2>5, <2>6
<1>7. Len(w) = e - b
  <2>1. w = SubSeq(line, b + 1, e)
    BY DEF Texts!get_word_at_position
  <2> HIDE DEF b, e, w
  <2>2. b + 1 \in 1 .. n + 1 /\ e \in ((b + 1) - 1)..n
    BY <1>1, <1>4, <1>5, <1>6
  <2>3. Len(w) = (e - (b + 1)) + 1
    BY <1>1, <2>1, <2>2, PartIs
  <2> QED
    BY <1>5, <1>6, <2>3
<1> HIDE DEF W, b, e, a, w
<1>8. Run(b, e)
  <2> SUFFICES ASSUME NEW k \in b + 1 .. e PROVE line[k] = "w"
    BY <1>5, <1>6
  <2>1. k \in 1..n /\ k - 1 \in 0 .. n - 1 /\ (k - 1) + 1 = k
    BY <1>1, <1>5, <1>6
  <2>2. k - 1 \notin W
    <3>1. CASE k - 1 < col
      BY <1>5, <2>1, <3>1
    <3>2. CASE k - 1 >= col
      BY <1>6, <2>1, <3>2
    <3> QED
      BY <2>1, <3>1, <3>2
  <2>3. line[k] # "s"
    BY <1>3, <2>1, <2>2
  <2> QED
    BY <1>2, <2>1, <2>3
<1>9. ASSUME NEW i \in 0..n, NEW j \in 0..n, Run(i, j) PROVE j - i <= Len(w)
  <2>1. b <= i
    <3> SUFFICES ASSUME i < b PROVE FALSE
      BY <1>1, <1>5
    <3>1. b # 0 /\ b - 1 \in W /\ (b - 1) + 1 = b
      BY <1>1, <1>5
    <3>2. line[b] = "s"
      BY <1>3, <3>1
    <3>3. b \in i + 1 .. j
      BY <1>1, <1>4, <1>5, <1>9
    <3> QED
      BY <1>9, <3>2, <3>3
  <2>2. j <= e
    <3> SUFFICES ASSUME e < j PROVE FALSE
      BY <1>1, <1>6
    <3>1. e \in W
      BY <1>1, <1>6
    <3>2. line[e + 1] = "s"
      BY <1>3, <3>1
    <3>3. e + 1 \in i + 1 .. j
      BY <1>1, <1>4, <1>6, <1>9
    <3> QED
      BY <1>9, <3>2, <3>3
  <2> QED
    BY <1>1, <1>5, <1>6, <1>7, <2>1, <2>2
<1> QED
  BY <1>8, <1>9

LEMMA OverlapExact ==
    ASSUME diag.start \in Int, diag.end \in Int, asked.start \in Int, asked.end \in Int,
           asked.start <= asked.end
    PROVE  Texts!OverlapIsShared
<1> DEFINE ds == diag.start
           de == diag.end
           xs == asked.start
           xe == asked.end
<1> SUFFICES ASSUME ds < de
             PROVE  Texts!ranges_overlap(diag, asked) <=>
                      IF xs = xe THEN xs \in ds .. de
                      ELSE (ds .. de - 1) \cap (xs .. xe - 1) # {}
  BY DEF Texts!OverlapIsShared
<1>1. Texts!ranges_overlap(diag, asked) <=>
        IF xs = xe THEN ds <= xs /\ xs <= de ELSE ~(de <= xs \/ xe <= ds)
  BY DEF Texts!ranges_overlap
<1> HIDE DEF ds, de, xs, xe
<1>2. ds \in Int /\ de \in Int /\ xs \in Int /\ xe \in Int /\ xs <= xe
  BY DEF ds, de, xs, xe
<1>3. xs < xe /\ ~(de <= xs \/ xe <= ds) => (ds .. de - 1) \cap (xs .. xe - 1) # {}
  <2> SUFFICES ASSUME xs < xe, de > xs, xe > ds PROVE (ds .. de - 1) \cap (xs .. xe - 1) # {}
    BY <1>2
  <2>1. CASE ds <= xs
    <3>1. xs \in (ds .. de - 1) \cap (xs .. xe - 1)
      BY <1>2, <2>1
    <3> QED
      BY <3>1
  <2>2. CASE xs < ds
    <3>1. ds \in (ds .. de - 1) \cap (xs .. xe - 1)
      BY <1>2, <2>2
    <3> QED
      BY <3>1
  <2> QED
    BY <1>2, <2>1, <2>2
<1>4. (ds .. de - 1) \cap (xs .. xe - 1) # {} => ~(de <= xs \/ xe <= ds)
  BY <1>2
<1>5. xs # xe => xs < xe
  BY <1>2
<1>6. xs \in ds .. de <=> ds <= xs /\ xs <= de
  BY <1>2
<1> QED
  BY <1>1, <1>3, <1>4, <1>5, <1>6

-----------------------------------------------------------------------------
(* The lines and ranges the server is asked about.                         *)
ScanInv == /\ prefix \in Seq({"w", "s", "q", "#", "(", ")", ":", "I", "A", "p"})
           /\ WholeLine /\ col \in Nat
           /\ diag.start \in Int /\ diag.end \in Int
           /\ asked.start \in Int /\ asked.end \in Int /\ asked.start <= asked.end

LEMMA ScanStarts == NoText \/ Texts!Init => ScanInv
<1> SUFFICES ASSUME NoText \/ Texts!Init PROVE ScanInv
  OBVIOUS
<1>1. prefix = <<>> /\ line = <<>> /\ col = 0
  BY DEF NoText, Texts!Init
<1>2. (diag \in Texts!Ranges /\ asked \in Texts!Ranges)
      \/ (diag = [start |-> 0, end |-> 0] /\ asked = [start |-> 0, end |-> 0])
  BY DEF NoText, Texts!Init, Texts!First
<1>3. \A r \in Texts!Ranges : r.start \in Int /\ r.end \in Int /\ r.start <= r.end
  BY DEF Texts!Ranges
<1>4. /\ diag.start \in Int /\ diag.end \in Int
      /\ asked.start \in Int /\ asked.end \in Int /\ asked.start <= asked.end
  BY <1>2, <1>3
<1>5. WholeLine
  BY <1>1 DEF WholeLine
<1> QED
  BY <1>1, <1>4, <1>5 DEF ScanInv

LEMMA ScanSteps == ScanInv /\ Texts!Next => ScanInv'
<1> SUFFICES ASSUME ScanInv, Texts!Next PROVE ScanInv'
  OBVIOUS
<1> USE DEF ScanInv
<1>1. CASE Texts!TypePiece
  <2>1. PICK x \in {"w", "s", "q", "#", "(", ")", ":", "I", "A", "p"} : prefix' = Append(prefix, x)
    BY <1>1 DEF Texts!TypePiece
  <2>2. line' = line /\ col' = col /\ diag' = diag /\ asked' = asked
    BY <1>1 DEF Texts!TypePiece
  <2> QED
    BY <2>1, <2>2 DEF WholeLine
<1>2. CASE Texts!TypeChar
  <2>1. PICK x \in {<<"w">>, <<"s">>, <<"L", "C">>} : line' = line \o x
    BY <1>2 DEF Texts!TypeChar
  <2>2. prefix' = prefix /\ col' = col /\ diag' = diag /\ asked' = asked
    BY <1>2 DEF Texts!TypeChar
  <2>3. /\ x \in Seq({"w", "s", "L", "C"}) /\ Len(x) \in {1, 2}
        /\ x[1] # "C" /\ (Len(x) = 2 => x[1] = "L")
    <3>1. CASE x = <<"w">>
      BY <3>1
    <3>2. CASE x = <<"s">>
      BY <3>2
    <3>3. CASE x = <<"L", "C">>
      BY <3>3
    <3> QED
      BY <2>1, <3>1, <3>2, <3>3
  <2>4. line \in Seq({"w", "s", "L", "C"}) /\ Len(line) \in Nat
    BY LenProperties DEF WholeLine
  <2>5. line' \in Seq({"w", "s", "L", "C"}) /\ Len(line') = Len(line) + Len(x)
        /\ \A i \in 1 .. Len(line) + Len(x) : line'[i] = IF i <= Len(line) THEN line[i] ELSE x[i - Len(line)]
    BY <2>1, <2>3, <2>4, ConcatProperties
  <2>6. ASSUME NEW i \in 1..Len(line'), line'[i] = "C" PROVE i > 1 /\ line'[i - 1] = "L"
    <3>1. i \in 1 .. Len(line) + Len(x)
      BY <2>5
    <3>2. CASE i <= Len(line)
      <4>1. i \in 1..Len(line) /\ line[i] = "C"
        BY <2>4, <2>5, <2>6, <3>1, <3>2
      <4>2. i > 1 /\ line[i - 1] = "L"
        BY <4>1 DEF WholeLine
      <4>3. i - 1 \in 1 .. Len(line) + Len(x) /\ i - 1 <= Len(line)
        BY <2>3, <2>4, <3>1, <3>2, <4>2
      <4> QED
        BY <2>5, <4>2, <4>3
    <3>3. CASE i > Len(line)
      <4>1. x[i - Len(line)] = "C" /\ i - Len(line) \in 1..Len(x)
        BY <2>3, <2>4, <2>5, <2>6, <3>1, <3>3
      <4>2. i - Len(line) = 2 /\ Len(x) = 2
        BY <2>3, <2>4, <3>1, <4>1
      <4>3. i - 1 = Len(line) + 1 /\ i - 1 \in 1 .. Len(line) + Len(x) /\ ~(i - 1 <= Len(line))
            /\ (i - 1) - Len(line) = 1 /\ i > 1
        BY <2>4, <3>1, <4>2
      <4> QED
        BY <2>3, <2>5, <4>2, <4>3
    <3> QED
      BY <2>4, <3>1, <3>2, <3>3
  <2>7. WholeLine'
    BY <2>5, <2>6 DEF WholeLine
  <2> QED
    BY <2>2, <2>7
<1>3. CASE Texts!Move
  <2>1. prefix' = prefix /\ line' = line /\ diag' = diag /\ asked' = asked
    BY <1>3 DEF Texts!Move
  <2>2. col' \in {col + 1, col + 2}
    BY <1>3 DEF Texts!Move
  <2> QED
    BY <2>1, <2>2 DEF WholeLine
<1> QED
  BY <1>1, <1>2, <1>3 DEF Texts!Next

LEMMA ScansExact ==
    ASSUME ScanInv
    PROVE  Texts!ContextIsTrue /\ Texts!AllowIsOpen /\ Texts!WordIsMaximal /\ Texts!OverlapIsShared
<1>1. prefix \in Seq({"w", "s", "q", "#", "(", ")", ":", "I", "A", "p"}) /\ WholeLine /\ col \in Nat
  BY DEF ScanInv
<1>2. Texts!ContextIsTrue /\ Texts!AllowIsOpen
  BY <1>1, ContextExact, AllowExact
<1>3. Texts!WordIsMaximal
  BY <1>1, WordExact
<1>4. Texts!OverlapIsShared
  BY OverlapExact DEF ScanInv
<1> QED
  BY <1>2, <1>3, <1>4

LEMMA TextStep ==
    ASSUME MotionInv, ScanInv, [Type \/ Move]_motionVars, [Texts!Next]_textVars
    PROVE  MotionInv' /\ ScanInv'
<1>1. MotionInv'
  <2>1. CASE Type \/ Move
    BY <2>1, MotionSteps
  <2>2. CASE UNCHANGED motionVars
    <3>1. typed' = typed /\ at' = at
      BY <2>2 DEF motionVars
    <3> QED
      BY <3>1 DEF MotionInv
  <2> QED
    BY <2>1, <2>2
<1>2. ScanInv'
  <2>1. CASE Texts!Next
    BY <2>1, ScanSteps
  <2>2. CASE UNCHANGED textVars
    <3>1. prefix' = prefix /\ line' = line /\ col' = col /\ diag' = diag /\ asked' = asked
      BY <2>2 DEF textVars
    <3> QED
      BY <3>1 DEF ScanInv, WholeLine
  <2> QED
    BY <2>1, <2>2
<1> QED
  BY <1>1, <1>2

-----------------------------------------------------------------------------
(***************************************************************************)
(* The theorems.                                                           *)
(***************************************************************************)
(* A step of one tool leaves the others where they are.                    *)
LEMMA StepOfTools ==
    ASSUME [KindNext]_<<kind, parts>>
    PROVE  /\ [Session!Next]_sessionVars /\ [Server!Next]_serverVars /\ [History!Next]_historyVars
           /\ [Vim!Next]_vimVars /\ [Type \/ Move]_motionVars /\ [Texts!Next]_textVars
  BY DEF KindNext, parts

(* Whatever fails, times out, is refused or is killed, in any order, the   *)
(* session file holds between keys what was accepted and nothing else, and *)
(* no child process is left: try_definition, try_expression, try_include,  *)
(* pop_last_expression and run_with_timeout of the REPL.                   *)
THEOREM SessionKept == KindSpec => []SessionSound
<1>1. KindInit => SessionInv
  BY SessionInit DEF KindInit
<1>2. SessionInv /\ [KindNext]_<<kind, parts>> => SessionInv'
  BY StepOfTools, SessionStep
<1> QED
  BY <1>1, <1>2, SessionFollows, PTL DEF KindSpec

(* With any lines, limits and queues, and whenever the server dies: the    *)
(* popup has a selected item and shows the answer to the line that was     *)
(* asked about, the line is taken out of the server's document, and a      *)
(* client whose limit exceeds what the server can hold back never gives    *)
(* up on an answer (LspClient::read_response and completions).             *)
THEOREM PopupKept == KindSpec => []PopupHonest
<1>1. KindInit => ServerInv
  BY ServerInit DEF KindInit
<1>2. ServerInv /\ [KindNext]_<<kind, parts>> => ServerInv'
  BY StepOfTools, ServerStep
<1> QED
  BY <1>1, <1>2, PopupFollows, PTL DEF KindSpec

(* Whatever is typed, recalled, searched for, completed or run, with any   *)
(* lines and any size of the store: a search shows its match, and a        *)
(* cancelled one leaves no trace; stepping past the newest entry brings    *)
(* back the line the browsing began with; a Tab cycle is about what is in  *)
(* the buffer; what is submitted is the newest entry; and a history of     *)
(* entries of one line is the same in the next session (history.rs, and    *)
(* load_history and save_history of app.rs).                               *)
THEOREM HistoryKept == KindSpec => HistorySound
<1>1. KindInit => HistoryInv
  BY HistoryInit DEF KindInit
<1>2. HistoryInv /\ [KindNext]_<<kind, parts>> => HistoryInv'
  BY StepOfTools, HistoryStep
<1>3. HistoryInv /\ HistoryInv' /\ [KindNext]_<<kind, parts>> => [History!LineSafe]_historyVars
  BY StepOfTools, LineIsSafe
<1> QED
  BY <1>1, <1>2, <1>3, PTL DEF KindSpec, HistorySound

(* With any ASCII characters, recalled lines and completions, of any       *)
(* length: a key panics only in Visual mode with the cursor or the anchor  *)
(* past the last character, or where the host slices at a cursor that the  *)
(* editor kept when the line was cleared; a motion of Normal mode ends on  *)
(* a character; what a command deletes p or P puts back; and the command   *)
(* line edits neither the text nor the yank buffer (VimLineEditor and      *)
(* ReplState's handle_key, accept_completion and sync_editor_to_input).    *)
THEOREM EditorKept == KindSpec => EditorSafe
<1>1. KindInit => EditorInv
  BY EditorInit DEF KindInit
<1>2. EditorInv /\ [KindNext]_<<kind, parts>> => EditorInv'
  BY StepOfTools, EditorStep
<1>3. EditorInv /\ [KindNext]_<<kind, parts>> => [Vim!KeySafe]_vimVars
  BY StepOfTools, KeyIsSafe
<1> QED
  BY <1>1, <1>2, <1>3, PTL DEF KindSpec, EditorSafe

(* On every text that can be typed, of any length and with wide characters *)
(* in it, at every offset between characters: w, W, b, B and e land on the *)
(* next start or end of a word, % on the partner of a bracket and back, j  *)
(* and k on the adjacent line, and no motion inside a character            *)
(* (vim-line's motions.rs).  On every line before a cursor that is not an  *)
(* include and whose comment holds no quote, the server takes for a string *)
(* or a comment what a scan from the left does, and offers types only      *)
(* after a parenthesis that is still open; it offers lint names only while *)
(* the annotation is open; on a line with no wide symbol the word under    *)
(* the cursor is the longest one; and a diagnostic is under the cursor     *)
(* when the two share a position (detect_context, get_word_at_position and *)
(* ranges_overlap of the language server).                                 *)
THEOREM TextKept == KindSpec => []TextExact
<1>1. KindInit => MotionInv /\ ScanInv
  BY MotionStarts, ScanStarts DEF KindInit
<1>2. MotionInv /\ ScanInv /\ [KindNext]_<<kind, parts>> => (MotionInv /\ ScanInv)'
  BY StepOfTools, TextStep
<1>3. MotionInv /\ ScanInv => TextExact
  BY MotionsExact, ScansExact DEF TextExact
<1> QED
  BY <1>1, <1>2, <1>3, PTL DEF KindSpec
=============================================================================
