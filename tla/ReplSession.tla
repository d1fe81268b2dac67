---------------------------- MODULE ReplSession ----------------------------
(* The REPL's session file.  A definition, an expression or an include is  *)
(* written into the file, the whole file is compiled and, for an           *)
(* expression, run in a child process under a timeout; whatever is refused *)
(* is taken out again by writing the old content back.  The application is *)
(* one thread: while a job runs no key is read.  The user edits the file   *)
(* with :edit, and the process may be killed at any moment.                *)
(* What is typed is known by its kind; the history is module ReplLine's.   *)
EXTENDS Integers, Sequences, SequencesExt, TLC

CONSTANTS Exprs,     \* the expressions, each the sequence of its lines
          Defs,      \* the definitions, [name, dumps]: dumps when it holds
                     \* a line "  stack.dump" of its own
          Modules,   \* modules that can be included
          MaxLines,  \* bound on the lines of main and of what is added elsewhere
          MaxDefs,   \* bound on the definitions
          MaxDeaths  \* bound on the times the process is killed

VARIABLES
  file,     \* the session file: [includes, defs, main, marked]
  good,     \* ghost: what the file should hold: all that was accepted, and
            \* what a write that failed or a death left there
  job,      \* what is under way, with the content to go back to
  child,    \* the process that runs the compiled session
  alive,    \* the REPL runs
  panicked, \* a slice was out of range
  deaths    \* how often the process was killed

vars == <<file, good, job, child, alive, panicked, deaths>>

Template == [includes |-> {}, defs |-> <<>>, main |-> <<>>, marked |-> TRUE]
NoJob == [kind |-> "none"]
Idle == alive /\ job = NoJob

Init == /\ file = Template /\ good = Template /\ job = NoJob
        /\ child = "none" /\ alive = TRUE /\ panicked = FALSE /\ deaths = 0

\* A job keeps the old content of the file.
Start(kind, what) ==
  job' = [kind |-> kind, what |-> what, phase |-> "compile", original |-> file]

\* fs::write empties the file before it writes, and may fail before the one or
\* after it.
Emptied == [includes |-> {}, defs |-> <<>>, main |-> <<>>, marked |-> FALSE]
Unwritten == file' \in {file, Emptied} /\ good' = file'

\* A job starts once the file has been changed; when the write fails the input
\* is refused, and nothing is written back.
Write(kind, what, new) ==
  \/ file' = new /\ Start(kind, what) /\ UNCHANGED good
  \/ Unwritten /\ UNCHANGED job

\* The first "  stack.dump" of the file is in a definition.
DumpInDef == \E i \in DOMAIN file.defs : file.defs[i].dumps
FirstDump == CHOOSE i \in DOMAIN file.defs :
               /\ file.defs[i].dumps
               /\ \A j \in 1 .. i - 1 : ~file.defs[j].dumps

try_definition == \E d \in Defs :
  /\ Idle /\ file.marked /\ Len(file.defs) < MaxDefs
  /\ Write("def", d, [file EXCEPT !.defs = Append(@, d @@ [added |-> <<>>])])
  /\ UNCHANGED <<child, alive, panicked, deaths>>

\* append_expression inserts before the first "  stack.dump" of the file.
Appended(e) ==
  IF DumpInDef THEN [file EXCEPT !.defs[FirstDump].added = @ \o e]
  ELSE [file EXCEPT !.main = @ \o e]

\* A lone stack.dump is run and not written, whatever the file holds.
try_expression ==
  /\ Idle
  /\ \/ Start("expr", "stack.dump") /\ UNCHANGED <<file, good>>
     \/ \E e \in Exprs :
          /\ file.marked
          /\ Len(Appended(e).main) <= MaxLines
          /\ \A i \in DOMAIN file.defs : Len(Appended(e).defs[i].added) <= MaxLines
          /\ Write("expr", e, Appended(e))
  /\ UNCHANGED <<child, alive, panicked, deaths>>

try_include == \E m \in Modules :
  /\ Idle /\ file.marked /\ m \notin file.includes
  /\ Write("include", m, [file EXCEPT !.includes = @ \cup {m}])
  /\ UNCHANGED <<child, alive, panicked, deaths>>

\* :pop takes out the last line of main, by the same search for the dump: with
\* one in a definition the section would end before it begins.  The new stack
\* is then computed for the pane.
pop_last_expression ==
  /\ Idle /\ file.marked
  /\ IF DumpInDef
     THEN panicked' = TRUE /\ alive' = FALSE /\ UNCHANGED <<file, good, job>>
     ELSE /\ file.main # <<>>
          /\ \/ /\ file' = [file EXCEPT !.main = Front(@)] /\ good' = file'
                /\ Start("stack", "pop")
             \/ Unwritten /\ UNCHANGED job
          /\ UNCHANGED <<panicked, alive>>
  /\ UNCHANGED <<child, deaths>>

\* :stack compiles and runs what is there.
compile_and_show_stack ==
  /\ Idle
  /\ Start("stack", "stack")
  /\ UNCHANGED <<file, good, child, alive, panicked, deaths>>

\* :clear writes the template, if it can.
clear_session ==
  /\ Idle
  /\ Unwritten \/ (file' = Template /\ good' = Template)
  /\ UNCHANGED <<job, child, alive, panicked, deaths>>

\* :edit hands the file to an editor, which may take out a marker.
Edit == \E marked \in BOOLEAN :
  /\ Idle /\ file.marked # marked
  /\ file' = [file EXCEPT !.marked = marked]
  /\ good' = file'
  /\ UNCHANGED <<job, child, alive, panicked, deaths>>

(***************************************************************************)
(* The outcome of a job.                                                   *)
(***************************************************************************)
\* A variant that keeps what could not be compiled.
RollbackNot == UNCHANGED <<file, good>>

\* rollback_session: the write may fail, which is only reported.
Rollback == Unwritten \/ (file' = job.original /\ UNCHANGED good)

CompileFails ==
  /\ alive /\ job # NoJob /\ job.phase = "compile"
  /\ IF job.kind = "stack" THEN UNCHANGED <<file, good>> ELSE Rollback
  /\ job' = NoJob
  /\ UNCHANGED <<child, alive, panicked, deaths>>

\* A definition or an include is kept once the file compiles; an expression
\* has still to run; a child that cannot be started counts as a failure.
CompileSucceeds ==
  /\ alive /\ job # NoJob /\ job.phase = "compile"
  /\ IF job.kind \in {"def", "include"}
     THEN job' = NoJob /\ good' = file /\ UNCHANGED child
     ELSE job' = [job EXCEPT !.phase = "run"] /\ child' \in {"running", "failure"} /\ UNCHANGED good
  /\ UNCHANGED <<file, alive, panicked, deaths>>

\* The child ends on its own, well or badly.
ChildExits == \E s \in {"success", "failure"} :
  /\ child = "running" /\ child' = s
  /\ UNCHANGED <<file, good, job, alive, panicked, deaths>>

\* What follows a run that did not succeed.
Refused ==
  /\ IF job.kind = "expr" THEN Rollback ELSE UNCHANGED <<file, good>>
  /\ job' = NoJob

\* The poll of run_with_timeout sees the child's end.  try_wait fails only when
\* there is no child to wait for, which counts as a failure of it.
Polled ==
  /\ alive /\ job # NoJob /\ job.phase = "run" /\ child \in {"success", "failure"}
  /\ IF child = "success"
     THEN /\ job' = NoJob /\ UNCHANGED file
          /\ good' = IF job.kind = "expr" THEN file ELSE good
     ELSE Refused
  /\ child' = "none"
  /\ UNCHANGED <<alive, panicked, deaths>>

\* A variant that leaves the child running.
TimesOutLeaves ==
  /\ alive /\ job # NoJob /\ job.phase = "run" /\ child = "running"
  /\ Refused
  /\ UNCHANGED <<child, alive, panicked, deaths>>

\* A variant that polls for ever.
TimesOutNever == FALSE /\ UNCHANGED vars

\* The time is up: the child is killed and reaped.
TimesOut ==
  /\ alive /\ job # NoJob /\ job.phase = "run" /\ child = "running"
  /\ Refused
  /\ child' = "none"
  /\ UNCHANGED <<alive, panicked, deaths>>

(***************************************************************************)
(* The end of the process, and the next start on the same file.            *)
(***************************************************************************)
\* A variant that forgets only the process.
KilledHalf ==
  /\ alive /\ deaths < MaxDeaths
  /\ alive' = FALSE /\ deaths' = deaths + 1
  /\ good' = file
  /\ UNCHANGED <<file, job, child, panicked>>

Killed ==
  /\ alive /\ deaths < MaxDeaths
  /\ alive' = FALSE /\ deaths' = deaths + 1
  /\ job' = NoJob /\ child' = IF child = "running" THEN "orphan" ELSE "none"
  /\ good' = file
  /\ UNCHANGED <<file, panicked>>

with_file ==
  /\ ~alive
  /\ alive' = TRUE /\ panicked' = FALSE /\ child' = "none"
  /\ UNCHANGED <<file, good, job, deaths>>

Next ==
  \/ try_definition \/ try_expression \/ try_include \/ pop_last_expression
  \/ compile_and_show_stack \/ clear_session \/ Edit
  \/ CompileFails \/ CompileSucceeds \/ ChildExits \/ Polled \/ TimesOut
  \/ Killed \/ with_file

\* The loop polls, compiles and watches the clock; nothing says that the child
\* ends or that the user types.
Fairness == WF_vars(CompileFails \/ CompileSucceeds) /\ WF_vars(Polled) /\ WF_vars(TimesOut)

Spec == Init /\ [][Next]_vars /\ Fairness
-----------------------------------------------------------------------------
TypeOK == /\ child \in {"none", "running", "success", "failure", "orphan"}
          /\ {alive, panicked} \subseteq BOOLEAN
          /\ job # NoJob => alive /\ job.kind \in {"def", "expr", "include", "stack"}
          /\ deaths \in 0..MaxDeaths

\* Between keys the file holds exactly what was reported as accepted: nothing
\* refused stays in it, unless a write to it failed or the process was killed
\* in the middle of a job.
OnlyAccepted == Idle => file = good

\* A job's child is gone when the next key is read.
NoChildLeft == Idle => child = "none"

\* A job always comes to an end, whatever the child does: the REPL answers
\* again or has ended.
Responsive == (job # NoJob) ~> Idle \/ ~alive

\* As :help has it, ":pop Remove last expression": what an accepted expression
\* added is gone after :pop.
PopRemovesLast ==
  [][pop_last_expression /\ file # file' =>
       \E e \in Exprs : Len(e) <= Len(file.main)
         /\ file'.main = SubSeq(file.main, 1, Len(file.main) - Len(e))
         /\ SubSeq(file.main, Len(file.main) - Len(e) + 1, Len(file.main)) = e]_vars

\* As the comment on append_expression has it, an expression goes into main.
AppendsToMain ==
  [][try_expression => file'.defs = file.defs]_vars
=============================================================================
