--------------------------------- MODULE Weave ---------------------------------
(***************************************************************************)
(* Weaves (crates/runtime/src/weave.rs and its sub-modules) on top of the  *)
(* strand lifecycle and shutdown protocol of Scheduler.  A weave is a      *)
(* coroutine with two private channels: callers put Value or Cancel on     *)
(* resume_chan, the weave answers with Value or Done on yield_chan.        *)
(* ACTIVE_STRANDS counts a weave only while it runs: it is dormant until   *)
(* its first resume and again inside every yield.                          *)
(*                                                                         *)
(* A weave is one of the Strands, so its cleanup_strand is the exit path   *)
(* of Scheduler.  Whoever holds a channel end holds the whole channel      *)
(* (WeaveChannelData keeps the sender beside the receiver), so send and    *)
(* recv never fail and the code's Err branches are unreachable.  User code *)
(* always runs in a strand (the generated main only spawns seq_main), so   *)
(* threads do not use weaves.                                              *)
(***************************************************************************)
EXTENDS Scheduler, Sequences

CONSTANTS Weaves,       \* the strands that are weaves
          Disciplined,  \* whether each handle has one holder, who gives it up
                        \* once told has_more = false
          MaxResumes    \* bound: resumes of one weave in a behaviour

ASSUME WeaveConstants ==
    /\ Weaves \subseteq Strands
    /\ Disciplined \in BOOLEAN
    /\ MaxResumes \in Nat

VARIABLES
    resume_chan,  \* per weave, the queue of messages to it ...
    yield_chan,   \* ... and from it
    handles,      \* the weaves an actor has a WeaveHandle of on its stack
    waitingOn,    \* the weave whose answer an actor waits for in resume
    resumes       \* how often a weave has been resumed, for the bound

channels  == <<resume_chan, yield_chan>>
weaveVars == <<channels, handles, waitingOn, resumes>>
allVars   == <<vars, weaveVars>>

Plain == Strands \ Weaves

(* Where a weave or a caller can be, besides the labels of Scheduler.      *)
WeaveLabels ==
    {"dormant", "activate", "y_dec", "parked", "reactivate", "cancelled",
     "blocked", "gone"}

(* A strand that ACTIVE_STRANDS counts.                                    *)
WeaveCounted ==
    {s \in Strands : pc[s] \in CountedLabels \cup {"resuming", "y_dec"}}

WeaveInit ==
    /\ Init
    /\ resume_chan = [w \in Weaves |-> <<>>]
    /\ yield_chan = [w \in Weaves |-> <<>>]
    /\ handles = [a \in Actors |-> {}]
    /\ waitingOn = [a \in Actors |-> None]
    /\ resumes = [w \in Weaves |-> 0]

Send(chan, w, msg) == [chan EXCEPT ![w] = Append(@, msg)]
Received(chan, w) == [chan EXCEPT ![w] = Tail(@)]

-----------------------------------------------------------------------------
(* What a clone of the stack of a gives its owner: a WeaveHandle is a pair *)
(* of Arcs that any copy shares.                                           *)
HandlesFor(a) == IF Disciplined THEN {} ELSE handles[a]

(* patch_seq_weave: create the channels, start the coroutine dormant and   *)
(* push the handle.  The child's stack is a clone of the creator's.        *)
CreateWeave(a, w) ==
    /\ pc[a] = "run"
    /\ pc[w] = "unborn"
    /\ pc' = [pc EXCEPT ![w] = "dormant"]
    /\ root' = [root EXCEPT ![w] = RootOf(a)]
    /\ handles' = [handles EXCEPT ![a] = @ \cup {w},
                                  ![w] = HandlesFor(a)]
    /\ UNCHANGED <<counters, SHUTDOWN_MUTEX, locals, highWater, channels,
                   waitingOn, resumes>>

(* A strand started by spawn gets a clone of its parent's stack.           *)
SpawnPlain(a, s) ==
    /\ SpawnTakeId(a, s)
    /\ handles' = [handles EXCEPT ![s] = HandlesFor(a)]
    /\ UNCHANGED <<channels, waitingOn, resumes>>

-----------------------------------------------------------------------------
(* The coroutine of the weave w.                                           *)

(* Faulty variant: a cancelled weave that never ran does cleanup_strand.   *)
FirstReceiveCleansUp(w) ==
    /\ pc[w] = "dormant"
    /\ resume_chan[w] # <<>>
    /\ resume_chan' = Received(resume_chan, w)
    /\ pc' = [pc EXCEPT ![w] =
                 IF Head(resume_chan[w]) = "Value" THEN "activate" ELSE "dec"]
    /\ UNCHANGED <<counters, SHUTDOWN_MUTEX, locals, history, yield_chan,
                   handles, waitingOn, resumes>>

(* The recv of the first message.  Cancel before the start just returns:   *)
(* no Done, no cleanup_strand.                                             *)
FirstReceive(w) ==
    /\ pc[w] = "dormant"
    /\ resume_chan[w] # <<>>
    /\ resume_chan' = Received(resume_chan, w)
    /\ pc' = [pc EXCEPT ![w] =
                 IF Head(resume_chan[w]) = "Value" THEN "activate" ELSE "gone"]
    /\ UNCHANGED <<counters, SHUTDOWN_MUTEX, locals, history, yield_chan,
                   handles, waitingOn, resumes>>

(* ACTIVE_STRANDS.fetch_add; the quotation starts, or yield returns.       *)
CountIn(w, from) ==
    /\ pc[w] = from
    /\ ACTIVE_STRANDS' = ACTIVE_STRANDS + 1
    /\ highWater' = Maximum(highWater, ACTIVE_STRANDS + 1)
    /\ pc' = [pc EXCEPT ![w] = "run"]
    /\ UNCHANGED <<TOTAL_SPAWNED, TOTAL_COMPLETED, PEAK_STRANDS,
                   SHUTDOWN_MUTEX, locals, root, weaveVars>>

Activate(w) == CountIn(w, "activate")

(* Faulty variant: no Done.                                                *)
QuotationReturnsSilently(w) ==
    /\ pc[w] = "run"
    /\ pc' = [pc EXCEPT ![w] = "dec"]
    /\ UNCHANGED <<counters, SHUTDOWN_MUTEX, locals, history, weaveVars>>

(* The quotation returns: Done, then cleanup_strand (ExitSteps).           *)
QuotationReturns(w) ==
    /\ pc[w] = "run"
    /\ yield_chan' = Send(yield_chan, w, "Done")
    /\ pc' = [pc EXCEPT ![w] = "dec"]
    /\ UNCHANGED <<counters, SHUTDOWN_MUTEX, locals, history, resume_chan,
                   handles, waitingOn, resumes>>

(* patch_seq_yield: send, become dormant, receive, become active again.    *)
YieldSend(w) ==
    /\ pc[w] = "run"
    /\ yield_chan' = Send(yield_chan, w, "Value")
    /\ pc' = [pc EXCEPT ![w] = "y_dec"]
    /\ UNCHANGED <<counters, SHUTDOWN_MUTEX, locals, history, resume_chan,
                   handles, waitingOn, resumes>>

(* Faulty variant: a yielding weave stays counted (#287).                  *)
YieldStaysCounted(w) ==
    /\ pc[w] = "y_dec"
    /\ pc' = [pc EXCEPT ![w] = "parked"]
    /\ UNCHANGED <<counters, SHUTDOWN_MUTEX, locals, history, weaveVars>>

(* ACTIVE_STRANDS.fetch_sub, whose result nobody looks at.                 *)
YieldDormant(w) ==
    /\ pc[w] = "y_dec"
    /\ ACTIVE_STRANDS' = ACTIVE_STRANDS - 1
    /\ pc' = [pc EXCEPT ![w] = "parked"]
    /\ UNCHANGED <<TOTAL_SPAWNED, TOTAL_COMPLETED, PEAK_STRANDS,
                   SHUTDOWN_MUTEX, locals, history, weaveVars>>

YieldReceive(w) ==
    /\ pc[w] = "parked"
    /\ resume_chan[w] # <<>>
    /\ resume_chan' = Received(resume_chan, w)
    /\ pc' = [pc EXCEPT ![w] = IF Head(resume_chan[w]) = "Value"
                               THEN "reactivate" ELSE "cancelled"]
    /\ UNCHANGED <<counters, SHUTDOWN_MUTEX, locals, history, yield_chan,
                   handles, waitingOn, resumes>>

YieldReactivate(w) == CountIn(w, "reactivate")

(* Cancelled inside yield: Done, then block_forever.                       *)
YieldCancelled(w) ==
    /\ pc[w] = "cancelled"
    /\ yield_chan' = Send(yield_chan, w, "Done")
    /\ pc' = [pc EXCEPT ![w] = "blocked"]
    /\ UNCHANGED <<counters, SHUTDOWN_MUTEX, locals, history, resume_chan,
                   handles, waitingOn, resumes>>

-----------------------------------------------------------------------------
(* patch_seq_resume and patch_seq_weave_cancel, executed by the caller a.  *)

(* Faulty variant: resume does not wait for the answer.                    *)
ResumeSendOnly(a, w) ==
    /\ pc[a] = "run"
    /\ w \in handles[a]
    /\ resumes[w] < MaxResumes
    /\ resumes' = [resumes EXCEPT ![w] = @ + 1]
    /\ resume_chan' = Send(resume_chan, w, "Value")
    /\ UNCHANGED <<vars, yield_chan, handles, waitingOn>>

ResumeSend(a, w) ==
    /\ pc[a] = "run"
    /\ w \in handles[a]
    /\ resumes[w] < MaxResumes
    /\ resumes' = [resumes EXCEPT ![w] = @ + 1]
    /\ resume_chan' = Send(resume_chan, w, "Value")
    /\ waitingOn' = [waitingOn EXCEPT ![a] = w]
    /\ pc' = [pc EXCEPT ![a] = "resuming"]
    /\ UNCHANGED <<counters, SHUTDOWN_MUTEX, locals, history, yield_chan,
                   handles>>

(* resume leaves the handle on the stack and cancel consumes one copy; a   *)
(* disciplined program drops it after has_more = false and makes no copy.  *)
GiveUpHandle(a, w) ==
    \/ handles' = [handles EXCEPT ![a] = @ \ {w}]
    \/ ~Disciplined /\ UNCHANGED handles

ResumeReceive(a) ==
    /\ pc[a] = "resuming"
    /\ LET w == waitingOn[a]
       IN  /\ yield_chan[w] # <<>>
           /\ yield_chan' = Received(yield_chan, w)
           /\ IF Head(yield_chan[w]) = "Done"
              THEN GiveUpHandle(a, w) ELSE UNCHANGED handles
    /\ waitingOn' = [waitingOn EXCEPT ![a] = None]
    /\ pc' = [pc EXCEPT ![a] = "run"]
    /\ UNCHANGED <<counters, SHUTDOWN_MUTEX, locals, history, resume_chan,
                   resumes>>

WeaveCancel(a, w) ==
    /\ pc[a] = "run"
    /\ w \in handles[a]
    /\ resumes[w] < MaxResumes
    /\ resumes' = [resumes EXCEPT ![w] = @ + 1]
    /\ resume_chan' = Send(resume_chan, w, "Cancel")
    /\ GiveUpHandle(a, w)
    /\ UNCHANGED <<vars, yield_chan, waitingOn>>

-----------------------------------------------------------------------------
WeaveSteps(w) ==
    \/ FirstReceive(w) \/ Activate(w) \/ YieldDormant(w) \/ YieldReceive(w)
    \/ YieldReactivate(w) \/ YieldCancelled(w)

(* The steps of Scheduler, which leave the weaves' own state alone.        *)
SchedulerSteps ==
    \/ \E a \in Actors : SpawnSteps(a)
    \/ \E s \in Plain : EntryReturns(s)
    \/ \E s \in Strands : ExitSteps(s)
    \/ \E t \in Threads : WaitSteps(t) \/ SpuriousWake(t)

(* Every thread has returned; the process exits, whatever is parked.       *)
Exited == (\A t \in Threads : pc[t] = "returned") /\ UNCHANGED allVars

WeaveNext ==
    \/ SchedulerSteps /\ UNCHANGED weaveVars
    \/ \E a \in Actors, s \in Plain : SpawnPlain(a, s)
    \/ \E s \in Strands : \/ \E w \in Weaves : CreateWeave(s, w)
                          \/ \E w \in Weaves : ResumeSend(s, w)
                          \/ \E w \in Weaves : WeaveCancel(s, w)
                          \/ ResumeReceive(s)
    \/ \E w \in Weaves : WeaveSteps(w) \/ YieldSend(w) \/ QuotationReturns(w)
    \/ Exited

(* As in Scheduler: a runnable coroutine runs, and user code comes to an   *)
(* end; a weave's code ends by yielding or by returning.                   *)
WeaveFairness ==
    /\ \A a \in Actors : WF_allVars(SpawnSteps(a) /\ UNCHANGED weaveVars)
    /\ \A s \in Strands : WF_allVars(ResumeReceive(s))
    /\ \A s \in Plain : WF_allVars(EntryReturns(s) /\ UNCHANGED weaveVars)
    /\ \A s \in Strands : WF_allVars(ExitSteps(s) /\ UNCHANGED weaveVars)
    /\ \A w \in Weaves : /\ WF_allVars(WeaveSteps(w))
                         /\ WF_allVars(YieldSend(w) \/ QuotationReturns(w))
    /\ \A t \in Threads : WF_allVars(WaitSteps(t) /\ UNCHANGED weaveVars)

WeaveSpec == WeaveInit /\ [][WeaveNext]_allVars
FairWeaveSpec == WeaveSpec /\ WeaveFairness

-----------------------------------------------------------------------------
(* Channels carry only the messages their direction allows, and            *)
(* ACTIVE_STRANDS, which weaves take up and down on their own, never goes  *)
(* below zero.                                                             *)
WeaveTypeOK ==
    /\ ACTIVE_STRANDS \in Nat
    /\ pc \in [Actors -> StrandLabels \cup ThreadLabels \cup WeaveLabels
                         \cup {"resuming"}]
    /\ resume_chan \in [Weaves -> Seq({"Value", "Cancel"})]
    /\ yield_chan \in [Weaves -> Seq({"Value", "Done"})]
    /\ handles \in [Actors -> SUBSET Weaves]
    /\ waitingOn \in [Actors -> Weaves \cup {None}]
    /\ resumes \in [Weaves -> 0..MaxResumes]

(* The dormancy accounting of #287: ACTIVE_STRANDS is exactly the number   *)
(* of plain strands and of weaves that are in user code or still have to   *)
(* do their own fetch_sub, through any sequence of resumes and yields.     *)
DormantNotCounted == ACTIVE_STRANDS = Cardinality(WeaveCounted)

(* A weave runs, or is about to be counted and run.                        *)
InService(w) ==
    pc[w] \in SpawnLabels \cup {"activate", "reactivate", "run", "resuming"}

ValuesIn(q) == Cardinality({i \in 1..Len(q) : q[i] = "Value"})

(* Questions and answers match: as long as a weave has not been cancelled, *)
(* the callers blocked in resume on it are exactly as many as the values   *)
(* it has not taken yet, the one it is working on and the answers not yet  *)
(* collected.  Nobody is answered twice and nobody is forgotten.           *)
Conversation ==
    \A w \in Weaves : pc[w] \notin {"cancelled", "blocked", "gone"} =>
        Cardinality({a \in Actors : waitingOn[a] = w})
            = ValuesIn(resume_chan[w]) + Len(yield_chan[w])
              + (IF InService(w) THEN 1 ELSE 0)

(* The program does not exit under a running weave: when scheduler_run has *)
(* returned, nothing of that program is in user code or about to be, even  *)
(* though a weave that has just been resumed is not yet counted.           *)
NoCodeAfterExit ==
    \A t \in Threads : pc[t] = "returned" =>
        \A s \in Strands : root[s] = t =>
            pc[s] \in {"complete", "lock", "notify", "done", "dormant",
                       "parked", "cancelled", "blocked", "gone"}

(* Quiescence is final: once a thread waits and no strand is counted, no   *)
(* dormant weave ever brings the count back up (with one thread).          *)
QuietStays ==
    (\A t \in Threads : pc[t] \in WaitLabels) /\ ACTIVE_STRANDS = 0 => ACTIVE_STRANDS' = 0

QuiescenceIsFinal == [][QuietStays]_vars

(* The counter tells the weaves in user code from the dormant ones, and    *)
(* never goes below zero.                                                  *)
DormantOut == WeaveTypeOK /\ DormantNotCounted

(* Every question has one answer, and nothing of a program is in user code *)
(* when its scheduler_run has returned.                                    *)
ConversationsEnd == Conversation /\ NoCodeAfterExit

(* resume returns: with one holder per handle, who stops when told         *)
(* has_more = false, no caller stays blocked on yield_chan, however        *)
(* resumes, nested weaves and cancellations interleave.                    *)
ResumeReturns ==
    \A a \in Actors : pc[a] = "resuming" ~> pc[a] = "run"

(* resume.rs takes "Channel closed - weave is done" for what a caller of a *)
(* finished weave meets, and weave.rs promises (handle, placeholder,       *)
(* false): a resume of a weave that has ended returns.                     *)
EndedWeaveAnswers ==
    \A a \in Actors, w \in Weaves :
        waitingOn[a] = w /\ pc[w] \in {"done", "gone"} ~> waitingOn[a] # w

(* weave.rs: "dropping a WeaveHandle without doing either is safe - the    *)
(* program will still exit normally".  When no strand is active any more,  *)
(* scheduler_run returns.                                                  *)
ExitsNormally ==
    (\A t \in Threads : pc[t] \in WaitLabels) /\ ACTIVE_STRANDS = 0
        ~> \A t \in Threads : pc[t] = "returned"
=============================================================================
