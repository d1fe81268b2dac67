# Verification of Seq

Seq is a concatenative language compiled through LLVM IR. A compiled program is
linked against a runtime (`crates/runtime`, `crates/core`) that gives it strands
(coroutines of the May library), channels, weaves (generators), sockets, a DNS
resolver, an HTTP client, and a scheduler that decides when the process may exit. The
runtime is concurrent, lock-free in places, and has to end exactly when the last strand
has ended. The compiler (`crates/compiler`) is sequential, and what can go wrong in it
is that two of its parts disagree: the type checker and the program it accepts, inlined
code and the runtime's words, a lint and the stack it imitates. The tools around it
(`crates/lsp`, `crates/repl`, `crates/vim-line`) are driven by keys, messages and files
in any order. This directory specifies these parts in TLA+, checks them with TLC, and
proves the concurrent parts of the runtime and the state machines of the tools with TLAPS.

## 1. Inventory

### The parts, their state and their operations

| Part | State | Operations | What makes it correct |
|---|---|---|---|
| Scheduler (`scheduler.rs`, `scheduler/spawn.rs`, `scheduler/lifecycle.rs`) | `ACTIVE_STRANDS`, `TOTAL_SPAWNED`, `TOTAL_COMPLETED`, `PEAK_STRANDS`, `SHUTDOWN_MUTEX`, `SHUTDOWN_CONDVAR` | spawn, the exit path of a strand, `scheduler_run`, `wait_all_strands` | the process waits for every strand of its program, is always woken, and the counters are accurate |
| Weaves (`weave/*.rs`) | two private channels per weave, and its share of `ACTIVE_STRANDS` | `weave`, `resume`, `yield`, `weave-cancel` | a resume has one answer; a dormant weave does not keep the process alive; a running one does |
| Channels (`channel.rs`, `core/value.rs`) | an MPMC queue, a `closed` flag, two global counters | make, send, receive, close | FIFO, exactly once, nothing buffered is lost at close, close wakes every receiver |
| Strand registry (`scheduler/registry.rs`) | an array of (id, spawn time) atomics, an overflow counter | register, unregister, `active_strands` | one slot per strand, cleared by its owner; a snapshot misses nobody who was there all the time |
| Watchdog (`watchdog.rs`) | its configuration, the last strand it reported | a periodic scan and an alert | reports the longest-running strand over the threshold |
| TCP and TLS sockets (`tcp.rs`, `tls.rs`) | two registries: a vector of slots and a stack of free ids, a mutex each | listen, connect, accept, read, write, close, TLS upgrade | an id names one connection, none is lost or handed out twice, whatever overlaps with a blocking call |
| DNS resolver (`dns.rs`) | a TTL cache, an in-flight map, a job queue, worker threads | `resolve`, the worker loop | one lookup per host at a time; everybody who waits is answered |
| UDP sockets (`udp.rs`) | one registry, `Arc`-shared sockets | bind, send-to, receive-from, close | an operation in flight keeps its socket; ids and counts stay exact |
| HTTP client (`http_client/*.rs`) | a pool of idle connections with caps and ages | request, checkout, release | caps hold, a connection has one owner, an answer belongs to its request, only idempotent requests are repeated |
| Signals (`signal.rs`) | one flag per signal | trap, received?, clear, default, ignore | no signal is lost between the handler and the program |
| Memory statistics, arenas (`core/memory_stats.rs`, `arena.rs`) | slots claimed per thread | register, update, reset, aggregate | one slot per thread; the sums are what the slots say |
| Diagnostics, at-exit report (`diagnostics.rs`, `report.rs`) | none: they read the counters | dump, report | they report numbers that were true at some moment |
| Values and stacks (`core/stack.rs`, `tagged_stack.rs`, `runtime/list_ops.rs`, `map_ops.rs`, `variant_ops.rs`, `closures.rs`, `combinators.rs`) | tagged slots, counted cells shared between strands | shuffles, list, map and variant words, closures, call, spawn | the stacks behave as stacks of immutable values, nothing is freed early or twice |
| Include resolver (`compiler/resolver.rs`, `lsp/includes.rs`) | files merged so far | include, library and FFI includes | every file once, cycles end, server and compiler see the same program |
| Type checker (`compiler/typechecker/`, `unification.rs`) | substitution, stack type, aux stack, effects | one rule per statement | what it accepts runs as inferred |
| Call graph (`compiler/call_graph.rs`) | Tarjan's stack and links | build and query | recursion is recognised exactly |
| Code generator (`compiler/codegen/`) | virtual stack, flags about the last statement, blocks and phi nodes | one rule per statement | emitted functions are well formed; inlined and specialized code computes what the runtime's words do |
| Lints (`compiler/resource_lint/`, `error_flag_lint/`, `chan_yield_lint.rs`) | a simulated stack, a worklist | one rule per statement | they warn of what really happens |
| Language server (`lsp/`) and its client (`repl/lsp_client.rs`) | documents, pipes | open, change, completion, shutdown | an answer belongs to the question |
| REPL (`repl/`) | session file, child process, history, search | submit, :pop, :edit, recall | only what compiled is kept; no job is left over |
| Line editor (`vim-line/`) | text, cursor, mode, yank buffer | one per key | offsets stay on characters; deletions can be pasted back |
| Text and byte operations, files, terminal, parser | none across calls | sequential functions | see section 7 |

### How they interact

- The generated C `main` spawns `seq_main` as the first strand and calls
  `scheduler_run`, which sleeps on `SHUTDOWN_CONDVAR` until `ACTIVE_STRANDS` is zero.
  All user code runs in strands.
- spawn registers the strand in the strand registry before the coroutine exists; the
  strand unregisters itself on its exit path, before it decrements the counters.
- A weave is a coroutine that uses the scheduler's counters and exit path but not
  its spawn path: it adds itself to `ACTIVE_STRANDS` only while it runs, and takes
  itself out of it inside every `yield`.
- Channels, weaves, the resolver's replies and blocking I/O are where a strand is
  descheduled; state read before such a point may have changed after it.
- The watchdog and the diagnostics thread read the registry and the counters from
  OS threads of their own, without any lock.
- `net.tcp.connect`, UDP and the HTTP client call the resolver.
- spawn copies the parent's stack, so values are shared between threads and only their
  counters say who may change them in place.
- The type checker hands the code generator the types before each statement, the aux
  slots, the captures and the divergent calls; the generator decides by them what to
  inline and what to copy without counting.
- The REPL writes each line into a session file, runs the compiler on it, and asks a
  language server of its own, in a child process, for completions.

### What is hard

Interleavings of single atomic operations (counters, compare-and-swap loops,
slots); a condition variable notified by whoever happens to be last; a flag tested
before an enqueue; sentinels that circulate in a queue; sockets out of their slot
during I/O that yields; a cache tested before another lock is taken; failure of
one step of several (a handshake, a pool that did not start); and termination: each
of these can leave somebody asleep. In the compiler: state about the previous statement
that is still read inside the next one's branches, joins of branches, indices that mean
something else at another depth, the 63 bits of an Int in a 64-bit register. In the
tools: byte offsets into text of wider characters, answers that arrive after their
question was given up, files that are rewritten and rolled back.
`PROJECT.json` lists the hazards line by line, with the properties that cover them.

## 2. Modules

| Module | Models | Composes or uses |
|---|---|---|
| `Scheduler` | strand lifecycle, counters, shutdown | |
| `Weave` | weaves on top of the scheduler | extends `Scheduler`: a weave is a strand, its `cleanup_strand` is the scheduler's exit path |
| `Channel` | one channel | instantiates `ChannelPromise` |
| `ChannelPromise` | what a channel promises, abstractly | |
| `ChannelProofs` | theorems about `Channel` | extends `Channel` |
| `WeaveProofs` | theorems about `Scheduler`, `Weave` and `Diagnostics` | extends `Diagnostics` |
| `StrandRegistry` | registry and watchdog | |
| `StrandRegistryProofs` | theorems about it, `MemoryStats` and `Signals` | extends `MCStrandRegistry` |
| `SocketRegistry` | TCP registries and the TLS upgrade | |
| `SocketProofs` | theorems about it | extends `SocketRegistry` |
| `Dns` | resolver | |
| `DnsProofs` | theorems about it | extends `Dns` |
| `Udp` | UDP registry with shared sockets | |
| `UdpProofs` | theorems about it | extends `Udp` |
| `HttpClient` | requests over the connection pool | |
| `HttpProofs` | theorems about it, and about `Udp` beside it | extends `MCHttpClient`, instantiates `UdpProofs` |
| `Signals` | dispositions, the handler and the flags | |
| `MemoryStats` | thread slots, arenas, aggregation | |
| `Diagnostics` | the dump and the at-exit report | extends `Weave` (and so `Scheduler`): they read the counters its steps move |
| `DataStack` | stacks of counted cells and the words on them | instantiates `ValueStack` |
| `ValueStack` | what programs may rely on: stacks of immutable trees | |
| `IntOps` | integer arithmetic at W bits | |
| `InlineCode` | inlined and specialized code beside the runtime's words | extends `IntOps` |
| `Emit` | from a typed word to functions of basic blocks | |
| `Unify` | unification of stack types, as operators | |
| `TypeChecker` | inference beside an execution of the same body | extends `Unify` |
| `Includes` | the compiler's and the server's include walks | |
| `CallGraph` | Tarjan's search | |
| `StackLints` | the three stack-simulating analyzers beside an execution | |
| `ChanYieldLint` | the chan.yield lint | |
| `LanguageServer` | server, REPL client and popup over two pipes | |
| `LspText` | what is read off a line: completion context, word, overlap of ranges | |
| `ReplSession` | session file and child process | |
| `ReplLine` | history, search, Tab cycle and history file | |
| `Motions` | cursor motions, and what each should do, as operators | |
| `VimLine` | the editor and its host | extends `Motions` |
| `MCWeave` | weaves, dump and report | extends `Diagnostics` |
| `MCStrandRegistry` | the lock-free tables | extends `StrandRegistry`, instantiates `MemoryStats`, `Signals` |
| `MCHttpClient` | HTTP pool and UDP registry | extends `HttpClient`, instantiates `Udp` |
| `MCDns` | resolver and UDP calls | extends `Dns`, instantiates `Udp` |
| `MCValues` | seven vocabularies | extends and instantiates `DataStack` |
| `MCCodegen` | executions and programs | instantiates `InlineCode` and `Emit` |
| `MCFront` | checker, pairs to unify, walks, lints | extends `TypeChecker`, instantiates the others |
| `MCCompiler` | either half of the compiler | extends `MCFront`, instantiates `MCCodegen` |
| `MCTools` | editor, REPL, server | instantiates the six tool modules |
| `ToolsProofs` | theorems about the session file, the completion client, the history, the editor, its motions and the server's scans of a line | extends `MCTools` |

`Scheduler`, `Weave`, `Channel` and `SocketRegistry` are also run as they are, with only a
configuration beside them (`MCScheduler.cfg`, `MCWeaveLive.cfg`, `MCWeaveLostWakeup.cfg`,
`MCChannel.cfg`, `MCSocketRegistry.cfg`).

`PROJECT.json` maps every definition to its lines. Conventions:

- **A step is what the code does between two points where somebody else can act**:
  one atomic read-modify-write, one critical section, one queue operation. `pc`
  says where a strand or thread is. Locals that live across a step (`new_count`,
  `peak`, `prev_count`, `hand`, `senders`) are variables with the code's names.
- **Actors.** In `Scheduler` and `Weave`, OS threads and strands; in the other
  modules strands, and the worker or watchdog threads of that component.
- **User code** is reduced to the calls it makes: which one comes next is a free
  choice, so a property holds for every program within the bounds.
- **History variables** (`root`, `highWater`, `taken`, `due`, `through`, `results`, ...)
  are written and never read by an action; the properties speak about them.
- **Faulty variants** (operators whose comment begins so) stand before the action
  they alter. They take part in no specification; substituting one for its action is
  how it is shown that a property can fail.

### State and actions

*Scheduler.* `SpawnTakeId`, `SpawnCountActive`, `SpawnCountTotal`, `SpawnLoadPeak`,
`SpawnCasPeak`, `SpawnStart` are `strand_spawn_with_base` in program order.
`EntryReturns`, `ExitDecrement`, `ExitComplete`, `ExitLock`, `ExitNotify` are the end
of the coroutine closure; the last one is chosen by `prev_count = 1`, as in the code.
`WaitLock`, `WaitCheck`, `WaitWake` are the `while` loop around `Condvar::wait`, which
releases the mutex and falls asleep in one step; `SpuriousWake` is what the standard
library allows. `scheduler_run` and `wait_all_strands` run the same protocol, hence
several `Threads`.

*Weave.* `CreateWeave` starts the coroutine dormant, `FirstReceive` and `Activate` are
its first resume, `YieldSend`, `YieldDormant`, `YieldReceive`, `YieldReactivate` and
`YieldCancelled` are `yield`, `QuotationReturns` sends Done and enters the exit path.
`ResumeSend`, `ResumeReceive` and `WeaveCancel` are the caller's side. Handles are
values: a strand or weave created later gets a copy of its creator's stack, so one
weave may have several holders; `Disciplined` restricts programs to one holder per
handle that stops after `has_more = false`.

*Channel.* `SendCheck`/`SendEnqueue`/`SendCount`, `ReceiveCall`/`ReceiveTake` and then
`ReceiveCount` or `ReceiveRebroadcast`, and `CloseCas`/`CloseSentinel` split the three
operations where the strand can be descheduled.

*StrandRegistry.* `RegisterStore` and `RegisterClaim` are one turn of the loop in
`register` (the spawn time is stored before the slot is known to be free);
`UnregisterClear` and `UnregisterReset` the one in `unregister`; `WatchBegin`,
`WatchLoadId`, `WatchLoadTime`, `WatchEnd` the watchdog's scan and alert.

*SocketRegistry.* Every action is one critical section of `LISTENERS` or `STREAMS`.
`Take` empties a slot for a blocking call; `AcceptReturns`, `IoReturns`, `UpgradeOk`
fill it again; `UpgradeFails` and `ReleaseReserved` are the failed handshake; close is
two sections, `CloseStreams` and `CloseListeners`. Programs may pass any id at all.

*Dns.* `CacheGet`, `Attach`, `Enqueue`, `Drain`, `Fail`, `Receive` are `resolve`;
`WorkerReceive`, `Lookup`, `CachePut`, `RemoveEntry`, `FanOut` the worker loop. The
answers of a fan-out go out in any order (the code's order is the order of attachment).

*Udp, HttpClient.* An action is one critical section of the registry or pool, or one
blocking call. A UDP operation clones the `Arc` under the lock (`Resolve`) and does its I/O
without it; a handle keeps, as history, the socket its id stood for. A request of
`HttpClient` goes through validation, checkout or dial, send, the answer with its timeouts
and framing, at most one retry, and release; the server is external, answers a connection's
requests in order and may close at any time.

*Signals.* `Deliver` (the kernel reads the disposition) and the handler's store are two
steps, in any thread; sigaction, received? and clear are one each. Which strand asks makes
no difference to the swap, so the strands are not told apart; four histories count what
became of each signal (`seen`, `merged`, `cleared`, `ignored`).

*MemoryStats.* Every atomic access is a step: the loop over the slots with its
compare-and-swap, the store and `fetch_max` of an update, each load of the aggregation.
`Total` is the sum over the slots, in the order in which the aggregation goes through them.

*Diagnostics.* One action per load of the dump, which interleaves with every step of
`Weave`; the report reads after `scheduler_run` has returned.

*DataStack.* A word is a program of small steps (`Start`, `Continue`, `Loop`): look whether
the operand's cell is unshared, pop the operands, copy or change, let go. Each reference
counter operation is a step of its own, so another strand can act between the look and the
change. The refinement maps a slot to the tree it stands for (`ReifyTo`), and
`Immutable` says that every step is one of `ValueStack` or a stutter.

*InlineCode, IntOps.* One statement is executed three ways in one step: by the runtime's
functions on tagged slots (`ref`), by the inlined code with its virtual stack (`code`), and
by the register version of the word (`regs`). Where the code may spill, it may do so or not.

*Emit.* A word body grows by one statement per step and is compiled whenever it has the
declared effect. The state of the generator is a record passed through the operators that
bear the names of its functions; what remains of the code is blocks, edges, phi nodes and
terminators. `t` is the true typing beside it; a decision that contradicts it is a fault.

*TypeChecker, Unify.* `Read` checks the next statement and `Step` executes it on values known
by their run-time types. `StackShape` and its companions compare the two after each step.
`Unify` has the functions of `unification.rs` by name; `MCFront` enumerates pairs of stacks.

*CallGraph, ChanYieldLint, Includes.* The recursion of the code is a sequence of frames; the
order of hash sets is a free choice.

*StackLints.* As `TypeChecker`: each statement is simulated by the lint and executed with the
builtin's real effect; branches are built arm by arm and joined, and the execution is left
in either.

*LanguageServer.* The pipes are sequences; `Handle`, `WriteReply` and `WriteNote` are the
server's loop, `Read` and `ReadEnd` the client's, which skips what it did not ask for up to a
limit (`client.limit`, one of `Limits`: the code's constant is one value of it). The process
may die at any step. *LspText* and `MCTools` for *Motions* type a text piece by piece, up to
`MaxPieces` and `MaxTyped`, and apply the pure operators at every position of it.

*ReplSession, ReplLine, VimLine.* One action per command or key, whole: a refused line is
written, compiled and taken out again with everything the code touches in between; a write
that fails leaves the file as it was or empty, and the line is over with nothing rolled back
(`SessionSound` then takes what is left as the file it compares with); a key
yields an edit list which the host applies. An entry of the history is known by its name;
`Lines` says which lines it becomes in the history file, where empty ones are skipped. A
command, typed in Insert mode or on the command line, is `handle_command`: it may be recorded
under its own name or a canonical one, or not at all, and a refused `:include` leaves the input.
Which command does which is left open. A completion can be accepted in every mode but the
command line's, as the popup's keys are looked at before the mode is.

## 3. Runs

| Run | Instance | Distinct states | What it shows |
|---|---|---|---|
| `scheduler` | 2 threads, 3 strands | 204 372 | `JoinGuarantee`, `ActiveIsCounted`, `CountersConserved`, `PeakIsHighWater`, `NoLostWakeup`, and `EveryWaiterReturns` |
| `weave` | 1 strand and 2 weaves with 3 resumes or cancels each; or 2 strands and a weave, resumed once, while a dump or the report reads the counters; handles are shared | 3 368 264 | `DormantOut`: the dormancy accounting; `ConversationsEnd`: question and answer match, no code after exit; `QuiescenceIsFinal`; `FiguresAccount`: how far a racing dump or report can be off |
| `weave_live` | 1 strand, 2 weaves, one holder per handle, 2 resumes | 25 607 | `ResumeReturns`: every resume returns |
| `channel` | 3 strands, 3 operations each, 2 values | 120 708 | `DrainBeforeEnd`, `ExactlyOnce`, `CountersBalance`, `CloseWakesReceivers`, and `KeepsPromise`, the refinement of `ChannelPromise` |
| `registry` | strands: 3 on 2 slots; memory: 3 threads on 2 slots, 3 arena operations; signals: 3 strands, 2 signals raised | about 4.5 million (symmetry) | `SlotsOwned`: one owner per slot, unregister finds its own; `ScanTrue`: complete snapshots, the longest-running strand is reported; `FiguresExact`: exclusive memory slots and sound sums, every signal accounted for |
| `sockets` | 3 strands, 4 sockets, 2 slots per registry | 449 799 | `SocketsOwned`: every socket has one owner, every id is free, occupied or reserved; `NoClobber` |
| `http` | HTTP: 2 strands, 3 connections, 2 hosts, caps of 1; UDP: 2 strands, 3 sockets, 3 ports, 2 slots | 726 236 (symmetry) | `ReplaySafe`: what may be sent twice, and whose answer it is; `PoolSound`: caps and ownership of connections; `DatagramsSound`: ids and counts of UDP sockets, operations in flight, no datagram twice |
| `dns` | 3 strands, 2 hosts, 2 workers, a cache of 1, 3 calls; UDP: 2 strands, 2 sockets | 241 271 | `LookupsSound`: one lookup per host, nobody forgotten, no foreign answer; `CallsReturn`: every resolve and every UDP call returns |
| `values` | 2 strands, 7 vocabularies | 184 507 | `HeapSound`: exact counts, no cycles, no use after free, owned maps; `Immutable`, the refinement of `ValueStack` |
| `compiler` | type checker: bodies of up to 4 (match: 5) statements; pairs of stacks of up to 3; 3 files and 2 modules; 3 words; lints: 5 to 8 words; code: words of 4 bits, programs of up to 6 statements | 1 184 498 | `TypesSound`: what is accepted runs as inferred, of each vocabulary as far as it holds (section 5); `AnalysesExact`: unification, include walks, call graph and chan.yield reports match their definitions; `LintsHonest`: leaks are warned about along one path and in either arm, and what was closed or checked is not; `CodeAgrees`: inlined and register code compute what the runtime's words do; `FunctionsWellFormed`: terminators, phi nodes, tail calls; `DecisionsSound`: copies, indices and aux slots, on programs without the constructs of section 5 |
| `tools` | editor: texts of 3 bytes; motions: texts of 5; lines of 4 pieces; session, history and completion client with small bounds | 551 377 | `EditorSafe` (two known panics apart, section 5), `TextExact`, `SessionSound`, `HistorySound`, `PopupHonest`, and `ToolsAnswer`: every job and every question ends |
| `weave_lost_wakeup` | 1 strand, 1 weave | | `ExitsNormally` is violated, section 5 |

A run asks one question of one group of parts. Where a group has several instances (the
seven vocabularies of `values`, the HTTP and UDP parts of `http`), its `MC` module
has a variable `kind` or `part` that is chosen in the initial state and never changes; the
action of that kind moves its part, and the other parts stay as they began; the four
vocabularies of the type checker are told apart by its own variable `voc`. The properties
of such a module are conjunctions of the component's named properties, guarded by the
kinds they are about; the component modules state each part with its own comment. Where a
property is proved as well, the run names the component's own definition, so that the run
and the theorem speak of the same formula.

### Bounds

- *Scheduler.* Three strands make every race of two exits, of two spawns and of a
  spawn with an exit happen with a third strand still counted; two threads make
  `notify_all` differ from `notify_one`. The theorems remove the bound.
- *Weave.* `MaxResumes` bounds resumes and cancels of one weave: first resume, a yield
  answered, and an end or cancel all fit in three. Two weaves nest and share holders. The
  readers of the counters run beside two strands and one weave, so that one strand can be
  between its two counters while another one spawns. A dump and the report share nothing
  but what they read, so a behaviour has one or the other. The theorems remove the bounds.
- *Channel.* `MaxOps` bounds the operations of one strand. Two values show reordering
  and a late sender; three strands are a sender, a closer and a receiver, or two of a
  kind. The theorems remove the bounds, the value set included.
- *Registry.* Two slots and three strands or threads: overflow, slot reuse and a scan that
  straddles both. `Times` are the seconds at which anything happens; the gap from 2 to
  4 makes ages both below and above the threshold, in either order of spawning.
- *Sockets.* Two slots reach the limit, reuse and aliasing between the registries; four TCP
  sockets fill both. UDP has one port more than slots, so that a bind meets the limit and
  not only a port in use. The HTTP pool has caps of 1, with a connection in the pool and two
  in use. The two caps are not told apart by that; the theorem `PoolKept` is about all values of
  both. PUT stands for every idempotent method (its code path does all that GET's does)
  and POST for the other.
- *Dns.* `CACHE_MAX = 1` with two hosts forces an eviction at every second lookup,
  which with 256 entries a test does not reach. `MaxCalls` bounds the calls: a leader,
  a follower and a late arriver. Each host has an address of its own so that a mix-up shows.
- *Values.* `MaxDepth` bounds a stack, `MaxLive` the live cells, `MaxLen` a list. Three live
  cells are an original, its copy and one that contains either. Every word is in some
  vocabulary; those that share cells between strands are explored with both strands.
- *Codegen.* Ints of `W = 4` bits tagged into 3, where every overflow of 63 and 64 bits has
  its counterpart. Programs for `Emit` have 3 to 5 statements, of which an `if`, a match or
  a quotation is one and holds up to 7 more.
- *Front.* Two rows, two type variables, a union and a basic type make every case of the
  unifier meet every other. Every include tree of two, two and one include over six targets,
  every call relation of three words. Lints follow 5 words, 8 where an arm needs them.
- *Tools.* Texts of up to 5 characters over seven classes, one of them of two bytes, hold
  a word, its blank and its neighbour, or a bracket in a bracket. Three bytes suffice for a
  key that edits between two others. A history of two entries overflows at the third.

The vocabularies of `compiler` keep clear of the constructs that section 5 lists.
With one of them added to the vocabulary in the `MC` module, the property it is listed with
fails.

Symmetry is used in `registry` and `http`, which check no leads-to property. Deadlock is
checked in `scheduler`. The other instances may really stop: a receiver waits on a channel
nobody closes, a weave stays parked, a program has been compiled, or a bound is used up.

### Fairness

Weak fairness of each actor's steps, never strong: a runnable coroutine is eventually
scheduled by May's worker threads, an OS thread by the kernel. User code is assumed to
return (`EntryReturns`; a weave's code yields or returns), but not to spawn, to resume,
to send or to close: those actions have no fairness. A mutex is taken finitely often
in each instance, so weak fairness is enough for it. In `Dns`, `getaddrinfo` returns:
libc's resolver has its own timeouts. In `Udp`, a strand inside a call takes its next step
when it can; nobody has to send it a datagram. The condition variable is never obliged to
wake spuriously, the cache never to expire. In `ReplSession` the compiler ends, the event
loop polls and the clock reaches the timeout: a child need not end by itself. In
`LanguageServer` the server's loop and the client's read go on; the server may die at any
step, and the user need not type.

## 4. Theorems

Checked by TLAPS for every value of the constants.

**`WeaveProofs`, the scheduler**, from `SchedulerConstants` (the sets are finite and disjoint).
`JoinGuarantee` is not inductive: `scheduler_run` returns because it reads a zero
count, so the proof has to know that the count is accurate and that a strand about to
be started cannot be missing from it. The inductive invariant is

    IInv == TypeOK /\ SpawnTree /\ ActiveIsCounted /\ JoinGuarantee

where `SpawnTree` says that each strand that has an id but does not run yet is the child
of exactly one actor inside its spawn, and belongs to the same program. A spawner that
is a strand is counted; one that is a thread is not waiting. Hence with a count of zero
nothing of the thread's program is left to start. `Invariance` proves it, with one step
per action for each conjunct, and gives `TypeCorrect`, `Join` and `ActiveAccurate`.
`WakeupNotLost` adds `NoLostWakeup`, inductive relative to `IInv`. `PeakExact` rests on
`PeakInv`: the mark never exceeds what was reached, and whatever is missing from it is
in the `new_count` of a spawner still in its loop. `CountersAccount` is `CountersConserved`,
inductive relative to `IInv` once the two gaps between two counters (`SpawnGap`, `ExitGap`)
are shown finite and each step to move one actor at most into or out of them.

**`WeaveProofs`, weaves and readers**, from `SchedulerConstants` and `WeaveConstants` (weaves are strands; any
number of them, disciplined or not). The inductive invariant is

    Invariants == Types /\ SpawnTree /\ HandleInv /\ PlainInv
                  /\ DormantNotCounted /\ Conversation /\ NoCodeAfterExit

The difficult conjunct is `NoCodeAfterExit`: between the message that resumes a weave and
its own `fetch_add` the weave is about to run and is not counted. What saves the program
from exiting is its caller, who is blocked in resume and counted; `Conversation` supplies
the caller, and `HandleInv` says that caller and weave belong to the same program, because a
handle never leaves the program that made it. `DormancyExact`, `ConversationsSound` and
`QuiescenceFinal` follow, the last as an action property: it needs that a weave that could
count itself in has such a caller. `FiguresSound` is about `Diagnostics`: `ReadersInv` adds
`CountersInv` (which strands each counter has yet to see: `Spawning`, `Born`, `OnTheWay`) and
what a dump or a report has read so far compared with what the counters are now (`DumpInv`,
`ReportInv`).

**`ChannelProofs`**, from `ChannelConstants` (and, for the counters, `FiniteStrands`). The
inductive invariant is

    IInv == TypeOK /\ HandInv /\ OneSentinel /\ OnceInv /\ DrainInv

`DrainBeforeEnd` speaks of the moment the sentinel is taken; `DrainInv` says where it is
before that: behind every value that was queued at the close, which needs that a sender
still on its way holds none of them (`OnceInv`) and that there is only one sentinel
(`OneSentinel`). `HandInv` says which labels go with a value in hand. The theorems are
`TypeCorrect`, `SentinelUnique`, `DrainsBeforeEnd` and `DeliveredOnce`.
`ImplementsPromise` is the refinement: the queue without its sentinel is the promised
buffer (`BufferOpen` and `BufferClosed` say what taking it out returns, a recv and a
rebroadcast leave the same buffer), and each action is a step of `ChannelPromise` or a
stutter (`PromiseStep`). `CountersAgree` proves `Balance`, which counts the senders and
receivers between the queue and a counter too.

**`StrandRegistryProofs`**, from `RegistryConstants` (`Free` is no strand, the clock shows
positive numbers). The inductive invariant is

    IInv == TypeOK /\ OwnInv /\ OverflowInv /\ ScanInv /\ WorstInv

`OwnInv` follows a strand through register and unregister: it is in at most one slot, and
its unregister has not gone past that slot. `ScanInv` relates the slots to a scan in
progress, slot by slot and between the two loads of one slot. The theorems are `OneOwner`
(`SlotsOwned`) and `ScansTrue` (`ScanTrue`); `WorstInv` is the latter's loop invariant.

**`DnsProofs`**, from `DnsConstants`. The inductive invariant is

    IInv == Types /\ CacheBound /\ RoleInv /\ ServedInv /\ GenuineInv

`LookupsSound` counts lookups and replies; the invariant does without cardinalities. An
in-flight entry has exactly one leader, queued job or worker responsible for it (`RoleInv`);
a strand that will get a reply is in exactly one of the places from which it can come
(`ServedInv`); and what is on its way to it is a result for its host (`GenuineInv`).
`ResolverSound` gives `LookupsSound`.

**`SocketProofs`**, from `SocketConstants` (`None` is no socket, `MAX_SOCKETS` is a number).
The inductive invariant is

    IInv == TypeOK /\ HandInv /\ AllIdsInv

`AllIdsInv` is `IdsAccounted` in the form in which a step preserves it; `HandInv` says at
which labels a strand has a socket in hand, without which a put-back could leave a slot
that is neither occupied, free nor reserved. Sequences are dealt with once: `FillFacts`,
`GrowFacts`, `PushFacts` and `PopFacts` turn each change of a registry into an effect on
its ids, slots and free set, the `Ids...` lemmas show that each combination of effects
preserves the invariant, and one lemma per critical section (`TakeSection`, `PutSection`,
`AllocateSection`, `FreeSection`, `ReleaseSection`) joins the two. The theorems are
`TypeCorrect`, `IdsSound`, `NotClobbered` and `SocketsSound`. `NotClobbered` is the action
property and needs that a reserved slot is empty and that an id on the free list is too;
`SocketsSound` adds `PlacesInv`: a live socket is in exactly one slot or one hand, a dropped
one in none.

**`HttpProofs`**, from `PoolAssumptions` (`None` is no connection, there are finitely many,
the limits are numbers). The inductive invariant is

    IInv == Types /\ ControlInv /\ OneOwner /\ PoolBounded /\ OnlyApproved
            /\ ExchangeInv /\ AttemptInv /\ AnswerInv

That no request gets another's answer needs to know what is under way on a connection:
nothing, unless its owner waits for a response, and then the owner's request or its response
alone (`ExchangeInv`). It is why a connection may go back into the pool only after its
response was read. `AttemptInv` says how often a request can have been dialled for and
written where its strand stands. `PoolKept` and `RetrySafe` give `PoolSound` and
`ReplaySafe`.

**`UdpProofs`**, from `UdpAssumptions` (`None` is no socket and no port, there are finitely
many strands, the limits are numbers). The inductive invariant is

    IInv == TypeOK /\ HandInv /\ IdsAccounted /\ CountsExact /\ PortInv
            /\ NumbersInv /\ ReceivedOnce

The actions are sorted by what they do to the registry, the counts and the kernel
(`StepKinds`), and each conjunct has a lemma that goes through the kinds. `CountsExact`
counts two finite sets, the slots and the hands that hold a socket, of which a step makes
one larger or smaller by one (`SlotFilled`, `SlotEmptied`, `HandFilled`, `HandEmptied`);
`HandInv` says who has an `Arc` in hand. That a datagram is received once needs that its
number is in one queue or one answer (`NumbersInv`), and that a port is bound by one socket
(`PortInv`), or one send would be delivered twice. `UdpSound` gives `DatagramsSound`.

`DatagramsSound` is checked by the run `http`, in a specification in which either the client
or the UDP sockets take the steps. `HttpProofs` proves it there (`DatagramsKept`): it takes
`UdpProofs` as an instance (`Facts`) with the run's substitution, shows that its definitions
are those of the run's own instance of `Udp` (`SameInit`, `SameNext`, `SameSound`), and that a
step of the whole is a step of each part or leaves it alone (`StepOfParts`). `ClientKept` says
the same of `PoolSound` and `ReplaySafe`.

**`StrandRegistryProofs`, memory statistics and signals**, from `MemoryAssumption` (the sizes
are numbers, `Free` is no thread, there are finitely many) and `SignalAssumption`. The
inductive invariants are

    MemoryInv == MemoryTypes /\ ThreadInv /\ UnusedInv /\ RefusedInv /\ ReaderInv
    SignalInv == SignalTypes /\ EachAccounted

`ThreadInv` says of each thread, by its place in the code, which slot it has claimed or may
still claim (`PlaceInv`) and how the figures in the slot compare with its arena (`ValueInv`);
`UnusedInv` that a slot nobody owns holds nothing; `RefusedInv` that the threads in overflow
are exactly those counted. `ReaderInv` follows an aggregation that reads slot after slot
while the figures move. It needs sums over an arbitrary number of slots: `Total` is a
recursive function, the lemmas show that it exists, is unique and is monotone (`SumsUpTo`,
see the remark on induction below). `FiguresKept` gives `FiguresExact`, and `RegistryKept`
the two properties of the strand registry, in the specification the run checks.

**`ToolsProofs`**, from `SessionAssumption`, `ServerAssumption`, `HistoryAssumption` and
`EditorAssumption`. One inductive invariant for each tool, and `StepOfTools` says that a step
of one leaves the others alone.

- `SessionKept` (`SessionSound`) rests on `SessionInv`: what `OnlyAccepted` needs is what a job
  under way can go back to, so `JobInv` says that it began with what was accepted or has
  changed nothing. It holds for any expressions, definitions, include modules and bounds.
- `PopupKept` (`PopupHonest`) rests on

      ServerInv == ServerTypes /\ PopupInv /\ AnswerInv /\ LineInv /\ PileInv

  `AnswerInv` says what each answer that is still on its way will be taken for: there is at
  most one request open (`OneOpen`, `NoneOpen`), ids only grow, and an answer with the open id
  was made for the document that was sent before it. `LineInv` says that whatever document
  the server ends up with is one without the typed line. `PileInv` bounds what a client
  skips by what can be in the pipes at all, which is why a limit above that bound is never
  met.
- `HistoryKept` (`HistorySound`, an action property) rests on

      HistoryInv == HistoryTypes /\ RecallInv /\ SearchInv /\ CycleInv

  The difficult part is the history file: loading what was saved gives the same store only if
  no two consecutive entries are equal and there are at most `MaxHistory` of them, which is
  part of the type of a store (`Bounded`). `Written`, `Begins` and the patterns are any
  operators and sets at all within `HistoryAssumption`.
- `EditorKept` (`EditorSafe`, an action property) rests on

      EditorInv == EditorTypes /\ TypeOK /\ PanicsKnown

  and has one lemma for each kind of key. `MotionEnds` says where each motion can end in a text
  of any length. That a deletion can be put back is shown by cases on where the cut began and
  where the cursor is left (`FitsBack`, `PutBackIs`). `EditorAssumption` restricts the
  texts to characters of one byte: with wider ones `e` may stop inside a character
  (section 5), and the property is false.
- `TextKept` (`TextExact`) needs no assumption. Its invariants are small: `MotionInv` says that
  a text is whole characters (`WholeText`) and the cursor between two, `ScanInv` the same of a
  server's line. The work is in the lemmas that hold for every text. A loop that skips bytes
  is known by what it passes and what it stops at (`SkipsForward`, `SkipsBackward`), and from
  that `w`, `b`, `W`, `B` and `e` land where words start and stop (`WordsExact`), wide
  characters included. Brackets and quotes are counted over ranges, and a count splits where
  its range does (`CountSplits`). Between a bracket and its partner the depth never passes
  through zero, so that the search back from the partner stops at the bracket
  (`BracketCloses`, `BracketOpens`). Types are offered only where a parenthesis is open
  (`OpenParen`): the one after the last place where none was open is never closed, and seen
  from a place outside of strings a part of the line has the same parentheses as the whole
  (`UnmatchedPart`).

**Induction over data.** The library's induction theorems take an operator as a parameter,
which the provers cannot instantiate. Where a proof here needs induction it goes by sets: the
set of the numbers for which a fact fails has a least member (from `WFMin`, with the
well-foundedness of `<` on the naturals; `LeastOf`), and the step refutes it. A recursive
function is handled in the same way: first that a function with that equation exists, then
what it returns. It works for recursive functions only; the prover does not take RECURSIVE
operators at all.

**Only model-checked**, and why:

- all liveness (`EveryWaiterReturns`, `ResumeReturns`, `CloseWakesReceivers`, `CallsReturn`,
  `ToolsAnswer`): fairness and ENABLED are out of this prover's reach;
- `HeapSound` and the refinement `Immutable`: `DataStack` walks trees of cells with RECURSIVE
  operators, as the drops of the code do;
- `TypesSound`, `AnalysesExact`, `FunctionsWellFormed`, `DecisionsSound`: `Unify`, `TypeChecker`,
  `Includes` and `Emit` recurse over types, files and statements in the same way; `LintsHonest`,
  because the module that states it checks the lints beside the type checker;
- `CodeAgrees`: `IntOps` uses `Bitwise`, which the prover does not take either.

`OneSentinel` and the type invariants of the proved modules are consequences of the
inductive invariants; the runs name only the properties that rest on them. The inductive
invariants were checked by TLC on an instance of their module before they were proved.

## 5. Where the code and its documentation disagree

**`weave_lost_wakeup`** is the one with a run of its own. A yield decrements
`ACTIVE_STRANDS` without looking at the result. The resuming strand may take the value, drop
the handle and end between the weave's send and that decrement: neither of the two
decrements then notifies, and `scheduler_run` sleeps forever. `weave.rs` promises that
dropping a handle is safe. `PROJECT.json` quotes the lines.

The others are recorded as definitions that state what the documentation says, next to the
properties of their module. No run checks them: the code does not meet them, in an instance
that has the named construct and is large enough for the case to happen.

*Runtime*

| Claim | In | What the code does |
|---|---|---|
| `EndedWeaveAnswers` | `Weave` | A resume of a weave that has ended blocks forever: the handle keeps both ends of both channels alive, so no send or receive ever fails (`weave/resume.rs:64`; `weave.rs:92` expects an answer) |
| `EndIsFinal` | `Channel` | A send that passed the `closed` test before the close enqueues behind the sentinel: one receive answers end-of-stream and a later one a value (`channel.rs:164`; `docs/STDLIB_REFERENCE.md:214`). What a channel does guarantee is `ChannelPromise` |
| `StuckIsSeen` | `StrandRegistry` | `register` writes its own time into each occupied slot it passes, and no owner writes it back: with every spawn the older strands look young again (`scheduler/registry.rs:88`) |
| `LateArriverHitsCache` | `Dns` | The cache is tested before the in-flight map is locked; a lookup that finishes in between makes the late arriver a leader (`dns.rs:302`; `dns.rs:20`). It costs a lookup and nothing else |
| `NoFalseAlarm` | `Diagnostics` | The dump's loads are not of one moment: strands spawned between them are reported as lost (`diagnostics.rs:116`; `scheduler/spawn.rs:125`) |
| `DoneWereSpawned`, `EveryEndReported`, `PeakReported` | `Diagnostics` | Ended weaves are counted as done and never as spawned; the last strand leaves the count before it counts its end; weaves do not raise the peak (`docs/OBSERVABILITY_GUIDE.md:143-145`) |
| `CloseIdempotent` | `Udp` | A second close of an id that was handed out again closes the other socket (`udp.rs:99`) |
| `PeakAtLeastCurrent` | `MemoryStats` | Bytes are stored before the mark is raised and loaded in the same order (`core/memory_stats.rs:134`) |
| `WithinStack` | `DataStack` | roll by 1 or 2 does not look at the depth; a combinator runs its quotation on a stack of its own with the caller's base (`core/stack.rs:480`, `536`) |
| `ExitDrops` | `DataStack` | `free_stack` frees nothing when a strand ends (`scheduler/spawn.rs:117`, `153`) |

*Compiler*

| Claim | In | What the code does |
|---|---|---|
| `FfiCollected` | `Includes` | FFI libraries collected before an included file are lost to the recursive call (`resolver.rs:120`) |
| `PickWithin` | `TypeChecker` | A literal pick or roll past the declared inputs gets a fresh type (`typechecker/stack_utils.rs:54`) |
| `DivergentBranches` | `TypeChecker` | A branch that ends in a call of the word itself is left out of the comparison although the call returns (`typechecker/control_flow.rs:177`) |
| `MatchOnUnion` | `TypeChecker` | The type of the matched value is not looked at (`typechecker/control_flow.rs:21`) |
| `SpawnCaptures`, `CapturesTopDown` | `TypeChecker` | What spawn captures is not recorded in the quotation's type; captures are recorded bottom to top (`typechecker/quotations.rs:211`, `159`) |
| `NoTypeConfusion` with closures | `TypeChecker` | The body of a capturing quotation is not compared with what it captures (`typechecker/quotations.rs:292`) |
| `PathsNeverDrift`, `SafeDivision` | `InlineCode` | Registers keep 64 bits where slots keep 63; `srem` of the smallest value by -1 is not guarded (`codegen/specialization/codegen_ops.rs:100`, `codegen_safe_math.rs:36`) |
| `PowHonest` | `InlineCode` | `i.pow` checks 64 bits and tags 63 (`arithmetic/arith.rs:130`) |
| `DispatchAgrees` with a Bool result | `InlineCode` | A Bool from a register version is spilled with an Int's tag (`codegen/statements.rs:231`) |
| `CapturesKept` | `Emit` | A captured Bool comes back as an Int (`codegen/words.rs:425`) |
| `NothingAfterRet` with a match last | `Emit` | A match whose arms all return is followed by a `ret` outside any block (`codegen/words.rs:589`) |
| `Terminated` with 3drop, >aux, aux> or negate last, or the register version of an empty word | `Emit` | No `ret` is written (`codegen/words.rs:571`, `codegen/specialization/codegen_word.rs:137`) |
| `MusttailAllowed` with nested closures | `Emit` | The flag is cleared when the inner closure is done (`codegen/words.rs:308`) |
| `RawCopySound` with a literal before an if, or a lowered loop | `Emit` | State about the previous statement, or of another depth, is read inside the branch (`codegen/inline/shuffle.rs:41`, `codegen/loop_lowering.rs:231`) |
| `ConstantIndexSound` with a literal before a quotation | `Emit` | Its pick takes that literal for its index (`codegen/state.rs:181`) |
| `PhiMatchesEdges` with an if in a lowered loop, or a division in a register branch | `Emit` | The phi node names the block the branch began in (`codegen/loop_lowering.rs:190`, `codegen/specialization/codegen_word.rs:328`) |
| `AuxPointerExact` with a >aux that both branches of an if leave open | `Emit` | The aux pointer is restored after the if (`codegen/inline/shuffle.rs:349`) |
| `ArmsDisagree`, `DropIsLeak` | `StackLints` | Resources of two arms share numbers; the drop of a copy is reported (`resource_lint/state.rs:92`, `word.rs:176`) |
| `WarnedWasDropped` with inputs or an unknown callee | `StackLints` | Shuffles below the simulated stack are ignored; a call removes the flags' places too (`resource_lint/word.rs:191`, `error_flag_lint/analyzer.rs:294`) |
| `StackMirrored` with chan.send, chan.receive or roll | `StackLints` | Their simulated effect is not the builtin's (`resource_lint/word.rs:304-314`) |
| `ReturnsTrue` with a callee further down | `StackLints` | The first pass reads the map it is filling (`resource_lint/program.rs:309`) |
| `NoCleanLeak` with resources in both arms, or bindings | `StackLints` | The join keeps the first arm's order; the program-wide analyzer pushes nothing for bindings (`resource_lint/state.rs:212`, `program.rs:400`) |
| `CheckedNotWarned` with a user word, `FlagDropWarned` with flags in both arms | `StackLints` | An unknown word leaves the flag; the join keeps only the first arm's (`error_flag_lint/analyzer.rs:327`, `state.rs:72`) |

*Tools*

| Claim | In | What the code does |
|---|---|---|
| `EndOfSameLine` | `Motions` | `$` on an empty line goes to the line above (`vim/motions.rs:67`) |
| `NormalOnChar`, `CursorOnBoundary` | `VimLine` | A recalled line, D, dw and dd leave the cursor past the end; `e` may stop inside a character (`repl/src/app.rs:357`, `vim/motions.rs:201`) |
| `PopRemovesLast`, `AppendsToMain` | `ReplSession` | :pop removes one line of several; the first stack.dump of the file is taken for main's (`repl/src/app.rs:849`, `822`) |
| `SavedIsStore` | `ReplLine` | Entries of several lines come back as several entries (`repl/src/app.rs:325`) |
| `ShutdownIsGraceful` | `LanguageServer` | The null answer to shutdown counts as none, exit is never sent and the process is killed (`repl/src/lsp_client.rs:308`) |
| `NoWordsInComment`, `WordIsText` | `LspText` | A `#` between quotes ends a comment; the word may start inside a character (`lsp/src/completion.rs:104`, `lsp/src/main.rs:641`) |

Smaller observations:

- A key panics in two situations that `EditorSafe` allows for (`PanicsKnown`): in Visual mode
  the selection ends one past a cursor that is itself past the last character
  (`vim-line/src/vim.rs:725`), and in Insert mode the host slices its line at a cursor that was
  kept when the line was cleared (`repl/src/app.rs:1397`).
- `unregister` clears the spawn time after the slot is free (`registry.rs:124`): the next
  owner's time may be wiped, and such a strand is skipped by the watchdog.
- `net.tcp.close` of a socket in the middle of a read answers false although the id is
  valid, and goes on to close the listener of the same number if there is one.

## 6. What the models assume

- **Sequential consistency.** Atomic accesses interleave as if all were SeqCst. The code
  uses Relaxed and Acquire/Release; on `spawn_time` in particular weaker behaviours are
  possible and not covered. Counters that only read-modify-write one location lose nothing.
- **May's channels** are unbounded FIFO queues with atomic send and receive; a holder of a
  channel holds both ends, so they are never disconnected.
- **No panics.** A panic inside `extern "C"` aborts the process, so poisoned mutexes do
  not occur.
- **Counters do not wrap.** `ACTIVE_STRANDS` is unsigned; that it never goes below zero is
  part of `TypeOK`. 2^64 strands are out of reach.
- **Type-correct programs.** The branches for a value of the wrong type need a program
  that the type checker rejects.

## 7. Not modelled, and why

- *Cooperative yield counters* (`scheduler/yield_ops.rs`): they influence when a strand is
  descheduled, and the models let that happen anywhere.
- `scheduler_init` (a `Once` around May's configuration), `scheduler_shutdown` (empty).
- *Files, terminal, processes*: thin wrappers over the operating system without state.
- *Strings, bytes, floats, regular expressions, encodings, compression, cryptography, time*:
  functions of their arguments; unit tests say more about them than a model would. The list,
  map, variant and integer words are modelled because they share cells or overflow.
- *Memory layout*: alignment, the arena's strings, the capacity of a stack and its growth.
  `DataStack` bounds depth and length instead.
- *Tokenizer, parser, syntax tree*: text to trees, with nothing that outlives a call.
- *Validation of type names and wording of errors*; pattern rules of the linter; quotations
  inside the stack lints: two of the three analyzers push an unknown for one, the single-word
  analyzer visits the body with a state of its own.
- *In the code generator*: floats, FFI wrappers, debug information, string and symbol globals,
  name mangling, inlining attributes and the C `main`, whose shape `Scheduler` assumes.
- *In the tools*: rendering, highlighting, the IR pane, hovers, hints and quick fixes.

## 8. Plan

Done: the runtime's concurrent parts (scheduler, weaves, channels, registries, sockets,
resolver, HTTP pool, signals, memory statistics, diagnostics), with a proof of every safety
property their runs check; values and stacks with their refinement; the compiler from
includes to emitted blocks; the lints; the tools, with a proof of every safety property
their run checks. Left:

The theorem worth proving next is `HeapSound` of `DataStack`: exact counts and no use after
free. It needs the drops and the sums over the heap rewritten from RECURSIVE operators to
recursive functions over the cells.

Models worth extending: termination of the walks over includes and calls (their frames are
a bounded stack, so it needs only fairness and a run); the quotation bodies
of the single-word lint; weaker memory orders for `spawn_time` in `StrandRegistry`.
