# A verification of AtomicityViolation in TLA+

The repository traces Rust (and C) programs to find atomicity violations. An LLVM
pass puts calls of probes beside the loads, stores and lock operations of a program.
The program is linked with a small runtime that writes one line per probe to a file
`log`, and a script groups the lines by address and prints the addresses that two
threads use. The result is read by a person. So the question of this project is: what
does the log, and the report made of it, say about the execution that was traced?

## 1. Inventory

| Part | State | Operations | Interacts through |
|---|---|---|---|
| **Runtime** `lib/inttrace.c` | stream `fp`, mutex `fp_lock`, buffer of the stream, file `log` | `_init_`, `_probe_`, `_probe_lock_`, `_final_` | called by every thread of the traced program; `_final_` by `exit` |
| **Pass** `HelloWorld/HelloWorld.cpp` | the module, `initial`, iterators | `run` per function, `initialization` per module | changes the program so that it calls the runtime |
| **Pass, second version** `HelloWorld/function.cpp` (not built) | same | same, with helpers `storeLog`, `loadLog`, `lockLog`, ... | same |
| **Build scripts** `run.sh`, `cargo_run.sh` | the modules of the build directory | one run of `opt` per module, link | run the pass |
| **Instrumented program** | memory, locks, threads | loads, stores, lock operations, probes beside them | writes the log through the runtime |
| **Report** `atom.py` | `dic`: lines by address | read, group, print | reads the log |
| **Sample programs** `inputs/grin_24c0017`, `tokio_59c0044`, `crossbeam_10c0012`, `grin_24i0013` | a shared map, a one-value channel, a bag, a list of peers | see below | what the tracer is meant for |

The rest of the repository has no behaviour to model: small sample programs, C inputs
of an LLVM tutorial, tutorial headers without an implementation, a Rust stub of the
runtime that does not compile, and sample logs.

What is hard here, and the properties that make a part correct:

* *Runtime.* Threads probe concurrently, may go on after `main` has returned, and
  `fp` is tested by nobody: it is NULL before `_init_` (or if `fopen` fails, or if no
  call of `_init_` was inserted), and dangles after `_final_`. The stream has a buffer,
  and a process that dies loses it. Right is: whole lines, in an order in which the
  probes can have happened, and a closed log that has lost nothing.
* *Pass.* It inserts into the list it iterates over; it changes another function
  (`main`) from the function it is visiting; `opt` can die in one module while the
  script goes on with the next. Right is: one probe for every operation, on the right
  side, none elsewhere, and `_init_` before any of them in the module of `main`, whatever
  happens to other modules.
* *Instrumented program.* A probe and its instruction are two steps. Right is a
  statement of what the order of the log does imply, and a proof that it does.
* *Report.* It must group rightly whatever the log looks like, and say nothing wrong
  on a log that was cut.
* *All of it together.* Threads and variables have no names of their own in the log:
  ids and addresses are used again. Right is that the report does not miss two threads
  that lived at the same time, and accuses no variable that only one thread used, unless
  its address was used again.
* *Sample programs.* Known races, each with a part that is right all the same.

`PROJECT.json` lists the hazards at their lines.

## 2. Modules

```
  ProbePass       the pass and the build loop         MCProbePass      ProbePassProofs
  TracedProgram   the instrumented program, logged    MCTracedProgram  TracedProgramProofs
     |  "recording a line is one step" is what
  EventLog        promises and
     ^  refinement
  IntTrace        implements                          MCIntTrace       IntTraceProofs
     |
     |  a log that may have been cut
  AtomReport      the script                          MCAtomReport     AtomReportProofs
     ^  extends
  TraceRun        a program, EventLog and the script  MCTraceRun       TraceRunProofs

  HashRace, Oneshot, ConcBag, Peers: sample programs  MCConcBag        OneshotProofs
                                                                       ConcBagProofs
                                                                       PeersProofs
```

**IntTrace** has one action per statement of the runtime that touches shared state
(`InitLock`, `InitFopen`, ..., `ProbeLock`, `ProbePrint`, `ProbeUnlock`, `FinalLock`,
`FinalFclose`, ...). `_probe_` and `_probe_lock_` have the same body, and one set of
actions. `fprintf` prints a line field by field, the buffer is flushed whenever it is
full: so a line may be in the file in part. Around the runtime are the threads of an
arbitrary program: they start, probe, return; `main` joins some of them and returns,
which runs `_final_` only if `_init_` registered it. `Faults` is what may go
wrong: no call of `_init_`, `fopen` failing, `main` leaving without its joins, death
at any step. The variable `faults` says whether it may in this execution, so that one run
has processes in which everything may fail and such in which nothing does. Using a stream that is not open is undefined: it does nothing, or kills
the process. The stream's own lock in the C library is not relied on; the guarantees
come from `fp_lock`.

**EventLog** is the abstract specification: a log that grows by one event at a time,
is sealed by closing it, or loses a suffix. `IntTrace!ImplementsEventLog` maps the
fields printed so far to the lines that are complete.

**TracedProgram** has the steps of an instrumented thread: it reaches an operation
(`Start...`), records its line (`Probe`), and performs it (`Load`, `Store`, `Lock`,
`Unlock`), in the order that the pass makes (`ProbeFirst`: a load is recorded after,
everything else before). `Hooks` lets operations go without a probe, as the pass passes
over code of std, calls where it looks for invokes, and what follows an atomic operation.
A thread holds one lock at a time; memory is sequentially consistent (an access
without a lock that races is taken to happen at one of the places it can have).

**ProbePass** iterates over modules, functions, blocks and instructions as `run` and
the build loop do; `Weave` is what the builder does to the block under the iterator.
An instruction is its opcode, its callee and whether it has a debug location. There are
three variants. `committed` is the pass that is built, whose `run` returns in its first
line. `HelloWorld` is the code behind the two early returns, and `function` is
`function.cpp`. The programs are what a compiler makes (`Compiled`): blocks end in a
terminator, nothing calls the runtime yet, there is a body of `main` once at most, and none in a
module that only declares it (`declares`). `opt` dies of a module in three ways, after which
the build goes on with the next (`Dies`): of an indirect call with a debug location, whose
function is NULL (`VisitIndirect`); of a call that has the name of a lock operation and not its
operands (`VisitMisfit`: undefined behaviour, so that the pass may also take another operand for
the lock and go on); and of a `main` without a body, in which there is no first block to put the
call of `_init_` in (`NoEntryBlock`). The filters are modelled with what they make of module names:
`HelloWorld.cpp` cuts at the last `-`, as cargo names modules, and selects nothing in a
module that `rustc` named; `function.cpp` cuts at `.ll`, and it is the other way round.

**AtomReport** reads, groups and prints line by line. The log is any sequence of lines
of which the last may be cut anywhere, with or without a comma in its path.

**TraceRun** composes an execution with its report. Threads come and go, each with an id
that no *living* thread has, and variables with an address that no *allocated* one has; an
access is a probe and an effect, in the order of TracedProgram; the log is EventLog's, whose
actions are conjoined to those of the program; when the process has ended, by itself or
not, its log is the file that the actions of AtomReport read. The properties compare the
report with the threads and variables behind the names (`met`, `performed`, `recorded`).

**HashRace**, **Oneshot** and **ConcBag** are sample programs, an action per
statement that touches shared state. `Oneshot` uses the channel as its interface
allows, open or closed before the start as in `main`. `Option::take` is two steps.
`ConcBag` has several inserting threads, a collector that collects again and again, and
an allocator that uses freed addresses again.

**Peers** (`grin_24i0013`) has any number of threads that call `add_peer`, `broadcast` and
`close_peers`, and one listener per peer. The lock of the list is held over a whole loop,
so that a loop is several steps; the lock of a peer is held for one statement, which is one
step. A panic ends the thread, and poisons the lock of the list, which is held for writing.
It does not poison the lock of the peer, which is held for reading then. The senders that
a drained peer drops change nothing, as the listener tells "closed" from "empty" in neither
channel. `main` of the sample is one of the programs this covers.

## 3. Runs

| Run | Checks | Bounds, and why they are enough |
|---|---|---|
| `IntTrace` | `WholeLines`, `RealTimeOrder`, `SealedComplete`, `ImplementsEventLog` with detached threads and all faults, and without them; `NoStaleStream`, `CleanExitComplete`: if nothing fails and all threads are joined, no probe meets a stream that is not open, and the log has a line for every probe; `TypeOK` | main and two workers, two probes each, a buffer of 7 fields: it fills in the middle of a line, and each thread can be before, in and after a line while another is at any statement |
| `IntTraceLive` | `ProbesReturn`, `ExitCompletes` under fairness | one probe per thread, no symmetry |
| `TracedProgram` | `ReadsFromLogged`, `LoadStoreOrder`, `ProtectedOrder`, `SectionsReadOffLog`, `TypeOK` | two threads, one address, three operations besides unlocking: the properties relate two accesses (and the sections around them); theorems cover the rest |
| `ProbePass` | `BlocksWoven`, `InitOnceAndFirst`, `OpenedIffSelected`, `Terminates`, `TypeOK` | every block of up to two instructions and a terminator, since a visit looks at one instruction and its successor; every program of one module, and programs of two, with functions of each kind |
| `AtomReport` | `ReportsShared`, `FailsOnlyOnCut`, `FailureCutsReport` | three lines, two threads, two addresses: a group of two and another line before, between or after them |
| `AtomReportTwo` | violated: `MoreThanTwoThreads`, the comment in `atom.py` | three threads, three lines |
| `HashRace` | violated: `OnlyOneValue`, what the program announces | none, the program is finite |
| `Oneshot` | `OneOwner`, `CellNotShared`, `BothEnd`, `TypeOK` | none |
| `OneshotClosed` | violated: `SenderHasValue`, the `unwrap` in `send` | none |
| `ConcBag` | `ReachableLive`, `Accounted`, `InsertReturns`, `TypeOK` | two threads that insert two items each, two collections, three addresses for four items, so that an address is used again while a thread remembers it |
| `Peers` | `SameOrder`, `ListedListens`, `NobodyForgotten`, `PanicsOnlyInGap`, `PanicIsFinal`, `ClosedEnds`, `TypeOK` | three callers, two peers, two values, one call of `close_peers`, channels for one value instead of ten: a broadcast, a close and an `add_peer` can be under way together, two broadcasts can compete, and a channel is full after one value |
| `TraceRun` | `ConcurrentReported`, `KeptReported`, `GroupHasTwoThreads` | three threads, three ids, two variables, two addresses, three lines: the second worker can have the id of the first while main has another, the second variable the address of the first, and the log can be cut before, in and after any line |

What the passing runs show, in short. The runtime is right about everything except
what it cannot help: probes that come before `_init_` or after `_final_` have no line,
and a process that dies loses the end of the log. In the log a load before a store is
the order of execution, and so is the order of accesses in sections that exclude each
other; of the other pairs of accesses without a lock the log may show the reverse. An
`unlock` line marks the end of a section; a `lock` line marks nothing, since it is
written before the lock is taken. The pass would put its probes rightly, if it were not
for the early return, the three ways in which `opt` dies, and the `break` after an atomic
operation, which `BlocksWoven` takes as the code has it: what follows in the block has no
probes. Whether the log is opened is decided in the module of `main` alone (`OpenedIffSelected`):
if nothing is selected there, the probes of all other modules find no stream. The report is right on a whole log, and a report that ends in an
IndexError is right as far as it goes. That ids are used again costs nothing: two threads
that lived at the same time have different ids, and the report of a whole log has both. That
addresses are used again costs one thing: a group may mix two variables that no two threads
share, and then one of them has been freed. Nothing else makes a false alarm, not even a log
that was cut: a program that frees nothing gets none (`GroupHasTwoThreads`). In `grin_24i0013`
everything is right until a panic, which needs `close_peers` or `broadcast` to meet the very
peer that is between the two sections of `add_peer`; after it nobody can be closed any more.

The three runs that end in a violation show disagreements with what the repository says:

1. `atom.py` reports addresses of two threads; its comment says more than two.
2. `grin_24c0017`: two values survive where the program announces one. (The
   announcement admits that this is the defect that the sample is for.)
3. `tokio_59c0044`: in a channel that was closed before, the receiver takes the value
   that the sender is about to take back, and the sender's `unwrap` panics.

In `IntTrace` and `TracedProgram` threads are symmetric, in `TraceRun` also ids, addresses
and variables; no liveness is checked there, so that symmetry is sound.

### Fairness

`IntTrace!FairSpec` assumes that the system schedules every thread that can run (weak
fairness of the steps inside the runtime, per thread) and nothing of the program's own
steps. `fp_lock` is not a fair lock. A thread makes at most `MaxProbes` calls, so weak
fairness is enough; with unboundedly many probes a thread could starve. `ProbePass` and
`Oneshot` assume that a thread or program that can go on does; `ConcBag` that a thread
inside `insert` or `collect` does. `insert` is lock-free and not wait-free:
`InsertReturns` holds because its competitors insert finitely many items. `Peers` assumes that
a call that has begun and a listener go on when they can; the lock of the list is not a fair
one, but the calls are finitely many. That anybody calls is not assumed.

## 4. Proofs

The theorems hold for every set of threads, addresses and faults and for every bound;
they use only the named assumptions on the constants.

`IntTraceProofs`:
* `TypeInvariant` (`TypeOK`). `TypeOK` is made inductive by `CallCounted`: a thread inside
  a probe has counted the call, so that its event exists.
* `LinesAreWhole` (`WholeLines`). The invariant `LineInv` has three parts. `LockOwner`: a
  thread at a statement between lock and unlock owns `fp_lock`, hence one thread at most.
  `PrintedOpen`: a thread that has printed a part of its line is at `fprintf`.
  `LineState`: what has been printed ends in the middle of a line exactly if that thread
  is printing it, with its event and as many fields as `printed` says. Printing a field
  keeps all this; a death cuts the end off.

On the log as a whole: `LogInv` adds two parts to `TypeOK` and `LineInv`.
`StreamInv`: nothing has been printed while `fp` is NULL, and all of it is flushed, in whole
lines, once it is closed. `Contents`: as long as the process has not crashed, the events in
the log are those whose call has come behind its `fprintf` (`Passed`) and found the stream
open, each once; a call has returned only if it has passed, and what had returned before
another call has stayed so. A step prints a field in the middle of a line (the lines stay),
the last field of one (`PrintLast`: its event is appended), or cuts the lines (`DieKeeps`).
* `LogInRealTime` (`RealTimeOrder`) and `CloseLosesNothing` (`SealedComplete`) follow. They
  need more than themselves, since the order of a line is settled when its last field is
  printed: what had returned before has passed, and so has a line already.
* `CleanStream` (`NoStaleStream`) and `CleanLogComplete` (`CleanExitComplete`): `CleanInv`
  says where `main` is while the stream is open, and that the other threads are not there
  yet or have ended when `main` is in `_init_`, in `_final_` or behind it.
* `IsEventLog` (`ImplementsEventLog`): `fopen` is `Open`, the last field of a line `Record`,
  `fclose` `Seal`, a death with an open stream `Lose`; all other steps are stutters.

`TracedProgramProofs`:
* `ThreadsCorrect`: types, and `ThreadInv`, which ties what a thread is doing to its
  section and lock, and says that two threads in the lock are both readers.
* `ReadsFrom` (`ReadsFromLogged`): every store that memory names has its line, because it
  is logged before it happens; a load copies the name before it is logged.
* `OrderOfAccesses` (`LoadStoreOrder`, `ProtectedOrder`): by an invariant that says of every
  line whether its access has happened, and of a thread between its two steps which.
* `SectionsMarked` (`SectionsReadOffLog`): while a thread is in a section that excludes
  others, all earlier sections that it excludes have ended, and each has its unlock line or
  is one of the unmarked.

`PeersProofs`, for any number of callers, peers, values and calls. The inductive invariant is
`Invariant`, in six parts. `LockInv`: a call inside a loop is the only one that holds the
lock of the list, and there is none once it is poisoned. `AddInv`: a call of `add_peer` has a
peer of its own that no other call has. `Distinct`: no peer is twice in the list. `Watched`:
a peer in the list listens, or is still with its `add_peer`. `ValueInv`:
broadcasts that are under way have values of their own. `LatestInv`: the value of one that
waits for the lock is in no channel, and the value of the one that sends is the last in
every channel it is in; so a channel that takes it now keeps the order it has.
* `TypeInvariant` (`TypeOK`), `BroadcastsOrdered` (`SameOrder`) and `ListedAreListening`
  (`ListedListens`) are parts of it.
* `NothingAfterPanic` (`PanicIsFinal`) and `FirstPanic` (`PanicsOnlyInGap`), two properties
  of steps: from `LockInv`, and from `Watched`.
* `AllKept` (`NobodyForgotten`): inductive together with it.

`ConcBagProofs`, for any number of threads, addresses, items and collections. The chain of
nodes from an address is the least set that is closed under `next`, so that nothing is proved
by induction over lists. The invariant says of the nodes in that chain (`LiveInv`) that they
are live and on no cycle; of a thread inside `insert` (`NewInv`) that it has a live node of its
own that nobody can reach, and that at the compare-and-swap this node points to the head it
has seen; of a collector (`WalkInv`) that what it walks over is off the bag once it has stored
NULL; of the items (`ItemInv`, `PlaceInv`) that each is in one place and which. That the head
may have been freed and allocated again since it was loaded does no harm, since the new node
is linked to whatever node has that address now.
* `TypeInvariant` (`TypeOK`), `NothingFreedIsReached` (`ReachableLive`) and
  `NothingElseIsLost` (`Accounted`) are parts of it.

`ProbePassProofs`, for any programs that a compiler makes. `PassInv` relates the program as it
is to the one it was. `SameFrame`: the same modules, functions and numbers of blocks.
`BlocksInv`: a block has nothing but its own instructions and inserted ones; `_init_` is the
first instruction of `main` if it is anywhere; the last instruction is a terminator (so that a
load has a successor for the builder to stand on). `OpenedInv`: a module is as it was until the
pass selects a function in it, and its `main` calls `_init_` from then on. `PositionInv`: the
pass is in a selected function. Most of the proof is about one lemma: weaving harmless
instructions around the current one keeps all this (`WeaveKeeps`).
* `TypeInvariant` (`TypeOK`) and `OpensOnceAndFirst` (`InitOnceAndFirst`: a module with a probe
  is not as it was, and there is one `main`).
* `InsertionWorks` (`BlocksWoven`), for blocks of any length. `BlocksWoven` is not inductive: it
  says where the probes are, and nothing of where the pass is among them. `WeaveInv` does. Of
  each block there are a number `v` and a function `pl`, the places of the instructions of the
  source (`PlacedAt`), such that each gap between two neighbours is filled as it should be when
  the first `v` have been visited (`Gaps`), and the pass is before the block and `v` is 0, or
  behind it and `v` is where it leaves the block, or inside (`Reached`), behind instruction `v`
  and not yet behind the next one of the source. A visit either is to that next one (`WeaveBlock`:
  everything behind it moves, `Shift`, and two gaps get what belongs there), or to the probe
  behind instruction `v`, around which nothing is woven (`NothingWoven`). That the first call of
  `_init_` moves the first block of `main` does no harm, since no function before the selected
  one was selected, so that this block has not been visited (`FirstSelected`).
* `OpensWhereSelected` (`OpenedIffSelected`). `SelectedInv` says that only modules change in which
  a function is selected, and that those that are done, and `opt` has not died of, call `_init_`. It
  rests on `FirstSelected` and on `initial` being of one module: if it is not set when a module
  ends, nothing in it was selected, and if it is, this module has been initialized. A death in the
  middle of a module resets it too.

`AtomReportProofs`, for logs of any length. `ReadInv`: every line read is in the group of its
address, and a group has no other lines. `ReportInv`: of the groups looked at, those that are
shared are printed with all their threads, and nothing else is printed. `GroupsInv`: a group has
exactly the lines that are filed under its address, in the order of the log. `PrintedInv`: each
printed group is that of its address, once, and lacks rows exactly if the script failed on it.
* `FailsOnCut` (`FailsOnlyOnCut`): a file whose last line is complete has only complete lines,
  each with a fourth and a fifth field.
* `ReportIsShared` (`ReportsShared`) and `FailureCuts` (`FailureCutsReport`): the lines filed
  under a real address are its whole lines and the last line, if that was cut in its operation
  or before it. The n-th line of a group is a choice among the places in the log (`Nth`); there is
  one for each n because the ranks of the places are an injection into as many numbers.

`OneshotProofs`: the program is finite, and TLC sees all of it; the proof says why. `DroppedInv`:
a channel that was open at first is only closed by a receiver that has not polled and never will.
`SentInv`: the bit `VALUE_SENT` is set by the last step of the sender that is not about taking its
value back. `PollInv`: the receiver is at the cell only if that bit is set. `ValueInv`: the value
is in the cell until its owner takes it; after a `send` that has succeeded only the receiver can.
* `TypeInvariant` (`TypeOK`), `OneOwnerAlways` (`OneOwner`), `CellNeverShared` (`CellNotShared`).

`TraceRunProofs` adds `ProgramInv` and `ScriptInv` to these. A thread has one id, other than
those of the threads it has met, and a variable has one address; every performed access has its
line, but for a load whose probe is still to come; lines that were kept are in the file, and
each line of the file is that of an event.
* `NoFalseGroup` (`GroupHasTwoThreads`): two ids in a group are two threads; and as two allocated
  variables have two addresses, and a variable keeps its address, two variables of one group have
  not both been allocated all the time, so one of them has been freed.
* `NoKeptMissed` (`KeptReported`) and `NoneMissed` (`ConcurrentReported`): threads that have
  met have two ids, so the group of the address they share is one that is printed.

Only model-checked: liveness (`ProbesReturn`, `ExitCompletes`, `Terminates`, `BothEnd`,
`InsertReturns`, `ClosedEnds`), since the prover cannot reason about `ENABLED` and so not about
fairness; and the three properties that are violated. Every other property of a run has a theorem.

## 5. Not modelled

The small samples, C inputs, headers, the Rust stub and the logs, for the reasons in
`PROJECT.json`; compiling and linking; wording, addresses and line numbers in the log;
weak memory (TracedProgram is sequentially consistent). A cut address or id is some other
text: that what is left of it might be another valid address is not modelled. Locks and
operations without a probe are in TracedProgram and not in TraceRun, where every access has
its probe.

## 6. Plan

Done: all modules of section 2, the theorems of section 4. What would come next:

1. What can be proved of termination without fairness: that every step of the pass brings it
   nearer to its end, by a measure that an insertion does not increase.
2. TraceRun with the hooks of TracedProgram: which threads a report can miss because an
   access has no probe.
