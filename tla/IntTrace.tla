------------------------------ MODULE IntTrace ------------------------------
(***************************************************************************)
(* The tracing runtime lib/inttrace.c inside the process it traces.        *)
(*                                                                         *)
(* The threads of an instrumented program call _init_ (once, at the entry  *)
(* of main), _probe_ and _probe_lock_ (any thread, any time), and the exit *)
(* of the process calls _final_.  The four functions share the stream fp   *)
(* and its mutex fp_lock.  Every statement of theirs that touches shared   *)
(* state is a step here; fprintf prints a line field by field, and the     *)
(* stream keeps what it prints in a buffer until the buffer is full or the *)
(* stream is closed.  (The C library has a lock of its own in each stream. *)
(* The model does not rely on it, nor on fprintf being one operation: what *)
(* holds here holds because of fp_lock.)                                   *)
(*                                                                         *)
(* _probe_ and _probe_lock_ have the same body, so one set of actions      *)
(* stands for both.  A line is identified by the event it reports: the     *)
(* n-th probe call of thread t is the event <<t, n>>.                      *)
(***************************************************************************)
EXTENDS Naturals, Sequences

CONSTANTS
  Threads,    \* the threads of the process
  Main,       \* the thread that runs main
  NoOwner,    \* value of lock when fp_lock is free
  Joined,     \* the threads main joins before it returns
  MaxProbes,  \* bound: probe calls of one thread
  BufSize,    \* capacity of the stream's buffer, in fields
  Faults      \* what may go wrong in a process, see AllFaults

(***************************************************************************)
(* "noinit"  main was not given a call of _init_                           *)
(* "fopen"   fopen fails and returns NULL                                  *)
(* "panic"   main leaves without joining, e.g. because it panics           *)
(* "crash"   the traced program may die by itself at any of its own steps  *)
(***************************************************************************)
AllFaults == {"noinit", "fopen", "panic", "crash"}

ASSUME ThreadsAssumption == Main \in Threads /\ NoOwner \notin Threads
ASSUME JoinedAssumption == Joined \subseteq Threads \ {Main}
ASSUME BoundsAssumption == MaxProbes \in Nat /\ BufSize \in Nat \ {0}
ASSUME FaultsAssumption == Faults \subseteq AllFaults

VARIABLES
  faults,    \* what may go wrong in this process; it never changes
  proc,      \* "up", "exited" or "crashed"
  pc,        \* pc[t]: the statement thread t is at
  lock,      \* fp_lock: its owner or NoOwner
  fp,        \* "NULL", "open", or "closed" (fclosed, but not reset to NULL)
  handlers,  \* TRUE once atexit has registered _final_
  out,       \* every field printed to the stream, in order
  flushed,   \* the first flushed fields of out are in the file log
  printed,   \* printed[t]: fields of its current line t has printed
  count,     \* count[t]: probe calls thread t has made
  dropped,   \* events whose fprintf found no open stream
  returned,  \* events whose probe call has returned         (history)
  before     \* before[e]: events returned when e was called (history)

vars == <<faults, proc, pc, lock, fp, handlers, out, flushed, printed, count, dropped,
          returned, before>>

stream  == <<fp, handlers, out, flushed, printed>>
history == <<faults, count, dropped, returned, before>>

-----------------------------------------------------------------------------
Events == Threads \X (1 .. MaxProbes)

\* The event of the probe call thread t has made last.
Event(t) == <<t, count[t]>>

\* "%p,%d,%s,%p,%s\n": thread, line, file, address, operation.
FieldsPerLine == 5
Fields == [ev : Events, field : 1 .. FieldsPerLine]

InitPCs  == {"init_lock", "init_fopen", "init_unlock", "init_atexit"}
ProbePCs == {"probe_lock", "probe_fprintf", "probe_unlock"}
FinalPCs == {"final_lock", "final_fclose", "final_unlock"}
PCs == {"unborn", "app", "done", "exit"} \cup InitPCs \cup ProbePCs \cup FinalPCs

\* The statements between pthread_mutex_lock and pthread_mutex_unlock.
Critical == {"init_fopen", "init_unlock", "probe_fprintf", "probe_unlock",
             "final_fclose", "final_unlock"}

\* Thread t steps from one statement to another, in a living process.
Goto(t, from, to) ==
  /\ proc = "up"
  /\ pc[t] = from
  /\ pc' = [pc EXCEPT ![t] = to]

Acquire(t) == lock = NoOwner /\ lock' = t
Release    == lock' = NoOwner

\* The process dies: what the stream has not yet written to the file is lost.
Die ==
  /\ proc' = "crashed"
  /\ out' = SubSeq(out, 1, flushed)
  /\ UNCHANGED <<pc, lock, fp, handlers, flushed, printed>>
  /\ UNCHANGED history

-----------------------------------------------------------------------------
(* _init_ *)

InitLock ==
  /\ Goto(Main, "init_lock", "init_fopen")
  /\ Acquire(Main)
  /\ UNCHANGED <<proc, stream, history>>

\* Mutant: the stream is opened into a local variable.
InitFopenLocal ==
  /\ Goto(Main, "init_fopen", "init_unlock")
  /\ UNCHANGED <<proc, lock, stream, history>>

\* fp = fopen("log", "w"); the result is not tested.
InitFopen ==
  /\ Goto(Main, "init_fopen", "init_unlock")
  /\ fp' \in {"open"} \cup (IF "fopen" \in faults THEN {"NULL"} ELSE {})
  /\ UNCHANGED <<proc, lock, handlers, out, flushed, printed, history>>

InitUnlock ==
  /\ Goto(Main, "init_unlock", "init_atexit")
  /\ Release
  /\ UNCHANGED <<proc, stream, history>>

\* atexit(_final_)
InitAtexit ==
  /\ Goto(Main, "init_atexit", "app")
  /\ handlers' = TRUE
  /\ UNCHANGED <<proc, lock, fp, out, flushed, printed, history>>

-----------------------------------------------------------------------------
(* _probe_ and _probe_lock_ *)

ProbeCall(t) ==
  /\ Goto(t, "app", "probe_lock")
  /\ count[t] < MaxProbes
  /\ count' = [count EXCEPT ![t] = @ + 1]
  /\ before' = [before EXCEPT ![<<t, count[t] + 1>>] = returned]
  /\ UNCHANGED <<faults, proc, lock, stream, dropped, returned>>

\* Mutant: pthread_mutex_trylock, the line is given up when fp_lock is taken.
ProbeTryLock(t) ==
  /\ IF lock = NoOwner
       THEN /\ Goto(t, "probe_lock", "probe_fprintf")
            /\ Acquire(t)
            /\ UNCHANGED returned
       ELSE /\ Goto(t, "probe_lock", "app")
            /\ returned' = returned \cup {Event(t)}
            /\ UNCHANGED lock
  /\ UNCHANGED <<faults, proc, stream, count, dropped, before>>

\* Mutant: no lock around fprintf.
ProbeLockMissing(t) ==
  /\ Goto(t, "probe_lock", "probe_fprintf")
  /\ UNCHANGED <<proc, lock, stream, history>>

ProbeLock(t) ==
  /\ Goto(t, "probe_lock", "probe_fprintf")
  /\ Acquire(t)
  /\ UNCHANGED <<proc, stream, history>>

\* Mutant: the buffer overflows before it is flushed.
EmitOverflow(f) ==
  /\ out' = Append(out, f)
  /\ flushed' = IF Len(out) + 1 - flushed > BufSize THEN Len(out) + 1 ELSE flushed

\* The stream takes one more field, and is flushed when its buffer is full.
Emit(f) ==
  /\ out' = Append(out, f)
  /\ flushed' = IF Len(out) + 1 - flushed >= BufSize THEN Len(out) + 1 ELSE flushed

\* fprintf prints one field of the line of thread t.
ProbePrint(t) ==
  /\ fp = "open"
  /\ Emit([ev |-> Event(t), field |-> printed[t] + 1])
  /\ IF printed[t] + 1 < FieldsPerLine
       THEN /\ Goto(t, "probe_fprintf", "probe_fprintf")
            /\ printed' = [printed EXCEPT ![t] = @ + 1]
       ELSE /\ Goto(t, "probe_fprintf", "probe_unlock")
            /\ printed' = [printed EXCEPT ![t] = 0]
  /\ UNCHANGED <<proc, lock, fp, handlers, history>>

(***************************************************************************)
(* fprintf on NULL or on a closed stream is undefined: the line goes       *)
(* nowhere, or the process dies.                                           *)
(***************************************************************************)
ProbePrintNowhere(t) ==
  /\ fp # "open"
  /\ Goto(t, "probe_fprintf", "probe_unlock")
  /\ dropped' = dropped \cup {Event(t)}
  /\ UNCHANGED <<faults, proc, lock, stream, count, returned, before>>

ProbePrintDies(t) ==
  /\ proc = "up" /\ pc[t] = "probe_fprintf" /\ fp # "open"
  /\ Die

\* Mutant: a probe that found no stream tries again.
ProbeUnlockRetry(t) ==
  /\ Goto(t, "probe_unlock", IF fp = "open" THEN "app" ELSE "probe_lock")
  /\ Release
  /\ returned' = IF fp = "open" THEN returned \cup {Event(t)} ELSE returned
  /\ UNCHANGED <<faults, proc, stream, count, dropped, before>>

ProbeUnlock(t) ==
  /\ Goto(t, "probe_unlock", "app")
  /\ Release
  /\ returned' = returned \cup {Event(t)}
  /\ UNCHANGED <<faults, proc, stream, count, dropped, before>>

-----------------------------------------------------------------------------
(* _final_, called by exit *)

\* Mutant: _final_ does not wait for fp_lock.
FinalLockMissing ==
  /\ Goto(Main, "final_lock", "final_fclose")
  /\ UNCHANGED <<proc, lock, stream, history>>

FinalLock ==
  /\ Goto(Main, "final_lock", "final_fclose")
  /\ Acquire(Main)
  /\ UNCHANGED <<proc, stream, history>>

\* Mutant: the descriptor is closed under the stream, its buffer is lost.
FinalCloseUnflushed ==
  /\ fp = "open"
  /\ Goto(Main, "final_fclose", "final_unlock")
  /\ fp' = "closed"
  /\ out' = SubSeq(out, 1, flushed)
  /\ UNCHANGED <<proc, lock, handlers, flushed, printed, history>>

\* fclose(fp) writes the rest of the buffer; fp keeps pointing to the stream.
FinalFclose ==
  /\ fp = "open"
  /\ Goto(Main, "final_fclose", "final_unlock")
  /\ flushed' = Len(out)
  /\ fp' = "closed"
  /\ UNCHANGED <<proc, lock, handlers, out, printed, history>>

\* fclose(NULL) is undefined: nothing happens, or the process dies.
FinalFcloseNull ==
  /\ fp # "open"
  /\ Goto(Main, "final_fclose", "final_unlock")
  /\ UNCHANGED <<proc, lock, stream, history>>

FinalFcloseDies ==
  /\ proc = "up" /\ pc[Main] = "final_fclose" /\ fp # "open"
  /\ Die

FinalUnlock ==
  /\ Goto(Main, "final_unlock", "exit")
  /\ Release
  /\ UNCHANGED <<proc, stream, history>>

\* The last handler has run: the process ends, and all its threads with it.
ProcessExit ==
  /\ proc = "up" /\ pc[Main] = "exit"
  /\ proc' = "exited"
  /\ UNCHANGED <<pc, lock, stream, history>>

-----------------------------------------------------------------------------
(* The program around the probes: threads start, return, join, and die.    *)

Spawn(t, u) ==
  /\ proc = "up" /\ pc[t] = "app" /\ pc[u] = "unborn"
  /\ pc' = [pc EXCEPT ![u] = "app"]
  /\ UNCHANGED <<proc, lock, stream, history>>

ThreadReturn(t) ==
  /\ t # Main
  /\ Goto(t, "app", "done")
  /\ UNCHANGED <<proc, lock, stream, history>>

JoinedAll == \A t \in Joined : pc[t] \in {"unborn", "done"}

\* main returns, and exit runs _final_ if _init_ registered it.
MainReturn ==
  /\ JoinedAll \/ "panic" \in faults
  /\ Goto(Main, "app", IF handlers THEN "final_lock" ELSE "exit")
  /\ UNCHANGED <<proc, lock, stream, history>>

Crash(t) ==
  /\ "crash" \in faults
  /\ proc = "up" /\ pc[t] = "app"
  /\ Die

\* The process has ended; nothing happens any more.
Ended == proc # "up" /\ UNCHANGED vars

-----------------------------------------------------------------------------
\* Nothing goes wrong, or any of the faults may happen.
Init ==
  /\ faults \in {{}, Faults}
  /\ proc = "up"
  /\ \E start \in {"init_lock"} \cup (IF "noinit" \in faults THEN {"app"} ELSE {}) :
       pc = [t \in Threads |-> IF t = Main THEN start ELSE "unborn"]
  /\ lock = NoOwner
  /\ fp = "NULL"
  /\ handlers = FALSE
  /\ out = <<>>
  /\ flushed = 0
  /\ printed = [t \in Threads |-> 0]
  /\ count = [t \in Threads |-> 0]
  /\ dropped = {}
  /\ returned = {}
  /\ before = [e \in Events |-> {}]

\* Steps inside the runtime: once a thread is in it, only these take it out.
InitStep == InitLock \/ InitFopen \/ InitUnlock \/ InitAtexit

ProbeStep(t) ==
  \/ ProbeLock(t) \/ ProbePrint(t) \/ ProbeUnlock(t)
  \/ ProbePrintNowhere(t) \/ ProbePrintDies(t)

FinalStep ==
  \/ FinalLock \/ FinalFclose \/ FinalUnlock
  \/ FinalFcloseNull \/ FinalFcloseDies
  \/ ProcessExit

\* Steps of the traced program, which need never happen.
AppStep ==
  \/ \E t \in Threads : ProbeCall(t) \/ ThreadReturn(t) \/ Crash(t)
  \/ \E t, u \in Threads : Spawn(t, u)
  \/ MainReturn

Next ==
  \/ InitStep
  \/ \E t \in Threads : ProbeStep(t)
  \/ FinalStep
  \/ AppStep
  \/ Ended

Spec == Init /\ [][Next]_vars

(***************************************************************************)
(* The system schedules every thread that can run.  fp_lock is not a fair  *)
(* lock, but a thread makes finitely many probe calls (MaxProbes), so weak *)
(* fairness is enough for each of them to get it.                          *)
(***************************************************************************)
Fairness ==
  /\ WF_vars(InitStep)
  /\ \A t \in Threads : WF_vars(ProbeStep(t))
  /\ WF_vars(FinalStep)

FairSpec == Spec /\ Fairness

-----------------------------------------------------------------------------
TypeOK ==
  /\ faults \subseteq AllFaults
  /\ proc \in {"up", "exited", "crashed"}
  /\ pc \in [Threads -> PCs]
  /\ lock \in Threads \cup {NoOwner}
  /\ fp \in {"NULL", "open", "closed"}
  /\ handlers \in BOOLEAN
  /\ out \in Seq(Fields)
  /\ flushed \in 0 .. Len(out)
  /\ Len(out) - flushed < BufSize
  /\ printed \in [Threads -> 0 .. FieldsPerLine - 1]
  /\ count \in [Threads -> 0 .. MaxProbes]
  /\ dropped \subseteq Events
  /\ returned \subseteq Events
  /\ before \in [Events -> SUBSET Events]

(***************************************************************************)
(* The events of the complete lines of the log, in order.                  *)
(***************************************************************************)
Lines == [i \in 1 .. (Len(out) \div FieldsPerLine) |-> out[FieldsPerLine * i].ev]
Logged == {Lines[i] : i \in 1 .. Len(Lines)}

(***************************************************************************)
(* No two lines are ever mixed: what has been printed is a sequence of     *)
(* lines, each with its fields in order and all by the same probe call, of *)
(* which only the last may still be incomplete.  This is what fp_lock is   *)
(* for; fprintf itself prints a line piece by piece.                       *)
(***************************************************************************)
WholeLines ==
  \A i \in 1 .. Len(out) :
    /\ out[i].field = ((i - 1) % FieldsPerLine) + 1
    /\ out[i].field > 1 => out[i].ev = out[i - 1].ev

(***************************************************************************)
(* The order of the log is an order in which the probes really happened:   *)
(* when one probe call has returned before another is made, by whatever    *)
(* threads, its line comes first, at any time and in any log that a dying  *)
(* process leaves behind.  Only probes that found no open stream have none.*)
(***************************************************************************)
RealTimeOrder ==
  \A i \in 1 .. Len(Lines) : \A e \in before[Lines[i]] \ dropped :
    \E j \in 1 .. i - 1 : Lines[j] = e

(***************************************************************************)
(* Closing the stream loses nothing and cuts nothing: once _final_ has     *)
(* closed it the file holds complete lines only, one and only one for      *)
(* every probe call that has returned, except those that came too late.    *)
(***************************************************************************)
SealedComplete ==
  fp = "closed" =>
    /\ flushed = Len(out)
    /\ Len(out) % FieldsPerLine = 0
    /\ returned \ dropped \subseteq Logged
    /\ \A i, j \in 1 .. Len(Lines) : Lines[i] = Lines[j] => i = j

\* Nothing goes wrong, and main joins all other threads before it returns.
Clean == faults = {} /\ Joined = Threads \ {Main}

(***************************************************************************)
(* A clean process never uses fp before _init_ has opened it nor after     *)
(* _final_ has closed it.  (The stream is not reset to NULL, and no probe  *)
(* tests it.)                                                              *)
(***************************************************************************)
NoStaleStream ==
  Clean => \A t \in Threads : pc[t] = "probe_fprintf" => fp = "open"

(***************************************************************************)
(* A clean process leaves a log with one line for every probe call that    *)
(* was ever made, and its file has them all.                               *)
(***************************************************************************)
CleanExitComplete ==
  Clean /\ proc = "exited" =>
    /\ flushed = Len(out)
    /\ Logged = {e \in Events : e[2] <= count[e[1]]}

(***************************************************************************)
(* The runtime implements EventLog.                                        *)
(***************************************************************************)
Phase == CASE fp = "NULL"                  -> "unopened"
           [] fp = "closed"                -> "sealed"
           [] fp = "open" /\ proc = "up"   -> "open"
           [] OTHER                        -> "lost"

Abstract == INSTANCE EventLog WITH log <- Lines, phase <- Phase
ImplementsEventLog == Abstract!Spec

(***************************************************************************)
(* A probe call does not block its thread for ever: it returns, unless the *)
(* process ends first.                                                     *)
(***************************************************************************)
ProbesReturn ==
  \A t \in Threads : pc[t] \in ProbePCs ~> pc[t] = "app" \/ proc # "up"

(***************************************************************************)
(* Once main has returned the process ends, however many threads are still *)
(* probing: _final_ gets fp_lock.                                          *)
(***************************************************************************)
ExitCompletes == pc[Main] = "final_lock" ~> proc # "up"
=============================================================================
