---------------------------- MODULE TracedProgram ----------------------------
(***************************************************************************)
(* The program the pass has instrumented, while it runs and is logged.     *)
(*                                                                         *)
(* The pass puts the call of a probe next to an instruction, never into    *)
(* it: between the probe and the instruction other threads run.  So the    *)
(* order of the log is not the order of the memory accesses, and the line  *)
(* "lock" is not the moment the lock is taken.  This module states what    *)
(* the log nevertheless tells about the execution.  It is what atom.py,    *)
(* and the person who reads its report, rely on.                           *)
(*                                                                         *)
(* The traced program is arbitrary: a thread may load and store any        *)
(* address at any time, and may take a lock in read or write mode (a Mutex *)
(* is a lock taken in write mode only).  Recording a line is one step, as  *)
(* EventLog promises and IntTrace implements.                              *)
(***************************************************************************)
EXTENDS Naturals, Sequences

CONSTANTS
  Threads,
  Addrs,     \* the addresses the threads share
  Modes,     \* the modes in which the program takes the lock
  Unhooked,  \* operations the pass may leave without a probe, see Hooks
  MaxOps,    \* bound: operations of one thread, unlocking apart
  None       \* no section, no line, no address

LockModes == {"read", "write"}
Accesses  == {"load", "store"}
Ops       == Accesses \cup {"lock", "unlock"}

ASSUME ModesAssumption == Modes \subseteq LockModes
ASSUME UnhookedAssumption == Unhooked \subseteq Ops
ASSUME MaxOpsAssumption == MaxOps \in Nat
ASSUME NoneAssumption == None \notin Addrs \cup LockModes \cup Threads \X Nat

VARIABLES
  ops,      \* ops[t]: how many operations thread t has started
  cur,      \* cur[t]: the operation t is at, or has performed last
  todo,     \* todo[t]: the steps of cur[t] still to be made
  held,     \* held[t]: the mode in which t holds the lock, or None
  section,  \* section[t]: its critical section, named by its lock operation
  mem,      \* mem[a]: the store that wrote a last, None if it has no line
  log,      \* the lines recorded so far
  exec,     \* the accesses that have a probe, in the order they happened (history)
  unmarked  \* the sections that ended without a line (history)

vars == <<ops, cur, todo, held, section, mem, log, exec, unmarked>>

-----------------------------------------------------------------------------
Ids == Threads \X Nat

\* from: the store a load has read from.
Operations == [id : Ids, op : Ops, addr : Addrs \cup {None}, hooked : BOOLEAN,
               section : Ids \cup {None}, mode : LockModes \cup {None},
               from : Ids \cup {None}]

Thread(x) == x.id[1]

Recorded == {log[i] : i \in 1 .. Len(log)}
Performed == {exec[i] : i \in 1 .. Len(exec)}

(***************************************************************************)
(* Does an operation get a probe?  The pass looks at loads, stores and     *)
(* invoke instructions in the functions of the crate that have a debug     *)
(* location.  It passes over the rest: code of std, calls where it only    *)
(* looks for invokes, everything after an atomic operation in a block.     *)
(* Condvar::wait is an unlock and a lock that it passes over.              *)
(***************************************************************************)
Hooks(op) == {TRUE} \cup (IF op \in Unhooked THEN {FALSE} ELSE {})

\* Mutants: a probe on the other side of its instruction.
LoadProbeFirst(op) == TRUE
StoreProbeLast(op) == op \notin {"load", "store"}
UnlockProbeLast(op) == op \notin {"load", "unlock"}

(***************************************************************************)
(* The probe of a load comes after it (SetInsertPoint moves the builder on *)
(* by one instruction), the probe of everything else before it.            *)
(***************************************************************************)
ProbeFirst(op) == op # "load"

-----------------------------------------------------------------------------
\* Thread t reaches its next operation, with or without a probe beside it.
Start(t, op, a, m) ==
  /\ todo[t] = {}
  /\ \E h \in Hooks(op) :
       /\ cur' = [cur EXCEPT ![t] =
                    [id |-> <<t, ops[t] + 1>>, op |-> op, addr |-> a, hooked |-> h,
                     section |-> section[t], mode |-> m, from |-> None]]
       /\ todo' = [todo EXCEPT ![t] = {"effect"} \cup (IF h THEN {"probe"} ELSE {})]
  /\ ops' = [ops EXCEPT ![t] = @ + 1]
  /\ UNCHANGED <<held, section, mem, log, exec, unmarked>>

StartAccess(t) ==
  /\ ops[t] < MaxOps
  /\ \E op \in Accesses, a \in Addrs : Start(t, op, a, held[t])

StartLock(t) ==
  /\ ops[t] < MaxOps
  /\ held[t] = None
  /\ \E m \in Modes : Start(t, "lock", None, m)

StartUnlock(t) ==
  /\ held[t] # None
  /\ Start(t, "unlock", None, held[t])

\* The probe call: one line in the log.
Probe(t) ==
  /\ "probe" \in todo[t]
  /\ ProbeFirst(cur[t].op) \/ "effect" \notin todo[t]
  /\ log' = Append(log, cur[t])
  /\ todo' = [todo EXCEPT ![t] = @ \ {"probe"}]
  /\ UNCHANGED <<ops, cur, held, section, mem, exec, unmarked>>

\* It is the turn of the instruction itself.
Perform(t, op) ==
  /\ cur[t].op = op
  /\ "effect" \in todo[t]
  /\ ~ProbeFirst(op) \/ "probe" \notin todo[t]
  /\ todo' = [todo EXCEPT ![t] = @ \ {"effect"}]

\* An access that has a probe takes its place in the history of accesses.
Note(t) == exec' = IF cur[t].hooked THEN Append(exec, cur[t].id) ELSE exec

Load(t) ==
  /\ Perform(t, "load")
  /\ cur' = [cur EXCEPT ![t].from = mem[cur[t].addr]]
  /\ Note(t)
  /\ UNCHANGED <<ops, held, section, mem, log, unmarked>>

Store(t) ==
  /\ Perform(t, "store")
  /\ mem' = [mem EXCEPT ![cur[t].addr] = IF cur[t].hooked THEN cur[t].id ELSE None]
  /\ Note(t)
  /\ UNCHANGED <<ops, cur, held, section, log, unmarked>>

\* Mutant: the lock is given although another thread holds it in read mode.
WriterIgnoresReaders(t, m) ==
  \A u \in Threads \ {t} : held[u] = None \/ held[u] = "read"

\* The lock can be taken in mode m: readers share it, a writer does not.
Available(t, m) ==
  \A u \in Threads \ {t} : held[u] = None \/ (held[u] = "read" /\ m = "read")

Lock(t) ==
  /\ Perform(t, "lock")
  /\ Available(t, cur[t].mode)
  /\ held' = [held EXCEPT ![t] = cur[t].mode]
  /\ section' = [section EXCEPT ![t] = cur[t].id]
  /\ UNCHANGED <<ops, cur, mem, log, exec, unmarked>>

\* Mutant: the section is looked up after it has been left.
UnlockLookupLate(t) ==
  /\ Perform(t, "unlock")
  /\ held' = [held EXCEPT ![t] = None]
  /\ section' = [section EXCEPT ![t] = None]
  /\ unmarked' = IF cur[t].hooked THEN unmarked ELSE unmarked \cup {section'[t]}
  /\ UNCHANGED <<ops, cur, mem, log, exec>>

Unlock(t) ==
  /\ Perform(t, "unlock")
  /\ held' = [held EXCEPT ![t] = None]
  /\ section' = [section EXCEPT ![t] = None]
  /\ unmarked' = IF cur[t].hooked THEN unmarked ELSE unmarked \cup {section[t]}
  /\ UNCHANGED <<ops, cur, mem, log, exec>>

\* Every thread has done all it may do within the bound.
Finished ==
  /\ \A t \in Threads : todo[t] = {} /\ held[t] = None /\ ops[t] >= MaxOps
  /\ UNCHANGED vars

-----------------------------------------------------------------------------
Idle(t) == [id |-> <<t, 0>>, op |-> "unlock", addr |-> None, hooked |-> FALSE,
            section |-> None, mode |-> None, from |-> None]

Init ==
  /\ ops = [t \in Threads |-> 0]
  /\ cur = [t \in Threads |-> Idle(t)]
  /\ todo = [t \in Threads |-> {}]
  /\ held = [t \in Threads |-> None]
  /\ section = [t \in Threads |-> None]
  /\ mem = [a \in Addrs |-> None]
  /\ log = <<>>
  /\ exec = <<>>
  /\ unmarked = {}

Step(t) ==
  \/ StartAccess(t) \/ StartLock(t) \/ StartUnlock(t)
  \/ Probe(t)
  \/ Load(t) \/ Store(t) \/ Lock(t) \/ Unlock(t)

Next == (\E t \in Threads : Step(t)) \/ Finished

Spec == Init /\ [][Next]_vars

-----------------------------------------------------------------------------
TypeOK ==
  /\ ops \in [Threads -> Nat]
  /\ cur \in [Threads -> Operations]
  /\ \A t \in Threads : cur[t].op \in Accesses => cur[t].addr \in Addrs
  /\ todo \in [Threads -> SUBSET {"probe", "effect"}]
  /\ held \in [Threads -> LockModes \cup {None}]
  /\ section \in [Threads -> Ids \cup {None}]
  /\ mem \in [Addrs -> Ids \cup {None}]
  /\ log \in Seq(Operations)
  /\ exec \in Seq(Ids)
  /\ unmarked \subseteq Ids

(***************************************************************************)
(* Who wrote the value?  If a load has read what a store with a probe      *)
(* wrote, the line of the store is in the log before the line of the load. *)
(* The reason is that a store is logged before and a load after it happens.*)
(***************************************************************************)
ReadsFromLogged ==
  \A i \in 1 .. Len(log) :
    log[i].op = "load" /\ log[i].from # None =>
      \E j \in 1 .. i - 1 : log[j].op = "store" /\ log[j].id = log[i].from

\* In the execution access x came before access y, or y has yet to come.
ExecutedBefore(x, y) ==
  \E k \in 1 .. Len(exec) : exec[k] = x.id /\ \A l \in 1 .. k : exec[l] # y.id

(***************************************************************************)
(* When the log has a load before a store, the load did happen before the  *)
(* store.  (Of the other three combinations the log may have the reverse.) *)
(***************************************************************************)
LoadStoreOrder ==
  \A j \in 1 .. Len(log) : \A i \in 1 .. j - 1 :
    log[i].op = "load" /\ log[j].op = "store" => ExecutedBefore(log[i], log[j])

\* Accesses x and y were made under the lock, in sections that exclude each other.
Exclusive(x, y) ==
  /\ x.op \in Accesses /\ y.op \in Accesses
  /\ Thread(x) # Thread(y)
  /\ x.section # None /\ y.section # None
  /\ "write" \in {x.mode, y.mode}

(***************************************************************************)
(* Accesses in sections that exclude each other happened in the order of   *)
(* their lines, whether or not locking and unlocking themselves were       *)
(* logged: both the probe and its access are inside the section.           *)
(***************************************************************************)
ProtectedOrder ==
  \A j \in 1 .. Len(log) : \A i \in 1 .. j - 1 :
    Exclusive(log[i], log[j]) => ExecutedBefore(log[i], log[j])

(***************************************************************************)
(* The unlock lines mark the end of the sections.  Between two lines of    *)
(* accesses in sections that exclude each other there is the unlock line   *)
(* of the first, unless that section ended without a line.  (Lock lines    *)
(* mark nothing: several threads may log "lock" before one has the lock.)  *)
(***************************************************************************)
SectionsReadOffLog ==
  \A j \in 1 .. Len(log) : \A i \in 1 .. j - 1 :
    Exclusive(log[i], log[j]) /\ log[i].section \notin unmarked =>
      \E k \in i + 1 .. j - 1 :
        log[k].op = "unlock" /\ log[k].section = log[i].section
=============================================================================
