------------------------------ MODULE TraceRun ------------------------------
(***************************************************************************)
(* The whole way from an execution to its report: an instrumented program  *)
(* runs and is logged, the process ends, and atom.py reads the log.        *)
(*                                                                         *)
(* The log names threads by pthread_self() and variables by their address. *)
(* The system gives the id of a thread that has ended to a new one, and    *)
(* the address of a variable that has been freed to another, so the lines  *)
(* of two threads may look like those of one, and two variables like one.  *)
(* This module tells threads and variables from their names.               *)
(*                                                                         *)
(* The log is the one EventLog promises (and IntTrace implements): its     *)
(* actions are conjoined to the steps of the program.  An access is two    *)
(* steps, its probe and its effect, in the order of TracedProgram.  The    *)
(* script is AtomReport, with the file that the process leaves behind.     *)
(***************************************************************************)
EXTENDS AtomReport

CONSTANTS
  Threads,  \* the threads of the program, told apart
  Main,     \* the one that runs main
  Vars,     \* its variables, told apart
  None      \* no id, no address, no access

ASSUME MainAssumption == Main \in Threads
ASSUME NoneAssumption == None \notin Tids \cup Addrs \cup Ops \X Vars

VARIABLES
  log, phase,  \* the log, see EventLog
  recorded,    \* every event that was ever put into the log (history)
  tid,         \* tid[t]: the id of thread t while it lives
  over,        \* the threads that have ended
  addr,        \* addr[v]: the address of variable v while it lives
  freed,       \* the variables that have been freed
  at,          \* at[t]: the access that t has made one step of
  performed,   \* which thread has accessed which variable       (history)
  met          \* which threads have lived at the same time      (history)

program == <<tid, over, addr, freed, at, performed, met>>
script  == <<file, read, dic, order, next, report, status>>
runVars == <<log, phase, recorded, program, script>>

-----------------------------------------------------------------------------
Events == [nth : 1 .. MaxLines, thread : Threads, var : Vars,
           tid : Tids, addr : Addrs, op : Ops]

Log == INSTANCE EventLog

Living == {t \in Threads : tid[t] # None}
Allocated == {v \in Vars : addr[v] # None}

\* Bound: lines of the log, those of the loads under way counted.
Room == Len(log) + Cardinality({t \in Threads : at[t] # None /\ at[t][1] = "load"}) < MaxLines

-----------------------------------------------------------------------------
(* Threads and variables *)

\* A new thread gets an id that no living thread has.
Create(t) ==
  /\ t \notin Living \cup over
  /\ \E i \in Tids \ {tid[u] : u \in Living} : tid' = [tid EXCEPT ![t] = i]
  /\ met' = met \cup {{t, u} : u \in Living}
  /\ UNCHANGED <<over, addr, freed, at, performed, log, phase, recorded, script>>

End(t) ==
  /\ t \in Living \ {Main} /\ at[t] = None
  /\ tid' = [tid EXCEPT ![t] = None]
  /\ over' = over \cup {t}
  /\ UNCHANGED <<addr, freed, at, performed, met, log, phase, recorded, script>>

Allocate(v) ==
  /\ v \notin Allocated \cup freed
  /\ \E a \in Addrs \ {addr[w] : w \in Allocated} : addr' = [addr EXCEPT ![v] = a]
  /\ UNCHANGED <<tid, over, freed, at, performed, met, log, phase, recorded, script>>

\* A program in order does not free what a thread is accessing.
Free(v) ==
  /\ v \in Allocated /\ \A t \in Threads : at[t] # None => at[t][2] # v
  /\ addr' = [addr EXCEPT ![v] = None]
  /\ freed' = freed \cup {v}
  /\ UNCHANGED <<tid, over, at, performed, met, log, phase, recorded, script>>

-----------------------------------------------------------------------------
(* Accesses *)

\* _probe_ with the names that thread and variable have now.
Probe(t, v, op) ==
  LET e == [nth |-> Len(log) + 1, thread |-> t, var |-> v,
            tid |-> tid[t], addr |-> addr[v], op |-> op]
  IN  /\ Log!Record(e)
      /\ recorded' = Append(recorded, e)
      /\ UNCHANGED performed

Effect(t, v) ==
  /\ performed' = performed \cup {<<t, v>>}
  /\ UNCHANGED <<log, phase, recorded>>

\* The first of two steps: the probe of a store, or the effect of a load.
BeginAccess(t, v, op) ==
  /\ phase = "open" /\ Room
  /\ t \in Living /\ v \in Allocated /\ at[t] = None
  /\ IF op = "load" THEN Effect(t, v) ELSE Probe(t, v, op)
  /\ at' = [at EXCEPT ![t] = <<op, v>>]
  /\ UNCHANGED <<tid, over, addr, freed, met, script>>

EndAccess(t) ==
  /\ at[t] # None
  /\ LET op == at[t][1]
         v  == at[t][2]
     IN  IF op = "load" THEN Probe(t, v, op) ELSE Effect(t, v)
  /\ at' = [at EXCEPT ![t] = None]
  /\ UNCHANGED <<tid, over, addr, freed, met, script>>

-----------------------------------------------------------------------------
(* The log is opened, and the process ends *)

\* The format of _probe_.
Line(e) ==
  [tid |-> e.tid, addr |-> e.addr, op |-> e.op, comma |-> 0, fields |-> 5, whole |-> TRUE]

Text(events) == [i \in 1 .. Len(events) |-> Line(events[i])]

\* What may be left of the line of event e: a part of some field is the last one,
\* or a whole one with others missing.
Cut(e) ==
  {[Line(e) EXCEPT !.fields = n, !.whole = FALSE] : n \in 1 .. 5}
    \cup {[Line(e) EXCEPT !.fields = n] : n \in 1 .. 4}

Open == Log!Open /\ UNCHANGED <<recorded, program, script>>

\* _final_ closes the log.
Exit ==
  /\ Log!Seal
  /\ file' = Text(log)
  /\ UNCHANGED <<recorded, program, read, dic, order, next, report, status>>

\* The process dies: the file ends with a whole line, or in the middle of one.
Die ==
  /\ Log!Lose
  /\ \/ file' = Text(log')
     \/ /\ Len(log') < Len(log)
        /\ \E l \in Cut(log[Len(log') + 1]) : file' = Append(Text(log'), l)
  /\ UNCHANGED <<recorded, program, read, dic, order, next, report, status>>

-----------------------------------------------------------------------------
RunInit ==
  /\ log = <<>> /\ phase = "unopened" /\ recorded = <<>>
  /\ \E i \in Tids : tid = [t \in Threads |-> IF t = Main THEN i ELSE None]
  /\ over = {}
  /\ addr = [v \in Vars |-> None]
  /\ freed = {}
  /\ at = [t \in Threads |-> None]
  /\ performed = {}
  /\ met = {}
  /\ file = <<>> /\ Start

Trace ==
  \/ Open \/ Exit \/ Die
  \/ /\ phase = "open"
     /\ \/ \E t \in Threads : Create(t) \/ End(t) \/ EndAccess(t)
        \/ \E v \in Vars : Allocate(v) \/ Free(v)
        \/ \E t \in Threads, v \in Vars, op \in Ops : BeginAccess(t, v, op)

\* atom.py is started by hand when the process has ended.
Script ==
  /\ phase \in {"sealed", "lost"}
  /\ Next
  /\ UNCHANGED <<log, phase, recorded, program>>

RunNext == Trace \/ Script

RunSpec == RunInit /\ [][RunNext]_runVars

-----------------------------------------------------------------------------
\* The ids in the rows of the groups of an address.
Reported(a) == UNION {ThreadsOf(report[i].rows) : i \in {j \in 1 .. Len(report) : report[j].addr = a}}

(***************************************************************************)
(* Ids that are used again cost nothing: when two threads that lived at    *)
(* the same time have accessed the same variable, the report of a process  *)
(* that ended by itself has both of them at its address.  Only accesses    *)
(* that were under way when the log was closed may be missing.             *)
(***************************************************************************)
ConcurrentReported ==
  status = "done" /\ phase = "sealed" /\ (\A t \in Threads : at[t] = None) =>
    \A x, y \in performed :
      x[2] = y[2] /\ {x[1], y[1]} \in met =>
        \E e, f \in Log!Recorded :
          /\ <<e.thread, e.var>> = x /\ <<f.thread, f.var>> = y
          /\ e.addr = f.addr /\ {e.tid, f.tid} \subseteq Reported(e.addr)

(***************************************************************************)
(* What the log has kept is enough: also in the report of a log that was   *)
(* cut, if the script got to its end, two threads that lived at the same   *)
(* time and have lines for the same variable are both there.               *)
(***************************************************************************)
KeptReported ==
  status = "done" =>
    \A e, f \in Log!Recorded :
      e.var = f.var /\ {e.thread, f.thread} \in met =>
        {e.tid, f.tid} \subseteq Reported(e.addr)

(***************************************************************************)
(* Behind every group of an address there are two threads that used that   *)
(* address, even if the log was cut or the script failed; and they used    *)
(* the same variable, or one of their two variables has been freed.  So an *)
(* alarm is false only where an address was used again: a program that     *)
(* frees nothing that it shares gets none.                                 *)
(***************************************************************************)
GroupHasTwoThreads ==
  \A i \in 1 .. Len(report) : report[i].addr \in Addrs =>
    \E j, k \in 1 .. Len(recorded) :
      /\ recorded[j].addr = report[i].addr /\ recorded[k].addr = report[i].addr
      /\ recorded[j].thread # recorded[k].thread
      /\ recorded[j].var = recorded[k].var \/ {recorded[j].var, recorded[k].var} \cap freed # {}
=============================================================================
