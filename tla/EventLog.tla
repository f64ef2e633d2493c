------------------------------ MODULE EventLog ------------------------------
(***************************************************************************)
(* What the tracing runtime lib/inttrace.c promises to the programs that   *)
(* are linked against it: ONE log of probe events.  A probe records its    *)
(* event atomically, at the end of the log; closing the log seals it; a    *)
(* process that dies before that keeps some first part of the log and      *)
(* loses the rest.  IntTrace implements this module: ImplementsEventLog    *)
(* there has the mapping.                                                  *)
(***************************************************************************)
EXTENDS Naturals, Sequences

CONSTANT Events

VARIABLES log, phase

vars == <<log, phase>>

Phases == {"unopened", "open", "sealed", "lost"}

Recorded == {log[i] : i \in 1 .. Len(log)}

Init == log = <<>> /\ phase = "unopened"

\* _init_: the log file is created, empty.
Open ==
  /\ phase = "unopened"
  /\ phase' = "open"
  /\ log' = log

\* _probe_ and _probe_lock_: an event is recorded once, after all earlier ones.
Record(e) ==
  /\ phase = "open"
  /\ e \notin Recorded
  /\ log' = Append(log, e)
  /\ phase' = phase

\* _final_: from here on the log never changes.
Seal ==
  /\ phase = "open"
  /\ phase' = "sealed"
  /\ log' = log

\* The process dies with the log open: a suffix of the log is lost.
Lose ==
  /\ phase = "open"
  /\ phase' = "lost"
  /\ \E n \in 0 .. Len(log) : log' = SubSeq(log, 1, n)

Next ==
  \/ Open
  \/ \E e \in Events : Record(e)
  \/ Seal
  \/ Lose

Spec == Init /\ [][Next]_vars
=============================================================================
