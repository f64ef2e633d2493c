----------------------------- MODULE AtomReport -----------------------------
(***************************************************************************)
(* atom.py: it reads the log, groups its lines by address, and prints the  *)
(* groups in which two threads occur.                                      *)
(*                                                                         *)
(* The script trusts its input.  The log it gets may be cut short in the   *)
(* middle of the last line (the traced process died with the stream open,  *)
(* see IntTrace), and a path with a comma in it moves all later fields of  *)
(* its line by one.  In both cases line.split(",") still gives a list, but *)
(* log[3] and a[4] are not what the script takes them for, or do not exist.*)
(***************************************************************************)
EXTENDS Naturals, Sequences, FiniteSets

CONSTANTS
  Tids,      \* thread ids, as they are printed
  Addrs,     \* addresses, as they are printed
  Ops,       \* operations
  MaxLines,  \* bound: lines of the log
  Commas     \* numbers of commas a path may contain

ASSUME MaxLinesAssumption == MaxLines \in Nat
ASSUME CommasAssumption == Commas \subseteq {0, 1} /\ 0 \in Commas
ASSUME TextAssumption == {"number", "dir", "file", "part"} \cap (Tids \cup Addrs \cup Ops) = {}

VARIABLES
  file,    \* the file ../log: a sequence of lines, see Lines
  read,    \* lines read so far
  dic,     \* dic[addr]: the lines grouped under addr, split into fields
  order,   \* the keys of dic, in the order they were inserted
  next,    \* the position in order of the group looked at next
  report,  \* what has been printed: groups with their rows
  status   \* "read", "report", "done", or "IndexError"

vars == <<file, read, dic, order, next, report, status>>

-----------------------------------------------------------------------------
(***************************************************************************)
(* A line as _probe_ prints it: tid, line number, path, address, operation.*)
(* comma is the number of commas in the path.  fields is how many fields   *)
(* of the line are in the file, and whole whether the last one is complete.*)
(***************************************************************************)
FieldCount(comma) == 5 + comma

Lines == {l \in [tid : Tids, addr : Addrs, op : Ops, comma : Commas,
                 fields : 1 .. 6, whole : BOOLEAN] : l.fields <= FieldCount(l.comma)}

Complete(l) == l.fields = FieldCount(l.comma) /\ l.whole

\* Only the last line of a log may be cut.
Logs == {<<>>} \cup
        UNION {{Append(s, l) : l \in Lines} :
               s \in UNION {[1 .. n -> {m \in Lines : Complete(m)}] : n \in 0 .. MaxLines - 1}}

\* line.split(",").  A field that was cut off reads as some other text.
Split(l) ==
  LET path == IF l.comma = 0 THEN <<"file">> ELSE <<"dir", "file">>
      all  == <<l.tid, "number">> \o path \o <<l.addr, l.op>>
  IN  [i \in 1 .. l.fields |-> IF i = l.fields /\ ~l.whole THEN "part" ELSE all[i]]

-----------------------------------------------------------------------------
\* Mutant: a group is started anew when its address occurs again.
GroupForgets(addr, log) ==
  /\ dic' = [k \in DOMAIN dic \cup {addr} |-> IF k = addr THEN <<log>> ELSE dic[k]]
  /\ order' = IF addr \in DOMAIN dic THEN order ELSE Append(order, addr)

\* Mutant: the newest line of a group comes first.
GroupPrepends(addr, log) ==
  /\ dic' = [k \in DOMAIN dic \cup {addr} |->
               IF k # addr THEN dic[k]
               ELSE IF k \in DOMAIN dic THEN <<log>> \o dic[k] ELSE <<log>>]
  /\ order' = IF addr \in DOMAIN dic THEN order ELSE Append(order, addr)

\* dic[addr].append(log), or dic[addr] = [log] for a new address.
Group(addr, log) ==
  /\ dic' = [k \in DOMAIN dic \cup {addr} |->
               IF k # addr THEN dic[k]
               ELSE IF k \in DOMAIN dic THEN Append(dic[k], log) ELSE <<log>>]
  /\ order' = IF addr \in DOMAIN dic THEN order ELSE Append(order, addr)

\* The position of the address: log[3] in Python.
AddrIndex(log) == 4

ReadLine ==
  /\ status = "read" /\ read < Len(file)
  /\ LET log == Split(file[read + 1]) IN
       /\ AddrIndex(log) \in DOMAIN log
       /\ Group(log[AddrIndex(log)], log)
  /\ read' = read + 1
  /\ UNCHANGED <<file, next, report, status>>

\* log[3] does not exist.
ReadLineFails ==
  /\ status = "read" /\ read < Len(file)
  /\ LET log == Split(file[read + 1]) IN AddrIndex(log) \notin DOMAIN log
  /\ status' = "IndexError"
  /\ UNCHANGED <<file, read, dic, order, next, report>>

EndOfFile ==
  /\ status = "read" /\ read = Len(file)
  /\ status' = "report"
  /\ UNCHANGED <<file, read, dic, order, next, report>>

\* Mutant: neighbours are compared, and the last comparison counts.
SharedLastOnly(arr) == Len(arr) > 1 /\ arr[Len(arr)][1] # arr[Len(arr) - 1][1]

\* Mutant: the operations are compared for the threads.
SharedByOp(arr) ==
  \E i, j \in 1 .. Len(arr) : arr[i][Len(arr[i])] # arr[j][Len(arr[j])]

\* pr: some line of the group is by another thread than its first line.
Shared(arr) == \E i \in 1 .. Len(arr) : arr[i][1] # arr[1][1]

\* Mutant: the position of the operation is off by one.
OpIndexPlusOne == 6

\* The position of the operation: a[4] in Python.
OpIndex == 5

\* A row of a group: the thread a[0] and the operation.
Row(log) == [tid |-> log[1], op |-> log[OpIndex]]

\* Rows are printed one by one until a line without a[4] ends the script.
PrintableRows(arr) ==
  CHOOSE n \in 0 .. Len(arr) :
    /\ \A i \in 1 .. n : OpIndex \in DOMAIN arr[i]
    /\ n < Len(arr) => OpIndex \notin DOMAIN arr[n + 1]

SkipGroup ==
  /\ status = "report" /\ next <= Len(order)
  /\ ~Shared(dic[order[next]])
  /\ next' = next + 1
  /\ UNCHANGED <<file, read, dic, order, report, status>>

PrintGroup ==
  /\ status = "report" /\ next <= Len(order)
  /\ LET arr == dic[order[next]]
         n   == PrintableRows(arr)
     IN  /\ Shared(arr)
         /\ report' = Append(report, [addr |-> order[next],
                                      rows |-> [i \in 1 .. n |-> Row(arr[i])]])
         /\ status' = IF n = Len(arr) THEN status ELSE "IndexError"
  /\ next' = next + 1
  /\ UNCHANGED <<file, read, dic, order>>

EndOfReport ==
  /\ status = "report" /\ next > Len(order)
  /\ status' = "done"
  /\ UNCHANGED <<file, read, dic, order, next, report>>

\* The script has ended.
Ended == status \in {"done", "IndexError"} /\ UNCHANGED vars

-----------------------------------------------------------------------------
\* The script has not looked at the file yet.
Start ==
  /\ read = 0
  /\ dic = <<>>
  /\ order = <<>>
  /\ next = 1
  /\ report = <<>>
  /\ status = "read"

Init == file \in Logs /\ Start

Next ==
  \/ ReadLine \/ ReadLineFails \/ EndOfFile
  \/ SkipGroup \/ PrintGroup \/ EndOfReport
  \/ Ended

Spec == Init /\ [][Next]_vars

-----------------------------------------------------------------------------
\* The n-th smallest member of P, and the members of s at the places P, in order.
Nth(P, n) == CHOOSE p \in P : Cardinality({q \in P : q <= p}) = n
Pick(s, P) == [n \in 1 .. Cardinality(P) |-> s[Nth(P, n)]]

\* The lines of address a that say what they mean to say, in the order of the log.
WholeLine(l, a) == l.comma = 0 /\ Complete(l) /\ l.addr = a
LinesOf(a) == Pick(file, {i \in 1 .. Len(file) : WholeLine(file[i], a)})

Last == file[Len(file)]

\* A last line that was cut inside the operation still makes a row.
CutRowsOf(a) ==
  IF file # <<>> /\ Last.comma = 0 /\ Last.addr = a /\ Last.fields = 5 /\ ~Last.whole
    THEN <<[tid |-> Last.tid, op |-> "part"]>> ELSE <<>>

WholeRowsOf(a) ==
  LET lines == LinesOf(a)
  IN  [i \in 1 .. Len(lines) |-> [tid |-> lines[i].tid, op |-> lines[i].op]]

RowsOf(a) == WholeRowsOf(a) \o CutRowsOf(a)

ThreadsOf(rows) == {rows[i].tid : i \in 1 .. Len(rows)}

(***************************************************************************)
(* A report that is complete names exactly the addresses that lines of two *)
(* threads have, each once, with all the lines of the address, whoever     *)
(* wrote them, in the order of the log.  Lines with a comma in their path  *)
(* neither add to such a group nor keep it from being printed.             *)
(***************************************************************************)
ReportsShared ==
  status = "done" =>
    \A a \in Addrs :
      LET groups == Pick(report, {i \in 1 .. Len(report) : report[i].addr = a})
      IN  groups = IF Cardinality(ThreadsOf(RowsOf(a))) >= 2
                     THEN <<[addr |-> a, rows |-> RowsOf(a)]>> ELSE <<>>

(***************************************************************************)
(* The script only fails on a log that was cut: it reads every complete    *)
(* log to the end, whatever its paths look like.                           *)
(***************************************************************************)
FailsOnlyOnCut ==
  status = "IndexError" => ~Complete(Last)

(***************************************************************************)
(* What a failing script has printed is right as far as it goes: every     *)
(* group but the last is the whole group of an address of two threads, and *)
(* the last one lacks nothing but the row of the line that was cut.        *)
(***************************************************************************)
FailureCutsReport ==
  status = "IndexError" =>
    \A i \in 1 .. Len(report) : report[i].addr \in Addrs =>
      LET g == report[i]
      IN  /\ g.rows = WholeRowsOf(g.addr)
          /\ IF i < Len(report)
               THEN Cardinality(ThreadsOf(g.rows)) >= 2
               ELSE /\ Last.addr = g.addr
                    /\ Cardinality(ThreadsOf(g.rows) \cup {Last.tid}) >= 2

(***************************************************************************)
(* "check whether more than two threads access the address": the comment   *)
(* above the loop in atom.py.                                              *)
(***************************************************************************)
MoreThanTwoThreads ==
  \A i \in 1 .. Len(report) : Cardinality(ThreadsOf(report[i].rows)) > 2
=============================================================================
