-------------------------- MODULE AtomReportProofs --------------------------
(***************************************************************************)
(* Proofs about the script, for any number of threads, addresses and       *)
(* lines: what the groups and the report have in them at every step, and   *)
(* when the script fails.                                                  *)
(***************************************************************************)
EXTENDS AtomReport, SequenceTheorems, FiniteSetTheorems, TLAPS

-----------------------------------------------------------------------------
(* Sequences of anything *)

Ran(s) == {s[i] : i \in 1 .. Len(s)}

IsSeq(s) == s \in Seq(Ran(s))

LEMMA AppendAny ==
  ASSUME NEW s, IsSeq(s), NEW x
  PROVE  /\ IsSeq(Append(s, x))
         /\ Len(s) \in Nat
         /\ Len(Append(s, x)) = Len(s) + 1
         /\ \A i \in 1 .. Len(s) : Append(s, x)[i] = s[i]
         /\ Append(s, x)[Len(s) + 1] = x
         /\ Ran(Append(s, x)) = Ran(s) \cup {x}
<1> DEFINE S == Ran(s) \cup {x}
           u == Append(s, x)
<1>1. s \in Seq(S)
  BY DEF IsSeq
<1> HIDE DEF S
<1>2. x \in S /\ S = Ran(s) \cup {x}
  BY DEF S
<1>3. /\ u \in Seq(S) /\ Len(s) \in Nat /\ Len(u) = Len(s) + 1
      /\ \A i \in 1 .. Len(s) : u[i] = s[i]
      /\ u[Len(s) + 1] = x
  BY <1>1, <1>2, AppendProperties
<1> HIDE DEF u
<1>4. Ran(u) = Ran(s) \cup {x}
  BY <1>3 DEF Ran
<1> QED
  BY <1>2, <1>3, <1>4 DEF IsSeq, u

LEMMA SeqIsSeq ==
  ASSUME NEW S, NEW s \in Seq(S)
  PROVE  IsSeq(s) /\ Ran(s) \subseteq S
BY DEF IsSeq, Ran

LEMMA SingletonAny ==
  ASSUME NEW x
  PROVE  IsSeq(<<x>>) /\ Ran(<<x>>) = {x}
BY DEF IsSeq, Ran

LEMMA EmptyAny == IsSeq(<<>>) /\ Ran(<<>>) = {} /\ Len(<<>>) = 0
BY DEF IsSeq, Ran

-----------------------------------------------------------------------------
(* The inductive invariant of the groups and the report *)

\* Every line that was read is in the group of its address.
Filed(i) ==
  /\ 4 \in DOMAIN Split(file[i])
  /\ Split(file[i])[4] \in DOMAIN dic
  /\ Split(file[i]) \in Ran(dic[Split(file[i])[4]])

\* A group has nothing but lines of its address.
GroupInv(a) ==
  /\ IsSeq(dic[a])
  /\ \A fields \in Ran(dic[a]) :
       /\ 4 \in DOMAIN fields /\ fields[4] = a
       /\ \E i \in 1 .. read : fields = Split(file[i])

ReadInv ==
  /\ Len(file) \in Nat /\ read \in 0 .. Len(file)
  /\ IsSeq(order) /\ Ran(order) = DOMAIN dic
  /\ \A i \in 1 .. read : Filed(i)
  /\ \A a \in DOMAIN dic : GroupInv(a)
  /\ status \in {"report", "done"} => read = Len(file)

\* Address a has a group with every thread that its lines have.
Printed(a, lines, groups) ==
  \E i \in 1 .. Len(groups) :
    /\ groups[i].addr = a
    /\ \A fields \in Ran(lines) : fields[1] \in ThreadsOf(groups[i].rows)

ReportInv ==
  /\ next \in Nat \ {0} /\ IsSeq(report)
  /\ status = "read" => next = 1 /\ report = <<>>
  /\ status = "done" => next > Len(order)
  /\ status \in {"report", "done"} =>
       \A k \in 1 .. Len(order) : k < next /\ Shared(dic[order[k]]) => Printed(order[k], dic[order[k]], report)
  /\ \A i \in 1 .. Len(report) :
       report[i].addr \in DOMAIN dic /\ Shared(dic[report[i].addr])

-----------------------------------------------------------------------------
(* The steps of the script *)

\* Before the script has looked at the file there is nothing to show.
LEMMA StartKeeps == Start /\ Len(file) \in Nat => ReadInv /\ ReportInv
<1> SUFFICES ASSUME Start, Len(file) \in Nat PROVE ReadInv /\ ReportInv
  OBVIOUS
<1>1. /\ read = 0 /\ dic = <<>> /\ order = <<>> /\ next = 1 /\ report = <<>> /\ status = "read"
  BY DEF Start
<1>2. DOMAIN dic = {}
  BY <1>1
<1>3. ReadInv
  BY <1>1, <1>2, EmptyAny DEF ReadInv
<1>4. ReportInv
  BY <1>1, EmptyAny DEF ReportInv
<1> QED
  BY <1>3, <1>4

LEMMA StartKeepsThen == (Start /\ Len(file) \in Nat => ReadInv /\ ReportInv)'
BY StartKeeps, PTL

LEMMA SameScript ==
  ASSUME ReadInv, ReportInv, UNCHANGED vars
  PROVE  ReadInv' /\ ReportInv'
<1>1. /\ file' = file /\ read' = read /\ dic' = dic /\ order' = order /\ next' = next
      /\ report' = report /\ status' = status
  BY DEF vars
<1>2. /\ Ran(order)' = Ran(order) /\ IsSeq(order)' = IsSeq(order)
      /\ IsSeq(report)' = IsSeq(report)
  BY <1>1 DEF Ran, IsSeq
<1>3. \A i : Filed(i)' = Filed(i)
  BY <1>1 DEF Filed, Ran
<1>4. \A a : GroupInv(a)' = GroupInv(a)
  BY <1>1 DEF GroupInv, IsSeq, Ran
<1>5. ReadInv'
  BY <1>1, <1>2, <1>3, <1>4 DEF ReadInv
<1>6. ReportInv'
  BY <1>1, <1>2 DEF ReportInv
<1> QED
  BY <1>5, <1>6

LEMMA ReadLineKeeps ==
  ASSUME ReadInv, ReportInv, ReadLine
  PROVE  ReadInv' /\ ReportInv'
<1> DEFINE fields == Split(file[read + 1])
           a == fields[4]
<1>1. /\ status = "read" /\ read < Len(file) /\ 4 \in DOMAIN fields
      /\ Group(a, fields) /\ read' = read + 1
      /\ file' = file /\ next' = next /\ report' = report /\ status' = status
  BY DEF ReadLine, AddrIndex
<1> HIDE DEF a, fields
<1>2. /\ Len(file) \in Nat /\ read \in 0 .. Len(file)
      /\ IsSeq(order) /\ Ran(order) = DOMAIN dic
  BY DEF ReadInv
<1>3. read' \in 0 .. Len(file') /\ Len(file') \in Nat /\ 1 .. read' = (1 .. read) \cup {read + 1}
  BY <1>1, <1>2
<1>4. /\ DOMAIN dic' = DOMAIN dic \cup {a}
      /\ \A k \in DOMAIN dic : k # a => dic'[k] = dic[k]
      /\ a \in DOMAIN dic => dic'[a] = Append(dic[a], fields)
      /\ a \notin DOMAIN dic => dic'[a] = <<fields>>
      /\ order' = IF a \in DOMAIN dic THEN order ELSE Append(order, a)
  BY <1>1 DEF Group
<1>5. IsSeq(order') /\ Ran(order') = DOMAIN dic'
  BY <1>2, <1>4, AppendAny
<1>6. /\ IsSeq(dic'[a])
      /\ Ran(dic'[a]) = (IF a \in DOMAIN dic THEN Ran(dic[a]) ELSE {}) \cup {fields}
  <2>1. CASE a \in DOMAIN dic
    <3>1. IsSeq(dic[a])
      BY <2>1 DEF ReadInv, GroupInv
    <3>2. /\ IsSeq(Append(dic[a], fields))
          /\ Ran(Append(dic[a], fields)) = Ran(dic[a]) \cup {fields}
      BY <3>1, AppendAny
    <3> QED
      BY <1>4, <2>1, <3>2
  <2>2. CASE a \notin DOMAIN dic
    BY <1>4, <2>2, SingletonAny
  <2> QED
    BY <2>1, <2>2
<1>7. \A i \in 1 .. read' : Filed(i)'
  <2> SUFFICES ASSUME NEW i \in 1 .. read' PROVE Filed(i)'
    OBVIOUS
  <2> DEFINE g == Split(file[i])
  <2>1. g = Split(file'[i])
    BY <1>1
  <2> HIDE DEF g
  <2>2. CASE i = read + 1
    <3>1. g = fields
      BY <2>2 DEF g, fields
    <3>2. 4 \in DOMAIN g /\ g[4] \in DOMAIN dic' /\ g \in Ran(dic'[g[4]])
      BY <1>1, <1>4, <1>6, <3>1 DEF a
    <3> QED
      BY <2>1, <3>2 DEF Filed, Ran
  <2>3. CASE i \in 1 .. read
    <3>1. 4 \in DOMAIN g /\ g[4] \in DOMAIN dic /\ g \in Ran(dic[g[4]])
      BY <2>3 DEF ReadInv, Filed, g
    <3>2. 4 \in DOMAIN g /\ g[4] \in DOMAIN dic' /\ g \in Ran(dic'[g[4]])
      <4>1. CASE g[4] = a
        BY <1>4, <1>6, <3>1, <4>1
      <4>2. CASE g[4] # a
        BY <1>4, <3>1, <4>2
      <4> QED
        BY <4>1, <4>2
    <3> QED
      BY <2>1, <3>2 DEF Filed, Ran
  <2> QED
    BY <1>3, <2>2, <2>3
<1>8. \A k \in DOMAIN dic' : GroupInv(k)'
  <2> SUFFICES ASSUME NEW k \in DOMAIN dic' PROVE GroupInv(k)'
    OBVIOUS
  <2>1. CASE k = a
    <3>1. \A g \in Ran(dic'[a]) :
            /\ 4 \in DOMAIN g /\ g[4] = a
            /\ \E i \in 1 .. read' : g = Split(file'[i])
      <4> SUFFICES ASSUME NEW g \in Ran(dic'[a])
                   PROVE  /\ 4 \in DOMAIN g /\ g[4] = a
                          /\ \E i \in 1 .. read' : g = Split(file'[i])
        OBVIOUS
      <4>1. CASE g = fields
        <5>1. 4 \in DOMAIN g /\ g[4] = a
          BY <1>1, <4>1 DEF a
        <5>2. g = Split(file'[read + 1]) /\ read + 1 \in 1 .. read'
          BY <1>1, <1>3, <4>1 DEF fields
        <5> QED
          BY <5>1, <5>2
      <4>2. CASE a \in DOMAIN dic /\ g \in Ran(dic[a])
        BY <1>1, <1>3, <4>2 DEF ReadInv, GroupInv
      <4> QED
        BY <1>6, <4>1, <4>2
    <3> QED
      BY <1>6, <2>1, <3>1 DEF GroupInv, IsSeq, Ran
  <2>2. CASE k # a
    <3>1. k \in DOMAIN dic /\ dic'[k] = dic[k]
      BY <1>4, <2>2
    <3>2. GroupInv(k)
      BY <3>1 DEF ReadInv
    <3>3. \A g \in Ran(dic'[k]) :
            /\ 4 \in DOMAIN g /\ g[4] = k
            /\ \E i \in 1 .. read' : g = Split(file'[i])
      BY <1>1, <1>3, <3>1, <3>2 DEF GroupInv
    <3>4. IsSeq(dic'[k])
      BY <3>1, <3>2 DEF GroupInv
    <3> QED
      BY <3>3, <3>4 DEF GroupInv, IsSeq, Ran
  <2> QED
    BY <2>1, <2>2
<1>9. ReadInv'
  <2>1. IsSeq(order)' /\ Ran(order)' = DOMAIN dic'
    BY <1>5 DEF IsSeq, Ran
  <2> QED
    BY <1>1, <1>3, <1>7, <1>8, <2>1 DEF ReadInv
<1>10. ReportInv'
  <2>1. next = 1 /\ report = <<>>
    BY <1>1 DEF ReportInv
  <2>2. IsSeq(report)'
    BY <1>1, <2>1, EmptyAny DEF IsSeq, Ran
  <2> QED
    BY <1>1, <2>1, <2>2, EmptyAny DEF ReportInv
<1> QED
  BY <1>9, <1>10

\* A step of the report that adds at most one group to it.
LEMMA ReportStep ==
  ASSUME ReadInv, ReportInv, status = "report",
         UNCHANGED <<file, read, dic, order>>,
         NEW added,
         \/ report' = report
         \/ /\ report' = Append(report, added)
            /\ added.addr \in DOMAIN dic /\ Shared(dic[added.addr])
  PROVE  /\ Len(order) \in Nat /\ ReadInv'
         /\ IsSeq(report)'
         /\ \A i \in 1 .. Len(report') :
              report'[i].addr \in DOMAIN dic' /\ Shared(dic'[report'[i].addr])
         /\ \A a : Printed(a, dic[a], report) => Printed(a, dic[a], report')
<1>1. /\ file' = file /\ read' = read /\ dic' = dic /\ order' = order
  OBVIOUS
<1>2. IsSeq(order) /\ IsSeq(report)
  BY DEF ReadInv, ReportInv
<1>3. Len(order) \in Nat /\ Len(report) \in Nat
  BY <1>2, AppendAny
<1>4. ReadInv'
  <2>1. Ran(order)' = Ran(order) /\ IsSeq(order)'
    BY <1>1, <1>2 DEF Ran, IsSeq
  <2>2. \A i : Filed(i)' = Filed(i)
    BY <1>1 DEF Filed, Ran
  <2>3. \A a : GroupInv(a)' = GroupInv(a)
    BY <1>1 DEF GroupInv, IsSeq, Ran
  <2>4. read = Len(file)
    BY DEF ReadInv
  <2> QED
    BY <1>1, <2>1, <2>2, <2>3, <2>4 DEF ReadInv
<1>5. CASE report' = report
  <2>1. IsSeq(report)'
    BY <1>2, <1>5 DEF IsSeq, Ran
  <2>2. \A a : Printed(a, dic[a], report) => Printed(a, dic[a], report')
    BY <1>5
  <2>3. \A i \in 1 .. Len(report') :
          report'[i].addr \in DOMAIN dic' /\ Shared(dic'[report'[i].addr])
    BY <1>1, <1>5 DEF ReportInv
  <2> QED
    BY <1>3, <1>4, <2>1, <2>2, <2>3
<1>6. CASE /\ report' = Append(report, added)
           /\ added.addr \in DOMAIN dic /\ Shared(dic[added.addr])
  <2>1. /\ IsSeq(report') /\ Len(report') = Len(report) + 1
        /\ \A i \in 1 .. Len(report) : report'[i] = report[i]
        /\ report'[Len(report) + 1] = added
    BY <1>2, <1>6, AppendAny
  <2>2. IsSeq(report)'
    BY <2>1 DEF IsSeq, Ran
  <2>3. \A a : Printed(a, dic[a], report) => Printed(a, dic[a], report')
    <3> SUFFICES ASSUME NEW a, Printed(a, dic[a], report) PROVE Printed(a, dic[a], report')
      OBVIOUS
    <3>1. PICK i \in 1 .. Len(report) :
            /\ report[i].addr = a
            /\ \A fields \in Ran(dic[a]) : fields[1] \in ThreadsOf(report[i].rows)
      BY DEF Printed
    <3>2. i \in 1 .. Len(report') /\ report'[i] = report[i]
      BY <1>3, <2>1
    <3> QED
      BY <3>1, <3>2 DEF Printed
  <2>4. \A i \in 1 .. Len(report') :
          report'[i].addr \in DOMAIN dic' /\ Shared(dic'[report'[i].addr])
    <3> SUFFICES ASSUME NEW i \in 1 .. Len(report')
                 PROVE  report'[i].addr \in DOMAIN dic' /\ Shared(dic'[report'[i].addr])
      OBVIOUS
    <3>1. CASE i \in 1 .. Len(report)
      BY <1>1, <2>1, <3>1 DEF ReportInv
    <3>2. CASE i = Len(report) + 1
      BY <1>1, <1>6, <2>1, <3>2
    <3> QED
      BY <1>3, <2>1, <3>1, <3>2
  <2> QED
    BY <1>3, <1>4, <2>2, <2>3, <2>4
<1> QED
  BY <1>5, <1>6

LEMMA SkipGroupKeeps ==
  ASSUME ReadInv, ReportInv, SkipGroup
  PROVE  ReadInv' /\ ReportInv'
<1>1. /\ status = "report" /\ next <= Len(order) /\ ~Shared(dic[order[next]])
      /\ next' = next + 1 /\ report' = report /\ status' = "report"
      /\ UNCHANGED <<file, read, dic, order>>
  BY DEF SkipGroup
<1>2. /\ Len(order) \in Nat /\ ReadInv'
      /\ IsSeq(report)'
      /\ \A i \in 1 .. Len(report') :
           report'[i].addr \in DOMAIN dic' /\ Shared(dic'[report'[i].addr])
      /\ \A a : Printed(a, dic[a], report) => Printed(a, dic[a], report')
  BY <1>1, ReportStep
<1>3. next \in Nat \ {0} /\ next' \in Nat \ {0} /\ order' = order /\ dic' = dic
  BY <1>1 DEF ReportInv
<1>4. \A k \in 1 .. Len(order') : k < next' /\ Shared(dic'[order'[k]]) => Printed(order'[k], dic'[order'[k]], report')
  <2> SUFFICES ASSUME NEW k \in 1 .. Len(order), k < next', Shared(dic[order[k]])
               PROVE  Printed(order[k], dic[order[k]], report')
    BY <1>3
  <2>1. k # next
    BY <1>1
  <2>2. k < next
    BY <1>1, <1>2, <1>3, <2>1
  <2>3. Printed(order[k], dic[order[k]], report)
    BY <1>1, <2>2 DEF ReportInv
  <2> QED
    BY <1>2, <2>3
<1>5. ReportInv'
  BY <1>1, <1>2, <1>3, <1>4 DEF ReportInv
<1> QED
  BY <1>2, <1>5

LEMMA RowsOfAll ==
  ASSUME NEW arr, IsSeq(arr), NEW rows, rows = [i \in 1 .. Len(arr) |-> Row(arr[i])]
  PROVE  \A fields \in Ran(arr) : fields[1] \in ThreadsOf(rows)
<1>1. Len(arr) \in Nat
  BY AppendAny
<1>2. Len(rows) = Len(arr)
  BY <1>1
<1>3. \A i \in 1 .. Len(arr) : rows[i].tid = arr[i][1]
  BY DEF Row
<1> QED
  BY <1>2, <1>3 DEF ThreadsOf, Ran

LEMMA PrintGroupKeeps ==
  ASSUME ReadInv, ReportInv, PrintGroup
  PROVE  ReadInv' /\ ReportInv'
<1> DEFINE a == order[next]
           arr == dic[a]
           n == PrintableRows(arr)
           rows == [i \in 1 .. n |-> Row(arr[i])]
           group == [addr |-> a, rows |-> rows]
<1>1. /\ status = "report" /\ next <= Len(order) /\ Shared(arr)
      /\ next' = next + 1 /\ report' = Append(report, group)
      /\ status' = IF n = Len(arr) THEN status ELSE "IndexError"
      /\ UNCHANGED <<file, read, dic, order>>
  BY DEF PrintGroup
<1>2. group.addr = a /\ group.rows = rows
  OBVIOUS
<1> HIDE DEF group
<1>3. IsSeq(order) /\ Ran(order) = DOMAIN dic /\ IsSeq(report) /\ next \in Nat \ {0}
  BY DEF ReadInv, ReportInv
<1>4. Len(order) \in Nat /\ Len(report) \in Nat
  BY <1>3, AppendAny
<1>5. a \in DOMAIN dic
  BY <1>1, <1>3, <1>4 DEF Ran
<1>6. /\ ReadInv'
      /\ IsSeq(report)'
      /\ \A i \in 1 .. Len(report') :
           report'[i].addr \in DOMAIN dic' /\ Shared(dic'[report'[i].addr])
      /\ \A b : Printed(b, dic[b], report) => Printed(b, dic[b], report')
  BY <1>1, <1>2, <1>5, ReportStep
<1>7. n = Len(arr) => Printed(a, arr, report')
  <2> SUFFICES ASSUME n = Len(arr) PROVE Printed(a, arr, report')
    OBVIOUS
  <2>1. IsSeq(arr)
    BY <1>5 DEF ReadInv, GroupInv
  <2>2. rows = [i \in 1 .. Len(arr) |-> Row(arr[i])]
    OBVIOUS
  <2> HIDE DEF rows, n, arr
  <2>3. \A fields \in Ran(arr) : fields[1] \in ThreadsOf(rows)
    BY <2>1, <2>2, RowsOfAll
  <2>4. Len(report') = Len(report) + 1 /\ report'[Len(report) + 1] = group
    BY <1>1, <1>3, AppendAny
  <2>5. Len(report) + 1 \in 1 .. Len(report')
    BY <1>4, <2>4
  <2> QED
    BY <1>2, <2>3, <2>4, <2>5 DEF Printed
<1> HIDE DEF rows, n
<1>8. next' \in Nat \ {0} /\ order' = order /\ dic' = dic
  BY <1>1, <1>3
<1>9. status' # "IndexError" => n = Len(arr) /\ status' = "report"
  BY <1>1
<1>10. status' # "IndexError" =>
         \A k \in 1 .. Len(order') :
           k < next' /\ Shared(dic'[order'[k]]) => Printed(order'[k], dic'[order'[k]], report')
  <2> SUFFICES ASSUME n = Len(arr), NEW k \in 1 .. Len(order), k < next', Shared(dic[order[k]])
               PROVE  Printed(order[k], dic[order[k]], report')
    BY <1>8, <1>9
  <2>1. CASE k = next
    BY <1>7, <2>1
  <2>2. CASE k # next
    <3>1. k < next
      BY <1>1, <1>3, <1>4, <2>2
    <3>2. Printed(order[k], dic[order[k]], report)
      BY <1>1, <3>1 DEF ReportInv
    <3> QED
      BY <1>6, <3>2
  <2> QED
    BY <2>1, <2>2
<1>11. ReportInv'
  BY <1>1, <1>6, <1>8, <1>10 DEF ReportInv
<1> QED
  BY <1>6, <1>11

\* The steps that only change the status.
LEMMA StatusKeeps ==
  ASSUME ReadInv, ReportInv, ReadLineFails \/ EndOfFile \/ EndOfReport
  PROVE  ReadInv' /\ ReportInv'
<1>1. UNCHANGED <<file, read, dic, order, next, report>>
  BY DEF ReadLineFails, EndOfFile, EndOfReport
<1>2. /\ file' = file /\ read' = read /\ dic' = dic /\ order' = order /\ next' = next
      /\ report' = report
  BY <1>1
<1>3. \/ status' = "IndexError"
      \/ status = "read" /\ read = Len(file) /\ status' = "report"
      \/ status = "report" /\ next > Len(order) /\ status' = "done"
  BY DEF ReadLineFails, EndOfFile, EndOfReport
<1>4. ReadInv'
  <2>1. Ran(order)' = Ran(order) /\ IsSeq(order)' = IsSeq(order)
    BY <1>2 DEF Ran, IsSeq
  <2>2. \A i : Filed(i)' = Filed(i)
    BY <1>2 DEF Filed, Ran
  <2>3. \A a : GroupInv(a)' = GroupInv(a)
    BY <1>2 DEF GroupInv, IsSeq, Ran
  <2>4. status' \in {"report", "done"} => read = Len(file)
    BY <1>3 DEF ReadInv
  <2> QED
    BY <1>2, <2>1, <2>2, <2>3, <2>4 DEF ReadInv
<1>5. ReportInv'
  <2>1. IsSeq(report)' = IsSeq(report)
    BY <1>2 DEF Ran, IsSeq
  <2>2. status' # "read" /\ (status' = "done" => next > Len(order))
    BY <1>3
  <2>3. ASSUME status' \in {"report", "done"}
        PROVE  \A k \in 1 .. Len(order) :
                 k < next /\ Shared(dic[order[k]]) => Printed(order[k], dic[order[k]], report)
    <3>1. CASE status = "read"
      <4>1. next = 1
        BY <3>1 DEF ReportInv
      <4> QED
        BY <4>1
    <3>2. CASE status = "report"
      BY <3>2 DEF ReportInv
    <3> QED
      BY <1>3, <2>3, <3>1, <3>2
  <2> QED
    BY <1>2, <2>1, <2>2, <2>3 DEF ReportInv
<1> QED
  BY <1>4, <1>5

\* Every step keeps both, whatever file the script got.
LEMMA ReportKeeps ==
  ASSUME ReadInv, ReportInv, [Next]_vars
  PROVE  ReadInv' /\ ReportInv'
<1>1. CASE ReadLine
  BY <1>1, ReadLineKeeps
<1>2. CASE SkipGroup
  BY <1>2, SkipGroupKeeps
<1>3. CASE PrintGroup
  BY <1>3, PrintGroupKeeps
<1>4. CASE ReadLineFails \/ EndOfFile \/ EndOfReport
  BY <1>4, StatusKeeps
<1>5. CASE UNCHANGED vars
  BY <1>5, SameScript
<1> QED
  BY <1>1, <1>2, <1>3, <1>4, <1>5 DEF Next, Ended

-----------------------------------------------------------------------------
(* When the script fails *)

\* Only the last line may be cut.
LastOnly ==
  \A i \in 1 .. Len(file) : file[i] \in Lines /\ (i < Len(file) => Complete(file[i]))

LEMMA LogsCutLast ==
  ASSUME file \in Logs
  PROVE  Len(file) \in Nat /\ LastOnly
<1>1. CASE file = <<>>
  BY <1>1 DEF LastOnly
<1>2. CASE file # <<>>
  <2> DEFINE Whole == {m \in Lines : Complete(m)}
  <2>1. PICK s \in UNION {[1 .. n -> Whole] : n \in 0 .. MaxLines - 1}, l \in Lines :
          file = Append(s, l)
    BY <1>2 DEF Logs
  <2>2. PICK n \in 0 .. MaxLines - 1 : s \in [1 .. n -> Whole]
    BY <2>1
  <2>3. n \in Nat
    BY MaxLinesAssumption
  <2>4. s \in Seq(Whole) /\ Len(s) = n
    BY <2>2, <2>3
  <2>5. \A m \in Whole : m \in Lines /\ Complete(m)
    OBVIOUS
  <2> HIDE DEF Whole
  <2>6. IsSeq(s)
    BY <2>4, SeqIsSeq
  <2>7. /\ Len(file) = n + 1
        /\ \A i \in 1 .. n : file[i] = s[i]
        /\ file[n + 1] = l
    BY <2>1, <2>4, <2>6, AppendAny
  <2>8. \A i \in 1 .. n : s[i] \in Whole
    BY <2>2
  <2>9. LastOnly
    BY <2>3, <2>5, <2>7, <2>8 DEF LastOnly
  <2> QED
    BY <2>3, <2>7, <2>9
<1> QED
  BY <1>1, <1>2

\* A line that is complete has an address and an operation.
LEMMA CompleteHasBoth ==
  ASSUME NEW l \in Lines, Complete(l)
  PROVE  4 \in DOMAIN Split(l) /\ OpIndex \in DOMAIN Split(l)
<1>1. l.comma \in {0, 1} /\ l.fields = 5 + l.comma
  BY CommasAssumption DEF Lines, Complete, FieldCount
<1>2. DOMAIN Split(l) = 1 .. l.fields
  BY DEF Split
<1> QED
  BY <1>1, <1>2 DEF OpIndex

\* A file whose last line is complete has no other.
LEMMA AllComplete ==
  ASSUME ReadInv, LastOnly, Complete(Last)
  PROVE  \A i \in 1 .. Len(file) :
           4 \in DOMAIN Split(file[i]) /\ OpIndex \in DOMAIN Split(file[i])
<1>1. Len(file) \in Nat
  BY DEF ReadInv
<1>2. \A i \in 1 .. Len(file) : file[i] \in Lines /\ Complete(file[i])
  <2> SUFFICES ASSUME NEW i \in 1 .. Len(file) PROVE file[i] \in Lines /\ Complete(file[i])
    OBVIOUS
  <2>1. CASE i < Len(file)
    BY <2>1 DEF LastOnly
  <2>2. CASE i = Len(file)
    BY <2>2 DEF LastOnly, Last
  <2> QED
    BY <1>1, <2>1, <2>2
<1> QED
  BY <1>2, CompleteHasBoth

LEMMA PrintableAll ==
  ASSUME NEW arr, Len(arr) \in Nat, \A i \in 1 .. Len(arr) : OpIndex \in DOMAIN arr[i]
  PROVE  PrintableRows(arr) = Len(arr)
<1> DEFINE P(n) == /\ \A i \in 1 .. n : OpIndex \in DOMAIN arr[i]
                   /\ n < Len(arr) => OpIndex \notin DOMAIN arr[n + 1]
           m == CHOOSE n \in 0 .. Len(arr) : P(n)
<1>1. P(Len(arr)) /\ Len(arr) \in 0 .. Len(arr)
  OBVIOUS
<1>2. m \in 0 .. Len(arr) /\ P(m)
  <2> HIDE DEF P
  <2> QED
    BY <1>1
<1>3. PrintableRows(arr) = m
  BY DEF PrintableRows
<1> HIDE DEF m
<1>4. ~(m < Len(arr))
  BY <1>2
<1> QED
  BY <1>2, <1>3, <1>4

LEMMA StepFailsOnCut ==
  ASSUME ReadInv, ReportInv, LastOnly, FailsOnlyOnCut, [Next]_vars
  PROVE  LastOnly' /\ FailsOnlyOnCut'
<1>1. file' = file
  BY DEF vars, Next, ReadLine, ReadLineFails, EndOfFile, SkipGroup, PrintGroup, EndOfReport,
         Ended
<1>2. LastOnly'
  BY <1>1 DEF LastOnly
<1>3. ASSUME Complete(Last), status # "IndexError" PROVE status' # "IndexError"
  <2>1. \A i \in 1 .. Len(file) :
          4 \in DOMAIN Split(file[i]) /\ OpIndex \in DOMAIN Split(file[i])
    BY <1>3, AllComplete
  <2>2. Len(file) \in Nat /\ read \in 0 .. Len(file)
    BY DEF ReadInv
  <2>3. ~ReadLineFails
    <3> SUFFICES ASSUME read < Len(file), 4 \notin DOMAIN Split(file[read + 1])
                 PROVE  FALSE
      BY DEF ReadLineFails, AddrIndex
    <3>1. read + 1 \in 1 .. Len(file)
      BY <2>2
    <3> QED
      BY <2>1, <3>1
  <2>4. CASE PrintGroup
    <3> DEFINE a == order[next]
               arr == dic[a]
    <3>1. next <= Len(order) /\ status' = IF PrintableRows(arr) = Len(arr) THEN status ELSE "IndexError"
      BY <2>4 DEF PrintGroup
    <3>2. IsSeq(order) /\ Ran(order) = DOMAIN dic /\ next \in Nat \ {0}
      BY DEF ReadInv, ReportInv
    <3>3. Len(order) \in Nat
      BY <3>2, AppendAny
    <3>4. a \in DOMAIN dic
      BY <3>1, <3>2, <3>3 DEF Ran
    <3>5. GroupInv(a)
      BY <3>4 DEF ReadInv
    <3> HIDE DEF a
    <3>6. \A fields \in Ran(arr) : OpIndex \in DOMAIN fields
      BY <2>1, <2>2, <3>5 DEF GroupInv
    <3>7. Len(arr) \in Nat /\ \A i \in 1 .. Len(arr) : OpIndex \in DOMAIN arr[i]
      <4>1. Len(arr) \in Nat
        BY <3>5, AppendAny DEF GroupInv
      <4> QED
        BY <3>6, <4>1 DEF Ran
    <3>8. PrintableRows(arr) = Len(arr)
      BY <3>7, PrintableAll
    <3> QED
      BY <1>3, <3>1, <3>8
  <2>5. CASE ~PrintGroup
    BY <1>3, <2>3, <2>5 DEF vars, Next, ReadLine, EndOfFile, SkipGroup, EndOfReport, Ended
  <2> QED
    BY <2>4, <2>5
<1>4. FailsOnlyOnCut'
  BY <1>1, <1>3 DEF FailsOnlyOnCut, Last
<1> QED
  BY <1>2, <1>4

(***************************************************************************)
(* The script reads every log to the end whose last line is complete,      *)
(* however many lines it has, and whatever its paths look like: log[3] and *)
(* a[4] fail on nothing but a line that was cut.                           *)
(***************************************************************************)
THEOREM FailsOnCut == Spec => []FailsOnlyOnCut
<1>1. Init => ReadInv /\ ReportInv /\ LastOnly /\ FailsOnlyOnCut
  <2> SUFFICES ASSUME Init PROVE ReadInv /\ ReportInv /\ LastOnly /\ FailsOnlyOnCut
    OBVIOUS
  <2>1. Len(file) \in Nat /\ LastOnly /\ Start
    BY LogsCutLast DEF Init
  <2> QED
    BY <2>1, StartKeeps DEF Start, FailsOnlyOnCut
<1>2. ReadInv /\ ReportInv /\ LastOnly /\ FailsOnlyOnCut /\ [Next]_vars
        => (ReadInv /\ ReportInv /\ LastOnly /\ FailsOnlyOnCut)'
  BY ReportKeeps, StepFailsOnCut
<1> QED
  BY <1>1, <1>2, PTL DEF Spec

-----------------------------------------------------------------------------
(* Picking the members of a sequence in their order *)

Rank(P, p) == Cardinality({q \in P : q <= p})

\* Places: finitely many positions in a sequence.
IsPlaces(P) == P \subseteq Nat /\ IsFiniteSet(P)

LEMMA RankIncreases ==
  ASSUME NEW P, IsPlaces(P)
  PROVE  /\ Cardinality(P) \in Nat
         /\ \A p \in P : Rank(P, p) \in 1 .. Cardinality(P)
         /\ \A p, q \in P : p < q => Rank(P, p) < Rank(P, q)
<1>1. P \subseteq Nat /\ IsFiniteSet(P) /\ Cardinality(P) \in Nat
  BY FS_CardinalityType DEF IsPlaces
<1> DEFINE U(p) == {r \in P : r <= p}
<1>2. ASSUME NEW p \in P
      PROVE  IsFiniteSet(U(p)) /\ Cardinality(U(p)) \in Nat /\ Cardinality(U(p)) <= Cardinality(P)
  <2>1. U(p) \in SUBSET P
    OBVIOUS
  <2> HIDE DEF U
  <2>2. IsFiniteSet(U(p)) /\ Cardinality(U(p)) <= Cardinality(P)
    BY <1>1, <2>1, FS_Subset
  <2> QED
    BY <2>2, FS_CardinalityType
<1>3. ASSUME NEW p \in P
      PROVE  Cardinality(U(p)) # 0
  <2>1. p \in U(p)
    BY <1>1
  <2> HIDE DEF U
  <2> QED
    BY <1>2, <2>1, FS_EmptySet
<1>4. ASSUME NEW p \in P, NEW q \in P, p < q
      PROVE  Cardinality(U(p)) < Cardinality(U(q))
  <2>1. U(p) \in SUBSET U(q) /\ q \in U(q) /\ q \notin U(p)
    <3>1. (\A r \in P : r <= p => r <= q) /\ q <= q /\ ~(q <= p)
      BY <1>1, <1>4
    <3> QED
      BY <3>1, Zenon
  <2> HIDE DEF U
  <2>2. Cardinality(U(p)) <= Cardinality(U(q)) /\ U(p) # U(q)
    BY <1>2, <2>1, FS_Subset
  <2>3. Cardinality(U(p)) # Cardinality(U(q))
    BY <1>2, <2>1, <2>2, FS_Subset
  <2> QED
    BY <1>2, <2>2, <2>3
<1>5. \A p : Rank(P, p) = Cardinality(U(p))
  BY DEF Rank
<1> HIDE DEF U
<1> QED
  BY <1>1, <1>2, <1>3, <1>4, <1>5

\* Every rank from 1 to the number of places is the rank of one of them.
LEMMA NthHasRank ==
  ASSUME NEW P, IsPlaces(P), NEW n \in 1 .. Cardinality(P)
  PROVE  Nth(P, n) \in P /\ Rank(P, Nth(P, n)) = n
<1> DEFINE N == Cardinality(P)
           f == [p \in P |-> Rank(P, p)]
<1>1. /\ N \in Nat /\ P \subseteq Nat /\ IsFiniteSet(P)
      /\ \A p \in P : Rank(P, p) \in 1 .. N
      /\ \A p, q \in P : p < q => Rank(P, p) < Rank(P, q)
  BY RankIncreases DEF IsPlaces
<1>2. f \in [P -> 1 .. N]
  BY <1>1
<1>3. \A p, q \in P : f[p] = f[q] => p = q
  <2> SUFFICES ASSUME NEW p \in P, NEW q \in P, p # q PROVE f[p] # f[q]
    OBVIOUS
  <2>1. p < q \/ q < p
    BY <1>1
  <2> QED
    BY <1>1, <2>1
<1> HIDE DEF f
<1>4. f \in Injection(P, 1 .. N)
  BY <1>2, <1>3 DEF Injection, IsInjective
<1>5. IsFiniteSet(1 .. N) /\ Cardinality(1 .. N) = N
  BY <1>1, FS_Interval
<1>6. f \in Surjection(P, 1 .. N)
  BY <1>4, <1>5, FS_Injection
<1>7. PICK p \in P : f[p] = n
  BY <1>6 DEF Surjection
<1>8. Rank(P, p) = n
  BY <1>7 DEF f
<1> QED
  BY <1>8 DEF Nth, Rank

LEMMA NthOfRank ==
  ASSUME NEW P, IsPlaces(P), NEW p \in P
  PROVE  Nth(P, Rank(P, p)) = p
<1> DEFINE r == Nth(P, Rank(P, p))
<1>1. /\ P \subseteq Nat /\ Rank(P, p) \in 1 .. Cardinality(P) /\ Cardinality(P) \in Nat
      /\ \A q, s \in P : q < s => Rank(P, q) < Rank(P, s)
  BY RankIncreases DEF IsPlaces
<1>2. r \in P /\ Rank(P, r) = Rank(P, p)
  BY <1>1, NthHasRank
<1> HIDE DEF r
<1>3. ~(r < p) /\ ~(p < r)
  BY <1>1, <1>2
<1>4. r \in Nat /\ p \in Nat
  BY <1>1, <1>2
<1>5. r = p
  BY <1>3, <1>4
<1> QED
  BY <1>5 DEF r

\* A place behind all others comes last, and leaves the others what they were.
LEMMA NthAppend ==
  ASSUME NEW Q, IsPlaces(Q), NEW m \in Nat, \A q \in Q : q < m, NEW P, P = Q \cup {m}
  PROVE  /\ IsPlaces(P) /\ Cardinality(Q) \in Nat /\ Cardinality(P) = Cardinality(Q) + 1
         /\ \A n \in 1 .. Cardinality(Q) : Nth(Q, n) \in Q /\ Nth(P, n) = Nth(Q, n)
         /\ Nth(P, Cardinality(Q) + 1) = m
<1>1. m \notin Q /\ Q \subseteq Nat /\ IsFiniteSet(Q)
  BY DEF IsPlaces
<1>2. /\ IsPlaces(P) /\ Cardinality(Q) \in Nat /\ Cardinality(P) = Cardinality(Q) + 1
  BY <1>1, FS_AddElement, FS_CardinalityType DEF IsPlaces
<1>3. ASSUME NEW n \in 1 .. Cardinality(Q)
      PROVE  Nth(Q, n) \in Q /\ Nth(P, n) = Nth(Q, n)
  <2> DEFINE p == Nth(Q, n)
  <2>1. p \in Q /\ Rank(Q, p) = n
    BY NthHasRank
  <2> HIDE DEF p
  <2>2. {q \in P : q <= p} = {q \in Q : q <= p}
    BY <1>1, <2>1
  <2>3. Rank(P, p) = n /\ p \in P
    BY <2>1, <2>2 DEF Rank
  <2>4. Nth(P, n) = p
    BY <1>2, <2>3, NthOfRank
  <2> QED
    BY <2>1, <2>4 DEF p
<1>4. Nth(P, Cardinality(Q) + 1) = m
  <2>1. {q \in P : q <= m} = P
    <3>1. \A q \in P : q <= m
      BY <1>1
    <3> QED
      BY <3>1, Zenon
  <2>2. Rank(P, m) = Cardinality(Q) + 1 /\ m \in P
    BY <1>2, <2>1 DEF Rank
  <2> QED
    BY <1>2, <2>2, NthOfRank
<1> QED
  BY <1>2, <1>3, <1>4

LEMMA NoPlaces ==
  IsPlaces({}) /\ Cardinality({}) = 0 /\ \A s : Len(Pick(s, {})) = 0 /\ Pick(s, {}) = <<>>
<1>1. IsFiniteSet({}) /\ Cardinality({}) = 0
  BY FS_EmptySet
<1> QED
  BY <1>1 DEF IsPlaces, Pick

LEMMA OnePlace ==
  ASSUME NEW m \in Nat, NEW s
  PROVE  Pick(s, {m}) = <<s[m]>>
<1>1. IsPlaces({}) /\ Cardinality({}) = 0
  BY NoPlaces
<1>2. Cardinality({m}) = 1 /\ Nth({m}, 1) = m
  BY <1>1, NthAppend
<1> QED
  BY <1>2 DEF Pick

-----------------------------------------------------------------------------
(* What exactly the groups and the report are *)

\* Split finds the address a in line l.
FiledUnder(l, a) == 4 \in DOMAIN Split(l) /\ Split(l)[4] = a

\* Where they are among the first n lines of s.
Places(s, a, n) == {i \in 1 .. n : FiledUnder(s[i], a)}

\* The group arr has the lines of s at the places P, in their order.
GroupOf(arr, s, P) ==
  /\ P # {} /\ Len(arr) = Cardinality(P)
  /\ \A k \in 1 .. Cardinality(P) : arr[k] = Split(s[Nth(P, k)])

GroupsInv == \A a \in DOMAIN dic : GroupOf(dic[a], file, Places(file, a, read))

\* What is printed of the group arr of address a.
GroupReport(a, arr) == [addr |-> a, rows |-> [k \in 1 .. PrintableRows(arr) |-> Row(arr[k])]]

\* Group g is printed as far as it can be; it lacks rows exactly if it is cut.
PrintedAs(g, arr, cut) ==
  g = GroupReport(g.addr, arr) /\ (cut <=> PrintableRows(arr) # Len(arr))

\* Groups are printed in their order, each once, and only the last may lack rows.
PrintedInv ==
  /\ \A j, k \in 1 .. Len(order) : order[j] = order[k] => j = k
  /\ \A i, j \in 1 .. Len(report) : report[i].addr = report[j].addr => i = j
  /\ report # <<>> => read = Len(file)
  /\ \A i \in 1 .. Len(report) :
       /\ PrintedAs(report[i], dic[report[i].addr], status = "IndexError" /\ i = Len(report))
       /\ \E k \in 1 .. Len(order) : k < next /\ order[k] = report[i].addr

LEMMA PlacesArePlaces ==
  ASSUME NEW s, NEW a, NEW n \in Nat
  PROVE  IsPlaces(Places(s, a, n)) /\ \A p \in Places(s, a, n) : p < n + 1
<1>1. Places(s, a, n) \in SUBSET (1 .. n)
  BY DEF Places
<1>2. IsFiniteSet(1 .. n)
  BY FS_Interval
<1>3. IsFiniteSet(Places(s, a, n))
  BY <1>1, <1>2, FS_Subset
<1> HIDE DEF Places
<1>4. \A p \in 1 .. n : p \in Nat /\ p < n + 1
  OBVIOUS
<1> QED
  BY <1>1, <1>3, <1>4 DEF IsPlaces

LEMMA PlacesGrow ==
  ASSUME NEW s, NEW a, NEW n \in Nat
  PROVE  Places(s, a, n + 1) =
           IF FiledUnder(s[n + 1], a) THEN Places(s, a, n) \cup {n + 1} ELSE Places(s, a, n)
<1>1. 1 .. n + 1 = (1 .. n) \cup {n + 1}
  OBVIOUS
<1> QED
  BY <1>1, Zenon DEF Places

\* A group grows by the line that was read.
LEMMA GroupGrows ==
  ASSUME NEW s, NEW Q, IsPlaces(Q), NEW m \in Nat, \A q \in Q : q < m,
         NEW arr, IsSeq(arr), NEW x, x = Split(s[m]),
         GroupOf(arr, s, Q)
  PROVE  GroupOf(Append(arr, x), s, Q \cup {m})
<1> DEFINE P == Q \cup {m}
           N == Cardinality(Q)
           new == Append(arr, x)
<1>1. /\ N \in Nat /\ Cardinality(P) = N + 1
      /\ \A n \in 1 .. N : Nth(P, n) = Nth(Q, n)
      /\ Nth(P, N + 1) = m
  BY NthAppend
<1>2. /\ Len(new) = Len(arr) + 1
      /\ \A i \in 1 .. Len(arr) : new[i] = arr[i]
      /\ new[Len(arr) + 1] = x
  BY AppendAny
<1> HIDE DEF P, N, new
<1>3. Len(arr) = N /\ \A k \in 1 .. N : arr[k] = Split(s[Nth(Q, k)])
  BY DEF GroupOf, N
<1>4. ASSUME NEW k \in 1 .. N + 1 PROVE new[k] = Split(s[Nth(P, k)])
  <2>1. CASE k \in 1 .. N
    BY <1>1, <1>2, <1>3, <2>1
  <2>2. CASE k = N + 1
    BY <1>1, <1>2, <1>3, <2>2
  <2> QED
    BY <1>1, <2>1, <2>2
<1>5. P # {}
  BY DEF P
<1>6. GroupOf(new, s, P)
  BY <1>1, <1>2, <1>3, <1>4, <1>5 DEF GroupOf
<1> QED
  BY <1>6 DEF P, new

LEMMA GroupStarts ==
  ASSUME NEW s, NEW m \in Nat
  PROVE  GroupOf(<<Split(s[m])>>, s, {m})
<1>1. Cardinality({m}) = 1 /\ Nth({m}, 1) = m
  BY NoPlaces, NthAppend
<1> QED
  BY <1>1 DEF GroupOf

LEMMA ReadLineGroups ==
  ASSUME ReadInv, GroupsInv, ReadLine
  PROVE  GroupsInv'
<1> DEFINE fields == Split(file[read + 1])
           b == fields[4]
<1>1. /\ 4 \in DOMAIN fields
      /\ Group(b, fields) /\ read' = read + 1 /\ file' = file
  BY DEF ReadLine, AddrIndex
<1>2. read \in Nat
  BY DEF ReadInv
<1>3. /\ DOMAIN dic' = DOMAIN dic \cup {b}
      /\ \A k \in DOMAIN dic : k # b => dic'[k] = dic[k]
      /\ b \in DOMAIN dic => dic'[b] = Append(dic[b], fields)
      /\ b \notin DOMAIN dic => dic'[b] = <<fields>>
  BY <1>1 DEF Group
<1>4. \A a : FiledUnder(file[read + 1], a) <=> a = b
  BY <1>1 DEF FiledUnder
<1>5. \A a : Places(file, a, read + 1) =
                IF a = b THEN Places(file, a, read) \cup {read + 1} ELSE Places(file, a, read)
  BY <1>2, <1>4, PlacesGrow
<1> HIDE DEF b
<1>6. ASSUME NEW a \in DOMAIN dic' PROVE GroupOf(dic'[a], file, Places(file, a, read + 1))
  <2>1. CASE a # b
    BY <1>3, <1>5, <2>1 DEF GroupsInv
  <2>2. CASE a = b /\ b \in DOMAIN dic
    <3>1. IsSeq(dic[b]) /\ GroupOf(dic[b], file, Places(file, b, read))
      BY <2>2 DEF ReadInv, GroupInv, GroupsInv
    <3>2. IsPlaces(Places(file, b, read)) /\ \A p \in Places(file, b, read) : p < read + 1
      BY <1>2, PlacesArePlaces
    <3>3. read + 1 \in Nat
      BY <1>2
    <3>4. GroupOf(Append(dic[b], fields), file, Places(file, b, read) \cup {read + 1})
      BY <3>1, <3>2, <3>3, GroupGrows
    <3> QED
      BY <1>3, <1>5, <2>2, <3>4
  <2>3. CASE a = b /\ b \notin DOMAIN dic
    <3>1. Places(file, b, read) = {}
      <4>1. ASSUME NEW i \in 1 .. read, FiledUnder(file[i], b) PROVE FALSE
        <5>1. Filed(i)
          BY DEF ReadInv
        <5> QED
          BY <2>3, <4>1, <5>1 DEF Filed, FiledUnder
      <4> QED
        BY <4>1 DEF Places
    <3>2. GroupOf(<<fields>>, file, {read + 1})
      BY <1>2, GroupStarts
    <3> QED
      BY <1>3, <1>5, <2>3, <3>1, <3>2
  <2> QED
    BY <1>3, <2>1, <2>2, <2>3
<1> QED
  BY <1>1, <1>6 DEF GroupsInv

LEMMA ReadLinePrinted ==
  ASSUME ReadInv, ReportInv, PrintedInv, ReadLine
  PROVE  PrintedInv'
<1> DEFINE a == Split(file[read + 1])[4]
<1>1. /\ status = "read" /\ report' = report
      /\ order' = IF a \in DOMAIN dic THEN order ELSE Append(order, a)
  BY DEF ReadLine, Group, AddrIndex
<1> HIDE DEF a
<1>2. report' = <<>> /\ Len(report') = 0
  BY <1>1, EmptyAny DEF ReportInv
<1>3. IsSeq(order) /\ Ran(order) = DOMAIN dic /\ Len(order) \in Nat
  BY AppendAny DEF ReadInv
<1>4. \A j, k \in 1 .. Len(order') : order'[j] = order'[k] => j = k
  <2>1. CASE order' = order
    BY <2>1 DEF PrintedInv
  <2>2. CASE a \notin DOMAIN dic /\ order' = Append(order, a)
    <3>1. /\ Len(order') = Len(order) + 1
          /\ \A i \in 1 .. Len(order) : order'[i] = order[i]
          /\ order'[Len(order) + 1] = a
      BY <1>3, <2>2, AppendAny
    <3>2. \A i \in 1 .. Len(order) : order[i] # a
      BY <1>3, <2>2 DEF Ran
    <3>3. \A j \in 1 .. Len(order') : j \in 1 .. Len(order) \/ j = Len(order) + 1
      BY <1>3, <3>1
    <3> QED
      BY <3>1, <3>2, <3>3 DEF PrintedInv
  <2> QED
    BY <1>1, <2>1, <2>2
<1> QED
  BY <1>2, <1>4 DEF PrintedInv

LEMMA PrintGroupPrinted ==
  ASSUME ReadInv, ReportInv, PrintedInv, PrintGroup
  PROVE  PrintedInv'
<1> DEFINE a == order[next]
           arr == dic[a]
           g == GroupReport(a, arr)
           L == Len(report)
<1>1. /\ status = "report" /\ next <= Len(order) /\ next' = next + 1
      /\ report' = Append(report, g)
      /\ status' = IF PrintableRows(arr) = Len(arr) THEN status ELSE "IndexError"
      /\ dic' = dic /\ order' = order /\ read' = read /\ file' = file
  BY DEF PrintGroup, GroupReport
<1>2. g.addr = a
  BY DEF GroupReport
<1> HIDE DEF g
<1>3. /\ IsSeq(report) /\ IsSeq(order) /\ next \in Nat \ {0} /\ read = Len(file)
  BY <1>1 DEF ReadInv, ReportInv
<1>4. /\ L \in Nat /\ Len(order) \in Nat /\ Len(report') = L + 1 /\ report'[L + 1] = g
      /\ \A i \in 1 .. L : report'[i] = report[i]
  BY <1>1, <1>3, AppendAny
<1> HIDE DEF L
<1>5. \A j, k \in 1 .. Len(order) : order[j] = order[k] => j = k
  BY DEF PrintedInv
<1>6. ASSUME NEW i \in 1 .. L
      PROVE  /\ report'[i] = GroupReport(report'[i].addr, dic'[report'[i].addr])
             /\ PrintableRows(dic'[report'[i].addr]) = Len(dic'[report'[i].addr])
             /\ i # Len(report')
             /\ \E k \in 1 .. Len(order) : k < next /\ order[k] = report'[i].addr
             /\ report'[i].addr # a
  <2>1. /\ PrintedAs(report[i], dic[report[i].addr], status = "IndexError" /\ i = Len(report))
        /\ \E k \in 1 .. Len(order) : k < next /\ order[k] = report[i].addr
    BY DEF PrintedInv, L
  <2>2. /\ report[i] = GroupReport(report[i].addr, dic[report[i].addr])
        /\ PrintableRows(dic[report[i].addr]) = Len(dic[report[i].addr])
    BY <1>1, <2>1 DEF PrintedAs
  <2>3. report[i].addr # a
    BY <1>1, <1>3, <1>4, <1>5, <2>1
  <2>4. i # Len(report')
    BY <1>4
  <2> QED
    BY <1>1, <1>4, <2>1, <2>2, <2>3, <2>4
<1>7. PrintedAs(g, arr, status' = "IndexError")
  <2>1. status' = "IndexError" <=> PrintableRows(arr) # Len(arr)
    BY <1>1
  <2> QED
    BY <1>2, <2>1 DEF PrintedAs, g
<1>8. ASSUME NEW i \in 1 .. Len(report')
      PROVE  /\ PrintedAs(report'[i], dic'[report'[i].addr],
                           status' = "IndexError" /\ i = Len(report'))
             /\ \E k \in 1 .. Len(order') : k < next' /\ order'[k] = report'[i].addr
  <2>1. CASE i \in 1 .. L
    <3>1. PrintedAs(report'[i], dic'[report'[i].addr],
                    status' = "IndexError" /\ i = Len(report'))
      BY <1>6, <2>1 DEF PrintedAs
    <3>2. PICK k \in 1 .. Len(order) : k < next /\ order[k] = report'[i].addr
      BY <1>6, <2>1
    <3>3. k < next' /\ order'[k] = report'[i].addr /\ k \in 1 .. Len(order')
      BY <1>1, <1>3, <3>2
    <3> QED
      BY <3>1, <3>3
  <2>2. CASE i = L + 1
    <3>1. (status' = "IndexError" /\ i = Len(report')) = (status' = "IndexError")
      BY <1>4, <2>2
    <3>2. report'[i] = g /\ dic'[report'[i].addr] = arr
      BY <1>1, <1>2, <1>4, <2>2
    <3>3. PrintedAs(report'[i], dic'[report'[i].addr],
                    status' = "IndexError" /\ i = Len(report'))
      BY <1>7, <3>1, <3>2
    <3>4. next \in 1 .. Len(order') /\ next < next' /\ order'[next] = report'[i].addr
      BY <1>1, <1>2, <1>3, <1>4, <3>2
    <3> QED
      BY <3>3, <3>4
  <2> QED
    BY <1>4, <2>1, <2>2
<1>9. \A i, j \in 1 .. Len(report') : report'[i].addr = report'[j].addr => i = j
  <2>1. \A i, j \in 1 .. L : report'[i].addr = report'[j].addr => i = j
    BY <1>4 DEF PrintedInv, L
  <2>2. \A i \in 1 .. L : report'[i].addr # report'[L + 1].addr
    BY <1>2, <1>4, <1>6
  <2>3. \A i \in 1 .. Len(report') : i \in 1 .. L \/ i = L + 1
    BY <1>4
  <2> QED
    BY <2>1, <2>2, <2>3
<1> QED
  BY <1>1, <1>3, <1>5, <1>8, <1>9 DEF PrintedInv

\* The other steps neither read nor print.
LEMMA OthersPrinted ==
  ASSUME ReadInv, ReportInv, GroupsInv, PrintedInv,
         \/ ReadLineFails \/ EndOfFile \/ SkipGroup \/ EndOfReport \/ UNCHANGED vars
  PROVE  GroupsInv' /\ PrintedInv'
<1>1. /\ file' = file /\ read' = read /\ dic' = dic /\ order' = order /\ report' = report
      /\ next' \in {next, next + 1}
  BY DEF ReadLineFails, EndOfFile, SkipGroup, EndOfReport, vars
<1>2. next \in Nat /\ (status = "read" => report = <<>>)
  BY DEF ReportInv
<1>3. report = <<>> \/ (status' = "IndexError" <=> status = "IndexError")
  BY <1>2 DEF ReadLineFails, EndOfFile, SkipGroup, EndOfReport, vars
<1>4. ASSUME NEW i \in 1 .. Len(report)
      PROVE  /\ PrintedAs(report[i], dic[report[i].addr], status' = "IndexError" /\ i = Len(report))
             /\ \E k \in 1 .. Len(order) : k < next' /\ order[k] = report[i].addr
  <2>1. /\ PrintedAs(report[i], dic[report[i].addr], status = "IndexError" /\ i = Len(report))
        /\ \E k \in 1 .. Len(order) : k < next /\ order[k] = report[i].addr
    BY DEF PrintedInv
  <2>2. report # <<>>
    BY <1>4, EmptyAny
  <2>3. (status' = "IndexError" /\ i = Len(report)) = (status = "IndexError" /\ i = Len(report))
    BY <1>3, <2>2
  <2>4. next' \in Nat /\ next <= next'
    BY <1>1, <1>2
  <2> QED
    BY <1>2, <2>1, <2>3, <2>4
<1> QED
  BY <1>1, <1>4 DEF GroupsInv, PrintedInv

-----------------------------------------------------------------------------
(* What the groups of the addresses have in them *)

\* A line without a comma has its fields where the script takes them from.
LEMMA PlainFields ==
  ASSUME NEW l \in Lines, l.comma = 0
  PROVE  /\ l.fields \in 1 .. 5 /\ DOMAIN Split(l) = 1 .. l.fields
         /\ l.fields > 1 => Split(l)[1] = l.tid
         /\ l.fields >= 4 => Split(l)[4] = IF l.fields = 4 /\ ~l.whole THEN "part" ELSE l.addr
         /\ l.fields = 5 => Split(l)[5] = IF ~l.whole THEN "part" ELSE l.op
<1> DEFINE all == <<l.tid, "number">> \o <<"file">> \o <<l.addr, l.op>>
<1>1. l.fields \in 1 .. 5
  BY DEF Lines, FieldCount
<1>2. all[1] = l.tid /\ all[4] = l.addr /\ all[5] = l.op
  OBVIOUS
<1>3. Split(l) = [i \in 1 .. l.fields |-> IF i = l.fields /\ ~l.whole THEN "part" ELSE all[i]]
  BY DEF Split
<1> HIDE DEF all
<1> QED
  BY <1>1, <1>2, <1>3

\* A line with a comma has no address where the script takes it from.
LEMMA ShiftedFields ==
  ASSUME NEW l \in Lines, l.comma # 0, 4 \in DOMAIN Split(l)
  PROVE  Split(l)[4] \in {"file", "part"}
<1> DEFINE all == <<l.tid, "number">> \o <<"dir", "file">> \o <<l.addr, l.op>>
<1>1. all[4] = "file"
  OBVIOUS
<1>2. Split(l) = [i \in 1 .. l.fields |-> IF i = l.fields /\ ~l.whole THEN "part" ELSE all[i]]
  BY DEF Split
<1> HIDE DEF all
<1> QED
  BY <1>1, <1>2

\* The line is filed under address a: it was cut behind the address at most.
LEMMA FiledUnderAddress ==
  ASSUME NEW l \in Lines, NEW a \in Addrs
  PROVE  FiledUnder(l, a) <=>
           l.comma = 0 /\ l.addr = a /\ (l.fields = 5 \/ (l.fields = 4 /\ l.whole))
<1>1. a # "file" /\ a # "part"
  BY TextAssumption
<1>2. CASE l.comma = 0
  <2>1. /\ l.fields \in 1 .. 5 /\ DOMAIN Split(l) = 1 .. l.fields
        /\ l.fields >= 4 => Split(l)[4] = IF l.fields = 4 /\ ~l.whole THEN "part" ELSE l.addr
    BY <1>2, PlainFields
  <2>2. 4 \in DOMAIN Split(l) <=> l.fields \in {4, 5}
    BY <2>1
  <2> QED
    BY <1>1, <1>2, <2>1, <2>2 DEF FiledUnder
<1>3. CASE l.comma # 0
  BY <1>1, <1>3, ShiftedFields DEF FiledUnder
<1> QED
  BY <1>2, <1>3

\* How the last line may be cut and still be filed under a.
LastOf(a) == Len(file) > 0 /\ Last.comma = 0 /\ Last.addr = a
CutInOp(a) == LastOf(a) /\ Last.fields = 5 /\ ~Last.whole
CutBeforeOp(a) == LastOf(a) /\ Last.fields = 4 /\ Last.whole

\* A log: its lines, and the only one that may be cut.
CutFileInv == Len(file) \in Nat /\ LastOnly /\ (file # <<>> => Len(file) > 0)

LEMMA LogsCutFile ==
  ASSUME file \in Logs
  PROVE  CutFileInv
<1>1. Len(file) \in Nat /\ LastOnly
  BY LogsCutLast
<1>2. file # <<>> => Len(file) > 0
  <2> SUFFICES ASSUME file # <<>> PROVE Len(file) > 0
    OBVIOUS
  <2> DEFINE Whole == {m \in Lines : Complete(m)}
  <2>1. PICK s \in UNION {[1 .. n -> Whole] : n \in 0 .. MaxLines - 1}, l \in Lines :
          file = Append(s, l)
    BY DEF Logs
  <2>2. PICK n \in 0 .. MaxLines - 1 : s \in [1 .. n -> Whole]
    BY <2>1
  <2>3. n \in Nat
    BY MaxLinesAssumption
  <2>4. s \in Seq(Whole) /\ Len(s) = n
    BY <2>2, <2>3
  <2>5. IsSeq(s)
    BY <2>4, SeqIsSeq
  <2> QED
    BY <2>1, <2>3, <2>4, <2>5, AppendAny
<1> QED
  BY <1>1, <1>2 DEF CutFileInv

WholePlaces(a) == {i \in 1 .. Len(file) : WholeLine(file[i], a)}

LEMMA WholeLineFields ==
  ASSUME NEW l \in Lines, NEW a
  PROVE  WholeLine(l, a) <=> l.comma = 0 /\ l.addr = a /\ l.fields = 5 /\ l.whole
BY DEF WholeLine, Complete, FieldCount

\* Beside the whole lines of a, only the last line may be filed under a.
LEMMA PlacesOfAddress ==
  ASSUME CutFileInv, NEW a \in Addrs
  PROVE  /\ IsPlaces(WholePlaces(a))
         /\ CutInOp(a) \/ CutBeforeOp(a) =>
              /\ Len(file) \in Nat /\ \A q \in WholePlaces(a) : q < Len(file)
              /\ Places(file, a, Len(file)) = WholePlaces(a) \cup {Len(file)}
         /\ ~(CutInOp(a) \/ CutBeforeOp(a)) => Places(file, a, Len(file)) = WholePlaces(a)
<1> DEFINE n == Len(file)
           Q == WholePlaces(a)
           P == Places(file, a, n)
           Cut == CutInOp(a) \/ CutBeforeOp(a)
<1>1. n \in Nat /\ \A i \in 1 .. n : file[i] \in Lines /\ (i < n => Complete(file[i]))
  BY DEF CutFileInv, LastOnly
<1>2. \A i \in 1 .. n : file[i].comma = 0 /\ i < n => file[i].fields = 5 /\ file[i].whole
  BY <1>1 DEF Complete, FieldCount
<1>3. \A i \in 1 .. n : i \in P <=>
        /\ file[i].comma = 0 /\ file[i].addr = a
        /\ file[i].fields = 5 \/ (file[i].fields = 4 /\ file[i].whole)
  BY <1>1, FiledUnderAddress DEF Places
<1>4. \A i \in 1 .. n : i \in Q <=>
        file[i].comma = 0 /\ file[i].addr = a /\ file[i].fields = 5 /\ file[i].whole
  BY <1>1, WholeLineFields DEF WholePlaces
<1>5. P \subseteq 1 .. n /\ Q \subseteq 1 .. n
  BY DEF Places, WholePlaces
<1>6. Cut <=> /\ n > 0 /\ file[n].comma = 0 /\ file[n].addr = a
              /\ (file[n].fields = 5 /\ ~file[n].whole) \/ (file[n].fields = 4 /\ file[n].whole)
  BY DEF CutInOp, CutBeforeOp, LastOf, Last
<1> HIDE DEF P, Q, Cut
<1>7. IsPlaces(Q)
  <2>1. IsFiniteSet(1 .. n)
    BY <1>1, FS_Interval
  <2>2. IsFiniteSet(Q)
    BY <1>5, <2>1, FS_Subset
  <2>3. Q \subseteq Nat
    BY <1>5
  <2> QED
    BY <2>2, <2>3 DEF IsPlaces
<1>8. \A i \in 1 .. n : i < n => (i \in P <=> i \in Q)
  BY <1>2, <1>3, <1>4
<1>9. \A i \in 1 .. n : i < n \/ i = n
  BY <1>1
<1>10. CASE Cut
  <2>1. n \in 1 .. n /\ n \in P /\ n \notin Q
    BY <1>1, <1>3, <1>4, <1>6, <1>10
  <2>2. \A q \in Q : q < n
    BY <1>5, <1>9, <2>1
  <2>3. P = Q \cup {n}
    BY <1>5, <1>8, <1>9, <2>1, Zenon
  <2> QED
    BY <1>1, <1>7, <1>10, <2>2, <2>3 DEF P, Q, Cut
<1>11. CASE ~Cut
  <2>1. n \in 1 .. n => (n \in P <=> n \in Q)
    BY <1>1, <1>3, <1>4, <1>6, <1>11
  <2>2. \A i \in 1 .. n : i \in P <=> i \in Q
    BY <1>8, <1>9, <2>1
  <2>3. P = Q
    BY <1>5, <2>2, Zenon
  <2> QED
    BY <1>7, <1>11, <2>3 DEF P, Q, Cut
<1> QED
  BY <1>10, <1>11

\* A function on 1 .. n is a sequence of length n.
LEMMA FunIsSeq ==
  ASSUME NEW n \in Nat, NEW f, f = [i \in 1 .. n |-> f[i]]
  PROVE  IsSeq(f) /\ Len(f) = n
<1> DEFINE S == {f[i] : i \in 1 .. n}
<1>1. f \in [1 .. n -> S]
  OBVIOUS
<1> HIDE DEF S
<1>2. f \in Seq(S)
  BY <1>1
<1>3. Len(f) = n
  BY <1>1
<1> QED
  BY <1>2, <1>3, SeqIsSeq

\* The rows of the whole lines of a.
LEMMA WholeRows ==
  ASSUME CutFileInv, NEW a \in Addrs
  PROVE  LET Q == WholePlaces(a)
             N == Cardinality(Q)
             W == WholeRowsOf(a)
         IN  /\ N \in Nat /\ IsSeq(W) /\ Len(W) = N
             /\ \A k \in 1 .. N :
                  /\ Nth(Q, k) \in Q
                  /\ W[k] = [tid |-> file[Nth(Q, k)].tid, op |-> file[Nth(Q, k)].op]
<1> DEFINE Q == WholePlaces(a)
           N == Cardinality(Q)
           W == WholeRowsOf(a)
           lines == LinesOf(a)
<1>1. IsPlaces(Q)
  BY PlacesOfAddress
<1>2. N \in Nat /\ \A k \in 1 .. N : Nth(Q, k) \in Q
  BY <1>1, NthHasRank, FS_CardinalityType DEF IsPlaces
<1>3. lines = [k \in 1 .. N |-> file[Nth(Q, k)]]
  BY DEF LinesOf, Pick, WholePlaces
<1>4. W = [k \in 1 .. Len(lines) |-> [tid |-> lines[k].tid, op |-> lines[k].op]]
  BY DEF WholeRowsOf
<1> HIDE DEF Q, N, W, lines
<1>5. Len(lines) = N /\ \A k \in 1 .. N : lines[k] = file[Nth(Q, k)]
  BY <1>2, <1>3, FunIsSeq
<1>6. W = [k \in 1 .. N |-> [tid |-> file[Nth(Q, k)].tid, op |-> file[Nth(Q, k)].op]]
  BY <1>4, <1>5
<1>7. /\ W = [k \in 1 .. N |-> W[k]]
      /\ \A k \in 1 .. N : W[k] = [tid |-> file[Nth(Q, k)].tid, op |-> file[Nth(Q, k)].op]
  BY <1>6
<1>8. IsSeq(W) /\ Len(W) = N
  BY <1>2, <1>7, FunIsSeq
<1> QED
  BY <1>2, <1>7, <1>8 DEF Q, N, W

\* Rows are printed up to the first line without an operation.
LEMMA PrintableCut ==
  ASSUME NEW arr, NEW N \in Nat, Len(arr) = N + 1,
         \A i \in 1 .. N : OpIndex \in DOMAIN arr[i], OpIndex \notin DOMAIN arr[N + 1]
  PROVE  PrintableRows(arr) = N
<1> DEFINE P(n) == /\ \A i \in 1 .. n : OpIndex \in DOMAIN arr[i]
                   /\ n < Len(arr) => OpIndex \notin DOMAIN arr[n + 1]
           m == CHOOSE n \in 0 .. Len(arr) : P(n)
<1>1. P(N) /\ N \in 0 .. Len(arr)
  OBVIOUS
<1>2. m \in 0 .. Len(arr) /\ P(m)
  <2> HIDE DEF P
  <2> QED
    BY <1>1
<1>3. PrintableRows(arr) = m
  BY DEF PrintableRows
<1> HIDE DEF m
<1>4. ~(m < N)
  <2> SUFFICES ASSUME m < N PROVE FALSE
    OBVIOUS
  <2>1. m + 1 \in 1 .. N /\ m < Len(arr)
    BY <1>2
  <2> QED
    BY <1>2, <2>1
<1>5. ~(m = N + 1)
  <2> SUFFICES ASSUME m = N + 1 PROVE FALSE
    OBVIOUS
  <2>1. N + 1 \in 1 .. m
    OBVIOUS
  <2> QED
    BY <1>2, <2>1
<1> QED
  BY <1>2, <1>3, <1>4, <1>5

\* The threads of a group, as the script finds them.
Heads(arr) == {arr[k][1] : k \in 1 .. Len(arr)}

LEMMA SharedHeads ==
  ASSUME NEW arr, Len(arr) \in Nat \ {0}
  PROVE  /\ IsFiniteSet(Heads(arr)) /\ Cardinality(Heads(arr)) \in Nat
         /\ Shared(arr) <=> Cardinality(Heads(arr)) >= 2
<1> DEFINE H == Heads(arr)
           n == Len(arr)
           f == [k \in 1 .. n |-> arr[k][1]]
<1>1. IsFiniteSet(1 .. n)
  BY FS_Interval
<1>2. H = {f[k] : k \in 1 .. n}
  BY DEF Heads
<1>3. f \in Surjection(1 .. n, H)
  BY <1>2 DEF Surjection
<1>4. IsFiniteSet(H) /\ Cardinality(H) \in Nat
  BY <1>1, <1>3, FS_Surjection, FS_CardinalityType
<1>5. 1 \in 1 .. n
  OBVIOUS
<1>6. CASE Shared(arr)
  <2>1. PICK i \in 1 .. n : arr[i][1] # arr[1][1]
    BY <1>6 DEF Shared
  <2> DEFINE x == arr[i][1]
             y == arr[1][1]
  <2>2. x # y /\ x \in H /\ y \in H
    BY <1>5, <2>1 DEF Heads
  <2> HIDE DEF H, x, y
  <2>3. {x, y} \in SUBSET H
    BY <2>2
  <2>4. Cardinality({x, y}) = 2
    <3>1. IsFiniteSet({y}) /\ Cardinality({y}) = 1
      BY FS_Singleton
    <3>2. Cardinality({y} \cup {x}) = IF x \in {y} THEN 1 ELSE 1 + 1
      BY <3>1, FS_AddElement
    <3>3. {y} \cup {x} = {x, y}
      OBVIOUS
    <3> QED
      BY <2>2, <3>2, <3>3
  <2>5. Cardinality({x, y}) <= Cardinality(H)
    BY <1>4, <2>3, FS_Subset
  <2>6. Cardinality(H) >= 2
    BY <1>4, <2>4, <2>5
  <2> QED
    BY <1>4, <1>6, <2>6 DEF H
<1>7. CASE ~Shared(arr)
  <2>1. \A i \in 1 .. n : arr[i][1] = arr[1][1]
    BY <1>7 DEF Shared
  <2>2. H = {arr[1][1]}
    BY <1>5, <2>1, Zenon DEF Heads
  <2> HIDE DEF H
  <2>3. Cardinality(H) = 1
    BY <2>2, FS_Singleton
  <2> QED
    BY <1>4, <1>7, <2>3 DEF H
<1> QED
  BY <1>6, <1>7

\* What the group arr of address a has in it once the log is read.
GroupShows(arr, a) ==
  /\ Len(arr) \in Nat \ {0}
  /\ PrintableRows(arr) = Len(arr) <=> ~CutBeforeOp(a)
  /\ [k \in 1 .. PrintableRows(arr) |-> Row(arr[k])] = RowsOf(a)
  /\ ~CutInOp(a) => RowsOf(a) = WholeRowsOf(a)
  /\ Heads(arr) = ThreadsOf(RowsOf(a)) \cup (IF CutBeforeOp(a) THEN {Last.tid} ELSE {})

\* What a line that is filed under a, with its operation or without, is split into.
LEMMA SplitRow ==
  ASSUME NEW l \in Lines, NEW arr, NEW k, arr[k] = Split(l), l.comma = 0
  PROVE  /\ l.fields = 5 => /\ OpIndex \in DOMAIN arr[k] /\ arr[k][1] = l.tid
                            /\ Row(arr[k]) = [tid |-> l.tid, op |-> IF l.whole THEN l.op ELSE "part"]
         /\ l.fields = 4 => OpIndex \notin DOMAIN arr[k] /\ arr[k][1] = l.tid
<1> DEFINE f == Split(l)
<1>1. /\ l.fields \in 1 .. 5 /\ DOMAIN f = 1 .. l.fields
      /\ l.fields > 1 => f[1] = l.tid
      /\ l.fields = 5 => f[5] = IF ~l.whole THEN "part" ELSE l.op
  BY PlainFields
<1> HIDE DEF f
<1>2. l.fields = 5 => OpIndex \in DOMAIN f /\ f[1] = l.tid /\ f[5] = IF l.whole THEN l.op ELSE "part"
  BY <1>1 DEF OpIndex
<1>3. l.fields = 4 => OpIndex \notin DOMAIN f /\ f[1] = l.tid
  BY <1>1 DEF OpIndex
<1>4. arr[k] = f
  BY DEF f
<1> QED
  BY <1>2, <1>3, <1>4 DEF Row, OpIndex

\* The group of an address whose last line is not cut, up to its last whole line.
WholeGroup(arr, N, W, T) ==
  /\ N \in Nat /\ IsSeq(W) /\ Len(W) = N
  /\ \A k \in 1 .. N : /\ OpIndex \in DOMAIN arr[k] /\ Row(arr[k]) = W[k]
                        /\ arr[k][1] = W[k].tid
  /\ T = {arr[k][1] : k \in 1 .. N} /\ T = ThreadsOf(W)

LEMMA GroupIsWhole ==
  ASSUME CutFileInv, NEW a \in Addrs, NEW arr,
         NEW N, N = Cardinality(WholePlaces(a)),
         \A k \in 1 .. N : arr[k] = Split(file[Nth(WholePlaces(a), k)])
  PROVE  WholeGroup(arr, N, WholeRowsOf(a), {arr[k][1] : k \in 1 .. N})
<1> DEFINE Q == WholePlaces(a)
           W == WholeRowsOf(a)
<1>1. /\ N \in Nat /\ IsSeq(W) /\ Len(W) = N
      /\ \A k \in 1 .. N :
           /\ Nth(Q, k) \in Q
           /\ W[k] = [tid |-> file[Nth(Q, k)].tid, op |-> file[Nth(Q, k)].op]
  BY WholeRows
<1>2. Q \subseteq 1 .. Len(file) /\ \A i \in Q : WholeLine(file[i], a)
  BY DEF WholePlaces
<1>3. \A i \in 1 .. Len(file) : file[i] \in Lines
  BY DEF CutFileInv, LastOnly
<1> HIDE DEF W
<1>4. ASSUME NEW k \in 1 .. N
      PROVE  OpIndex \in DOMAIN arr[k] /\ Row(arr[k]) = W[k] /\ arr[k][1] = W[k].tid
  <2> DEFINE l == file[Nth(Q, k)]
  <2>1. l \in Lines /\ WholeLine(l, a) /\ arr[k] = Split(l) /\ W[k] = [tid |-> l.tid, op |-> l.op]
    BY <1>1, <1>2, <1>3
  <2> HIDE DEF l
  <2>2. l.comma = 0 /\ l.fields = 5 /\ l.whole
    BY <2>1, WholeLineFields
  <2>3. /\ OpIndex \in DOMAIN arr[k] /\ arr[k][1] = l.tid
        /\ Row(arr[k]) = [tid |-> l.tid, op |-> IF l.whole THEN l.op ELSE "part"]
    BY <2>1, <2>2, SplitRow
  <2> QED
    BY <2>1, <2>2, <2>3
<1>5. {arr[k][1] : k \in 1 .. N} = ThreadsOf(W)
  BY <1>1, <1>4 DEF ThreadsOf
<1> QED
  BY <1>1, <1>4, <1>5 DEF WholeGroup, W

LEMMA GroupRows ==
  ASSUME CutFileInv, NEW a \in Addrs, NEW arr,
         GroupOf(arr, file, Places(file, a, Len(file)))
  PROVE  GroupShows(arr, a)
<1> DEFINE n == Len(file)
           Q == WholePlaces(a)
           P == Places(file, a, n)
           N == Cardinality(Q)
           W == WholeRowsOf(a)
           T == {arr[k][1] : k \in 1 .. N}
           Rows == [k \in 1 .. PrintableRows(arr) |-> Row(arr[k])]
<1>1. /\ IsPlaces(Q)
      /\ CutInOp(a) \/ CutBeforeOp(a) => n \in Nat /\ (\A q \in Q : q < n) /\ P = Q \cup {n}
      /\ ~(CutInOp(a) \/ CutBeforeOp(a)) => P = Q
  BY PlacesOfAddress
<1>2. /\ P # {} /\ Len(arr) = Cardinality(P)
      /\ \A k \in 1 .. Cardinality(P) : arr[k] = Split(file[Nth(P, k)])
  BY DEF GroupOf
<1>3. RowsOf(a) = W \o CutRowsOf(a)
  BY DEF RowsOf
<1>4. CutRowsOf(a) = IF CutInOp(a) THEN <<[tid |-> Last.tid, op |-> "part"]>> ELSE <<>>
  BY EmptyAny DEF CutRowsOf, CutInOp, LastOf, CutFileInv
<1>5. CASE ~(CutInOp(a) \/ CutBeforeOp(a))
  <2>1. WholeGroup(arr, N, W, T)
    BY <1>1, <1>2, <1>5, GroupIsWhole
  <2>2. Len(arr) = N /\ Q # {}
    BY <1>1, <1>2, <1>5
  <2>3. N \in Nat /\ N # 0
    BY <1>1, <2>2, FS_EmptySet, FS_CardinalityType DEF IsPlaces
  <2> HIDE DEF Q, P, N, W, Rows
  <2>4. \A k \in 1 .. N : OpIndex \in DOMAIN arr[k] /\ Row(arr[k]) = W[k]
    BY <2>1 DEF WholeGroup
  <2>5. PrintableRows(arr) = N
    BY <2>2, <2>3, <2>4, PrintableAll
  <2>6. IsSeq(W) /\ Len(W) = N
    BY <2>1 DEF WholeGroup
  <2>7. W = [k \in 1 .. N |-> W[k]]
    BY <2>6 DEF IsSeq
  <2>8. Rows = W
    BY <2>4, <2>5, <2>7 DEF Rows
  <2>9. RowsOf(a) = W
    BY <1>3, <1>4, <1>5, <2>6, ConcatEmptySeq DEF IsSeq
  <2>10. Heads(arr) = ThreadsOf(W)
    BY <2>1, <2>2 DEF Heads, WholeGroup, T
  <2> QED
    BY <1>5, <2>2, <2>3, <2>5, <2>8, <2>9, <2>10 DEF GroupShows, Rows, W
<1>6. CASE CutInOp(a) \/ CutBeforeOp(a)
  <2>1. /\ N \in Nat /\ Cardinality(P) = N + 1
        /\ \A k \in 1 .. N : Nth(P, k) = Nth(Q, k)
        /\ Nth(P, N + 1) = n
    BY <1>1, <1>6, NthAppend
  <2>2. /\ Len(arr) = N + 1 /\ arr[N + 1] = Split(Last)
        /\ \A k \in 1 .. N : arr[k] = Split(file[Nth(Q, k)])
    BY <1>2, <2>1 DEF Last
  <2>3. WholeGroup(arr, N, W, T)
    BY <2>2, GroupIsWhole
  <2>4. Last \in Lines /\ Last.comma = 0
    BY <1>1, <1>6 DEF CutFileInv, LastOnly, Last, CutInOp, CutBeforeOp, LastOf
  <2> HIDE DEF Q, P, N, W, Rows
  <2>5. \A k \in 1 .. N : OpIndex \in DOMAIN arr[k] /\ Row(arr[k]) = W[k]
    BY <2>3 DEF WholeGroup
  <2>6. IsSeq(W) /\ Len(W) = N /\ W = [k \in 1 .. N |-> W[k]]
    BY <2>3 DEF WholeGroup, IsSeq
  <2>7. arr[N + 1][1] = Last.tid
    BY <1>6, <2>2, <2>4, SplitRow DEF CutInOp, CutBeforeOp
  <2>8. Heads(arr) = ThreadsOf(W) \cup {Last.tid}
    <3>1. 1 .. Len(arr) = (1 .. N) \cup {N + 1}
      BY <2>1, <2>2
    <3>2. Heads(arr) = T \cup {Last.tid}
      BY <2>7, <3>1, Zenon DEF Heads, T
    <3> QED
      BY <2>3, <3>2 DEF WholeGroup
  <2>9. Len(arr) \in Nat \ {0}
    BY <2>1, <2>2
  <2>10. CASE CutBeforeOp(a)
    <3>1. OpIndex \notin DOMAIN arr[N + 1] /\ ~CutInOp(a)
      BY <2>2, <2>4, <2>10, SplitRow DEF CutInOp, CutBeforeOp
    <3>2. PrintableRows(arr) = N
      BY <2>1, <2>2, <2>5, <3>1, PrintableCut
    <3>3. Rows = W
      BY <2>5, <2>6, <3>2 DEF Rows
    <3>4. RowsOf(a) = W
      BY <1>3, <1>4, <2>6, <3>1, ConcatEmptySeq DEF IsSeq
    <3>5. PrintableRows(arr) # Len(arr)
      BY <2>1, <2>2, <3>2
    <3> QED
      BY <2>8, <2>9, <2>10, <3>3, <3>4, <3>5 DEF GroupShows, Rows, W
  <2>11. CASE CutInOp(a)
    <3> DEFINE x == [tid |-> Last.tid, op |-> "part"]
               V == Append(W, x)
    <3>1. OpIndex \in DOMAIN arr[N + 1] /\ Row(arr[N + 1]) = x /\ ~CutBeforeOp(a)
      BY <2>2, <2>4, <2>11, SplitRow DEF CutInOp, CutBeforeOp
    <3>11. x.tid = Last.tid
      OBVIOUS
    <3> HIDE DEF x
    <3>2. \A k \in 1 .. Len(arr) : OpIndex \in DOMAIN arr[k]
      BY <2>1, <2>2, <2>5, <3>1
    <3>3. PrintableRows(arr) = N + 1
      BY <2>2, <2>9, <3>2, PrintableAll
    <3>4. /\ IsSeq(V) /\ Len(V) = N + 1 /\ V[N + 1] = x
          /\ \A k \in 1 .. N : V[k] = W[k]
      <4>1. IsSeq(W) /\ Len(W) = N
        BY <2>6
      <4>2. /\ IsSeq(V) /\ Len(V) = Len(W) + 1 /\ V[Len(W) + 1] = x
            /\ \A k \in 1 .. Len(W) : V[k] = W[k]
        BY <4>1, AppendAny
      <4> QED
        BY <4>1, <4>2
    <3>5. W \o <<x>> = V
      <4>1. W \in Seq(Ran(W) \cup {x}) /\ x \in Ran(W) \cup {x}
        BY <2>6 DEF IsSeq
      <4> QED
        BY <4>1, AppendIsConcat
    <3>6. RowsOf(a) = V
      BY <1>3, <1>4, <2>11, <3>5 DEF W, x
    <3> HIDE DEF V
    <3>7. V = [k \in 1 .. N + 1 |-> V[k]]
      BY <3>4 DEF IsSeq
    <3>8. \A k \in 1 .. N + 1 : Row(arr[k]) = V[k]
      BY <2>1, <2>5, <3>1, <3>4
    <3>9. Rows = V
      BY <3>3, <3>7, <3>8 DEF Rows
    <3>10. ThreadsOf(V) = ThreadsOf(W) \cup {Last.tid}
      <4>1. 1 .. Len(V) = (1 .. N) \cup {N + 1} /\ 1 .. Len(W) = 1 .. N
        BY <2>1, <2>6, <3>4
      <4>2. ThreadsOf(V) = {V[k].tid : k \in 1 .. N} \cup {V[N + 1].tid}
        BY <4>1, Zenon DEF ThreadsOf
      <4>3. {V[k].tid : k \in 1 .. N} = {W[k].tid : k \in 1 .. N}
        BY <3>4
      <4> QED
        BY <3>4, <3>11, <4>1, <4>2, <4>3 DEF ThreadsOf
    <3> QED
      BY <2>2, <2>8, <2>9, <2>11, <3>1, <3>3, <3>6, <3>9, <3>10 DEF GroupShows, Rows
  <2> QED
    BY <1>6, <2>10, <2>11
<1> QED
  BY <1>5, <1>6

-----------------------------------------------------------------------------
(* What is printed *)

\* The group of an address that was read, and the address without one.
LEMMA GroupsShow ==
  ASSUME ReadInv, GroupsInv, CutFileInv, read = Len(file), NEW a \in Addrs
  PROVE  /\ a \in DOMAIN dic => GroupShows(dic[a], a)
         /\ a \notin DOMAIN dic => RowsOf(a) = <<>>
<1>1. ASSUME a \in DOMAIN dic PROVE GroupShows(dic[a], a)
  <2>1. GroupOf(dic[a], file, Places(file, a, Len(file)))
    BY <1>1 DEF GroupsInv
  <2> QED
    BY <2>1, GroupRows
<1>2. ASSUME a \notin DOMAIN dic PROVE RowsOf(a) = <<>>
  <2>1. Places(file, a, Len(file)) = {}
    <3>1. ASSUME NEW i \in 1 .. Len(file), FiledUnder(file[i], a) PROVE FALSE
      <4>1. Filed(i)
        BY <3>1 DEF ReadInv
      <4> QED
        BY <1>2, <3>1, <4>1 DEF Filed, FiledUnder
    <3> QED
      BY <3>1 DEF Places
  <2>2. ~(CutInOp(a) \/ CutBeforeOp(a)) /\ WholePlaces(a) = {}
    BY <2>1, PlacesOfAddress
  <2>3. Cardinality(WholePlaces(a)) = 0
    BY <2>2, NoPlaces
  <2>4. IsSeq(WholeRowsOf(a)) /\ Len(WholeRowsOf(a)) = 0
    BY <2>3, WholeRows
  <2>5. WholeRowsOf(a) = <<>>
    BY <2>4, EmptySeq DEF IsSeq
  <2>6. CutRowsOf(a) = <<>>
    BY <2>2, EmptyAny DEF CutRowsOf, CutInOp, LastOf, CutFileInv
  <2> QED
    BY <2>5, <2>6, ConcatEmptySeq, EmptyAny DEF RowsOf, IsSeq
<1> QED
  BY <1>1, <1>2

\* A group is printed if two threads have lines in it.
LEMMA ThreadsShared ==
  ASSUME NEW arr, NEW a, GroupShows(arr, a)
  PROVE  /\ ~CutBeforeOp(a) => (Shared(arr) <=> Cardinality(ThreadsOf(RowsOf(a))) >= 2)
         /\ ~Shared(arr) => ~(Cardinality(ThreadsOf(RowsOf(a))) >= 2)
         /\ CutBeforeOp(a) =>
              (Shared(arr) <=> Cardinality(ThreadsOf(RowsOf(a)) \cup {Last.tid}) >= 2)
<1> DEFINE T == ThreadsOf(RowsOf(a))
           H == Heads(arr)
<1>1. /\ IsFiniteSet(H) /\ Cardinality(H) \in Nat
      /\ Shared(arr) <=> Cardinality(H) >= 2
  BY SharedHeads DEF GroupShows
<1>2. H = T \cup (IF CutBeforeOp(a) THEN {Last.tid} ELSE {})
  BY DEF GroupShows
<1> HIDE DEF T, H
<1>3. T \in SUBSET H
  BY <1>2
<1>4. IsFiniteSet(T) /\ Cardinality(T) <= Cardinality(H)
  BY <1>1, <1>3, FS_Subset
<1>5. Cardinality(T) \in Nat
  BY <1>4, FS_CardinalityType
<1>6. ~CutBeforeOp(a) => H = T
  BY <1>2
<1>7. CutBeforeOp(a) => H = T \cup {Last.tid}
  BY <1>2
<1>8. ~(Cardinality(H) >= 2) => ~(Cardinality(T) >= 2)
  BY <1>1, <1>4, <1>5
<1> QED
  BY <1>1, <1>6, <1>7, <1>8 DEF T

\* The report in the end.
LEMMA DoneShared ==
  ASSUME ReadInv, ReportInv, GroupsInv, PrintedInv, CutFileInv
  PROVE  ReportsShared
<1> DEFINE Groups(a) == {i \in 1 .. Len(report) : report[i].addr = a}
<1> SUFFICES ASSUME status = "done", NEW a \in Addrs
             PROVE  Pick(report, Groups(a)) =
                      IF Cardinality(ThreadsOf(RowsOf(a))) >= 2
                        THEN <<[addr |-> a, rows |-> RowsOf(a)]>> ELSE <<>>
  BY DEF ReportsShared
<1>1. read = Len(file) /\ next > Len(order)
  BY DEF ReadInv, ReportInv
<1>2. /\ IsSeq(order) /\ IsSeq(report) /\ Ran(order) = DOMAIN dic
      /\ Len(order) \in Nat /\ Len(report) \in Nat /\ next \in Nat
  BY AppendAny DEF ReadInv, ReportInv
<1>3. CASE a \notin DOMAIN dic
  <2>1. RowsOf(a) = <<>>
    BY <1>1, <1>3, GroupsShow
  <2>2. ThreadsOf(RowsOf(a)) = {}
    BY <2>1, EmptyAny DEF ThreadsOf
  <2>3. ~(Cardinality(ThreadsOf(RowsOf(a))) >= 2)
    BY <2>2, NoPlaces
  <2>4. Groups(a) = {}
    BY <1>3 DEF ReportInv
  <2> QED
    BY <2>3, <2>4, NoPlaces
<1>4. CASE a \in DOMAIN dic /\ ~Shared(dic[a])
  <2>1. GroupShows(dic[a], a)
    BY <1>1, <1>4, GroupsShow
  <2>2. ~(Cardinality(ThreadsOf(RowsOf(a))) >= 2)
    BY <1>4, <2>1, ThreadsShared
  <2>3. Groups(a) = {}
    BY <1>4 DEF ReportInv
  <2> QED
    BY <2>2, <2>3, NoPlaces
<1>5. CASE a \in DOMAIN dic /\ Shared(dic[a])
  <2>1. GroupShows(dic[a], a)
    BY <1>1, <1>5, GroupsShow
  <2>2. PICK k \in 1 .. Len(order) : order[k] = a
    BY <1>2, <1>5 DEF Ran
  <2>3. k < next
    BY <1>1, <1>2
  <2>4. Printed(a, dic[a], report)
    BY <1>5, <2>2, <2>3 DEF ReportInv
  <2>5. PICK i \in 1 .. Len(report) : report[i].addr = a
    BY <2>4 DEF Printed
  <2>6. PrintedAs(report[i], dic[a], status = "IndexError" /\ i = Len(report))
    BY <2>5 DEF PrintedInv
  <2>7. report[i] = GroupReport(a, dic[a]) /\ PrintableRows(dic[a]) = Len(dic[a])
    BY <2>5, <2>6 DEF PrintedAs
  <2>8. ~CutBeforeOp(a) /\ report[i] = [addr |-> a, rows |-> RowsOf(a)]
    BY <2>1, <2>7 DEF GroupShows, GroupReport
  <2>9. Cardinality(ThreadsOf(RowsOf(a))) >= 2
    BY <1>5, <2>1, <2>8, ThreadsShared
  <2>10. Groups(a) = {i}
    BY <2>5 DEF PrintedInv
  <2>11. Pick(report, Groups(a)) = <<report[i]>>
    BY <1>2, <2>10, OnePlace
  <2> QED
    BY <2>8, <2>9, <2>11
<1> QED
  BY <1>3, <1>4, <1>5

\* The line that a failing report stops at is the last one, cut before its operation.
LEMMA CutStops ==
  ASSUME ReadInv, GroupsInv, LastOnly, NEW b \in DOMAIN dic,
         PrintableRows(dic[b]) # Len(dic[b])
  PROVE  \A a : ~CutInOp(a)
<1> DEFINE arr == dic[b]
<1>1. IsSeq(arr) /\ \A f \in Ran(arr) : \E i \in 1 .. read : f = Split(file[i])
  BY DEF ReadInv, GroupInv
<1>2. Len(arr) \in Nat
  BY <1>1, AppendAny
<1>3. PICK k \in 1 .. Len(arr) : OpIndex \notin DOMAIN arr[k]
  BY <1>2, PrintableAll
<1>4. PICK i \in 1 .. read : arr[k] = Split(file[i])
  BY <1>1 DEF Ran
<1>5. Len(file) \in Nat /\ read \in 0 .. Len(file)
  BY DEF ReadInv
<1>6. i \in 1 .. Len(file)
  BY <1>5
<1>7. file[i] \in Lines /\ ~Complete(file[i])
  BY <1>3, <1>4, <1>6, CompleteHasBoth DEF LastOnly
<1>8. ~(i < Len(file))
  BY <1>6, <1>7 DEF LastOnly
<1>9. i = Len(file)
  BY <1>5, <1>6, <1>8
<1>10. DOMAIN Split(Last) = 1 .. Last.fields /\ OpIndex \notin DOMAIN Split(Last)
  BY <1>3, <1>4, <1>9 DEF Last, Split
<1>11. Last.fields # 5
  BY <1>10 DEF OpIndex
<1> QED
  BY <1>11 DEF CutInOp

\* The report of a script that failed.
LEMMA FailedShared ==
  ASSUME ReadInv, ReportInv, GroupsInv, PrintedInv, CutFileInv
  PROVE  FailureCutsReport
<1> SUFFICES ASSUME status = "IndexError", NEW i \in 1 .. Len(report), report[i].addr \in Addrs
             PROVE  /\ report[i].rows = WholeRowsOf(report[i].addr)
                    /\ IF i < Len(report)
                         THEN Cardinality(ThreadsOf(report[i].rows)) >= 2
                         ELSE /\ Last.addr = report[i].addr
                              /\ Cardinality(ThreadsOf(report[i].rows) \cup {Last.tid}) >= 2
  BY DEF FailureCutsReport
<1> DEFINE a == report[i].addr
           n == Len(report)
           z == report[n].addr
<1>1. IsSeq(report) /\ n \in Nat
  BY AppendAny DEF ReportInv
<1>2. report # <<>> /\ n \in 1 .. n
  BY <1>1, EmptyAny
<1>3. read = Len(file)
  BY <1>2 DEF PrintedInv
<1>4. \A j \in 1 .. n : report[j].addr \in DOMAIN dic /\ Shared(dic[report[j].addr])
  BY DEF ReportInv
<1>5. \A j \in 1 .. n :
        PrintedAs(report[j], dic[report[j].addr], status = "IndexError" /\ j = Len(report))
  BY DEF PrintedInv
<1>6. PrintableRows(dic[z]) # Len(dic[z])
  BY <1>2, <1>5 DEF PrintedAs
<1>7. z \in DOMAIN dic /\ LastOnly
  BY <1>2, <1>4 DEF CutFileInv
<1> HIDE DEF z
<1>8. ~CutInOp(a)
  BY <1>6, <1>7, CutStops
<1>9. a \in DOMAIN dic /\ Shared(dic[a])
  BY <1>4
<1>10. GroupShows(dic[a], a)
  BY <1>3, <1>9, GroupsShow
<1>11. report[i].rows = WholeRowsOf(a) /\ RowsOf(a) = WholeRowsOf(a)
  <2>1. report[i] = GroupReport(a, dic[a])
    BY <1>5 DEF PrintedAs
  <2>2. \A b, arr : GroupReport(b, arr).rows = [k \in 1 .. PrintableRows(arr) |-> Row(arr[k])]
    BY DEF GroupReport
  <2> HIDE DEF a
  <2>3. report[i].rows = [k \in 1 .. PrintableRows(dic[a]) |-> Row(dic[a][k])]
    BY <2>1, <2>2
  <2> QED
    BY <1>8, <1>10, <2>3 DEF GroupShows
<1>12. CASE i < n
  <2>1. PrintableRows(dic[a]) = Len(dic[a])
    BY <1>1, <1>5, <1>12 DEF PrintedAs
  <2>2. ~CutBeforeOp(a)
    BY <1>10, <2>1 DEF GroupShows
  <2> QED
    BY <1>9, <1>10, <1>11, <1>12, <2>2, ThreadsShared
<1>13. CASE ~(i < n)
  <2>1. i = n
    BY <1>1, <1>13
  <2>2. PrintableRows(dic[a]) # Len(dic[a])
    BY <1>6, <2>1 DEF z
  <2>3. CutBeforeOp(a)
    BY <1>10, <2>2 DEF GroupShows
  <2>4. Last.addr = a
    BY <2>3 DEF CutBeforeOp, LastOf
  <2> QED
    BY <1>9, <1>10, <1>11, <1>13, <2>3, <2>4, ThreadsShared
<1> QED
  BY <1>12, <1>13

\* The invariant of the groups and the report, with what the log is.
ShownInv == ReadInv /\ ReportInv /\ GroupsInv /\ PrintedInv /\ CutFileInv

LEMMA StartShown == Init => ShownInv
<1> SUFFICES ASSUME Init PROVE ShownInv
  OBVIOUS
<1>1. CutFileInv /\ Start
  BY LogsCutFile DEF Init
<1>2. /\ read = 0 /\ dic = <<>> /\ order = <<>> /\ next = 1 /\ report = <<>> /\ status = "read"
  BY <1>1 DEF Start
<1>3. ReadInv /\ ReportInv
  BY <1>1, StartKeeps DEF CutFileInv
<1>4. DOMAIN dic = {} /\ Len(order) = 0 /\ Len(report) = 0
  BY <1>2
<1>5. GroupsInv /\ PrintedInv
  BY <1>2, <1>4 DEF GroupsInv, PrintedInv
<1> QED
  BY <1>1, <1>3, <1>5 DEF ShownInv

LEMMA ShownKeeps ==
  ASSUME ShownInv, [Next]_vars
  PROVE  ShownInv'
<1>1. ReadInv /\ ReportInv /\ GroupsInv /\ PrintedInv /\ CutFileInv
  BY DEF ShownInv
<1>2. ReadInv' /\ ReportInv'
  BY <1>1, ReportKeeps
<1>3. file' = file
  BY DEF vars, Next, ReadLine, ReadLineFails, EndOfFile, SkipGroup, PrintGroup, EndOfReport,
         Ended
<1>4. CutFileInv'
  BY <1>1, <1>3 DEF CutFileInv, LastOnly
<1>5. ASSUME ReadLine PROVE GroupsInv' /\ PrintedInv'
  BY <1>1, <1>5, ReadLineGroups, ReadLinePrinted
<1>6. CASE PrintGroup
  <2>1. read' = read /\ dic' = dic
    BY <1>6 DEF PrintGroup
  <2>2. GroupsInv'
    BY <1>1, <1>3, <2>1 DEF GroupsInv
  <2>3. PrintedInv'
    BY <1>1, <1>6, PrintGroupPrinted
  <2> QED
    BY <1>2, <1>4, <2>2, <2>3 DEF ShownInv
<1>7. CASE ReadLineFails \/ EndOfFile \/ SkipGroup \/ EndOfReport \/ UNCHANGED vars
  <2>1. GroupsInv' /\ PrintedInv'
    BY <1>1, <1>7, OthersPrinted
  <2> QED
    BY <1>2, <1>4, <2>1 DEF ShownInv
<1>8. ReadLine \/ PrintGroup
      \/ (ReadLineFails \/ EndOfFile \/ SkipGroup \/ EndOfReport \/ UNCHANGED vars)
  BY DEF Next, Ended
<1>9. ReadLine => ShownInv'
  BY <1>2, <1>4, <1>5 DEF ShownInv
<1> QED
  BY <1>6, <1>7, <1>8, <1>9

LEMMA ShownAlways == Spec => []ShownInv
BY StartShown, ShownKeeps, PTL DEF Spec

(***************************************************************************)
(* For every log, of any number of lines by any number of threads: a       *)
(* report that is complete has exactly the addresses that two threads have *)
(* lines of, each printed once, with all its rows in the order of the log. *)
(***************************************************************************)
THEOREM ReportIsShared == Spec => []ReportsShared
<1>1. ShownInv => ReportsShared
  BY DoneShared DEF ShownInv
<1> QED
  BY <1>1, ShownAlways, PTL

(***************************************************************************)
(* For every log that was cut: what the script printed before it failed is *)
(* right, and the last group lacks nothing but the row of the cut line.    *)
(***************************************************************************)
THEOREM FailureCuts == Spec => []FailureCutsReport
<1>1. ShownInv => FailureCutsReport
  BY FailedShared DEF ShownInv
<1> QED
  BY <1>1, ShownAlways, PTL
=============================================================================
