--------------------------- MODULE IntTraceProofs ---------------------------
(***************************************************************************)
(* Proofs about the tracing runtime, for any number of threads, any number *)
(* of probes, any buffer size and any set of faults.                       *)
(***************************************************************************)
EXTENDS IntTrace, SequenceTheorems, TLAPS

\* A thread inside a probe call has made at least one.
CallCounted == \A t \in Threads : pc[t] \in ProbePCs => count[t] > 0

LEMMA EventType ==
  ASSUME TypeOK, CallCounted, NEW t \in Threads, pc[t] \in ProbePCs
  PROVE  Event(t) \in Events
BY DEF TypeOK, CallCounted, Event, Events

(***************************************************************************)
(* Printing one field: the output grows by it, and the part that is not    *)
(* yet in the file stays smaller than the buffer.                          *)
(***************************************************************************)
LEMMA EmitTypeOK ==
  ASSUME TypeOK, NEW f \in Fields, Emit(f)
  PROVE  /\ out' \in Seq(Fields)
         /\ Len(out') = Len(out) + 1
         /\ flushed' \in 0 .. Len(out')
         /\ Len(out') - flushed' < BufSize
<1>1. out \in Seq(Fields) /\ Len(out) \in Nat /\ flushed \in 0 .. Len(out)
      /\ Len(out) - flushed < BufSize
  BY DEF TypeOK
<1>2. out' = Append(out, f) /\ out' \in Seq(Fields) /\ Len(out') = Len(out) + 1
  BY <1>1, AppendProperties DEF Emit
<1>3. flushed' = IF Len(out) + 1 - flushed >= BufSize THEN Len(out) + 1 ELSE flushed
  BY DEF Emit
<1>4. CASE Len(out) + 1 - flushed >= BufSize
  <2>1. flushed' = Len(out')
    BY <1>2, <1>3, <1>4
  <2>2. flushed' \in 0 .. Len(out') /\ Len(out') - flushed' = 0
    BY <1>1, <1>2, <2>1
  <2> QED
    BY <1>2, <2>2, BoundsAssumption
<1>5. CASE ~(Len(out) + 1 - flushed >= BufSize)
  <2>1. flushed' = flushed
    BY <1>3, <1>5
  <2> QED
    BY <1>1, <1>2, <1>5, <2>1, BoundsAssumption
<1> QED
  BY <1>4, <1>5

\* What a dying process leaves behind is a first part of what was printed.
LEMMA DieTypeOK ==
  ASSUME TypeOK, Die
  PROVE  /\ TypeOK'
         /\ Len(out') = flushed
         /\ \A i \in 1 .. flushed : out'[i] = out[i]
<1>1. out \in Seq(Fields) /\ Len(out) \in Nat /\ flushed \in 0 .. Len(out)
  BY DEF TypeOK
<1>2. out' = SubSeq(out, 1, flushed)
  BY DEF Die
<1>3. /\ out' \in Seq(Fields) 
      /\ Len(out') = flushed
      /\ \A i \in 1 .. flushed : out'[i] = out[i]
  BY <1>1, <1>2, SubSeqProperties
<1> QED
  BY <1>1, <1>3, BoundsAssumption DEF TypeOK, Die, history

(***************************************************************************)
(* Type correctness.  The induction needs that a thread inside a probe     *)
(* call has been counted, for its line to report an event.                 *)
(***************************************************************************)
LEMMA TypeStep ==
  ASSUME TypeOK, CallCounted, [Next]_vars
  PROVE  TypeOK' /\ CallCounted'
<1> USE ThreadsAssumption
<1>1. ASSUME InitStep PROVE TypeOK' /\ CallCounted'
  BY <1>1 DEF InitStep, InitLock, InitFopen, InitUnlock, InitAtexit, CallCounted,
     TypeOK, Goto, PCs, InitPCs, ProbePCs, Acquire, Release, stream, history
<1>2. ASSUME FinalStep PROVE TypeOK' /\ CallCounted'
  <2>1. CASE FinalFclose
    BY <2>1, BoundsAssumption
       DEF FinalFclose, TypeOK, CallCounted, Goto, PCs, ProbePCs, FinalPCs, history
  <2>2. CASE FinalFcloseDies
    BY <2>2, DieTypeOK DEF FinalFcloseDies, Die, CallCounted, history
  <2> QED
    BY <1>2, <2>1, <2>2 DEF FinalStep, FinalLock, FinalUnlock, FinalFcloseNull,
       CallCounted, ProcessExit, TypeOK, Goto, PCs, FinalPCs, ProbePCs,
       Acquire, Release, stream, history
<1>3. ASSUME NEW t \in Threads, ProbeStep(t) PROVE TypeOK' /\ CallCounted'
  <2>1. CASE ProbePrint(t)
    <3>1. pc[t] \in ProbePCs
      BY <2>1 DEF ProbePrint, Goto, ProbePCs
    <3>2. [ev |-> Event(t), field |-> printed[t] + 1] \in Fields
      BY <3>1, EventType DEF Fields, FieldsPerLine, TypeOK
    <3>3. /\ out' \in Seq(Fields)
          /\ flushed' \in 0 .. Len(out')
          /\ Len(out') - flushed' < BufSize
      BY <2>1, <3>2, EmitTypeOK DEF ProbePrint
    <3>4. pc' \in [Threads -> PCs] /\ printed' \in [Threads -> 0 .. FieldsPerLine - 1]
      <4>1. printed[t] \in 0 .. 4 /\ printed \in [Threads -> 0 .. 4]
        BY DEF TypeOK, FieldsPerLine
      <4>2. /\ proc = "up" /\ pc[t] = "probe_fprintf"
            /\ \/ /\ pc' = [pc EXCEPT ![t] = "probe_fprintf"]
                  /\ printed[t] + 1 < 5
                  /\ printed' = [printed EXCEPT ![t] = printed[t] + 1]
               \/ /\ pc' = [pc EXCEPT ![t] = "probe_unlock"]
                  /\ printed' = [printed EXCEPT ![t] = 0]
        BY <2>1 DEF ProbePrint, Goto, FieldsPerLine
      <4>3. pc' \in [Threads -> PCs]
        BY <4>2 DEF TypeOK, PCs, ProbePCs
      <4>4. printed' \in [Threads -> 0 .. 4]
        BY <4>1, <4>2
      <4> QED
        BY <4>3, <4>4 DEF FieldsPerLine
    <3>5. CallCounted'
      BY <2>1, <3>1 DEF ProbePrint, CallCounted, TypeOK, Goto, ProbePCs, history
    <3> QED
      BY <2>1, <3>3, <3>4, <3>5 DEF ProbePrint, TypeOK, history
  <2>2. CASE ProbePrintDies(t)
    BY <2>2, DieTypeOK DEF ProbePrintDies, Die, CallCounted, history
  <2>3. CASE ProbeLock(t)
    BY <2>3 DEF ProbeLock, TypeOK, CallCounted, Goto, PCs, ProbePCs, Acquire, stream, history
  <2>4. CASE ProbeUnlock(t)
    <3>1. Event(t) \in Events
      BY <2>4, EventType DEF ProbeUnlock, Goto, ProbePCs
    <3> QED
      BY <2>4, <3>1
         DEF ProbeUnlock, TypeOK, CallCounted, Goto, PCs, ProbePCs, Release, stream
  <2>5. CASE ProbePrintNowhere(t)
    <3>1. Event(t) \in Events
      BY <2>5, EventType DEF ProbePrintNowhere, Goto, ProbePCs
    <3> QED
      BY <2>5, <3>1 DEF ProbePrintNowhere, TypeOK, CallCounted, Goto, PCs, ProbePCs, stream
  <2> QED
    BY <1>3, <2>1, <2>2, <2>3, <2>4, <2>5 DEF ProbeStep
<1>4. ASSUME AppStep PROVE TypeOK' /\ CallCounted'
  <2>1. ASSUME NEW t \in Threads, ProbeCall(t) PROVE TypeOK' /\ CallCounted'
    <3>1. count[t] + 1 \in 1 .. MaxProbes /\ <<t, count[t] + 1>> \in Events
      BY <2>1, BoundsAssumption DEF ProbeCall, TypeOK, Events
    <3>2. /\ count' \in [Threads -> 0 .. MaxProbes]
          /\ before' \in [Events -> SUBSET Events]
      BY <2>1, <3>1, BoundsAssumption DEF ProbeCall, TypeOK
    <3>3. CallCounted'
      BY <2>1, <3>1 DEF ProbeCall, TypeOK, CallCounted, Goto, ProbePCs
    <3> QED
      BY <2>1, <3>2, <3>3 DEF ProbeCall, TypeOK, Goto, PCs, ProbePCs, stream
  <2>2. ASSUME NEW t \in Threads, Crash(t) PROVE TypeOK' /\ CallCounted'
    BY <2>2, DieTypeOK DEF Crash, Die, CallCounted, history
  <2>3. ASSUME NEW t \in Threads, ThreadReturn(t) PROVE TypeOK' /\ CallCounted'
    BY <2>3 DEF ThreadReturn, TypeOK, CallCounted, Goto, PCs, ProbePCs, stream, history
  <2>4. ASSUME NEW t \in Threads, NEW u \in Threads, Spawn(t, u)
        PROVE  TypeOK' /\ CallCounted'
    BY <2>4 DEF Spawn, TypeOK, CallCounted, PCs, ProbePCs, stream, history
  <2>5. CASE MainReturn
    BY <2>5
       DEF MainReturn, TypeOK, CallCounted, Goto, PCs, FinalPCs, ProbePCs, stream, history
  <2> QED
    BY <1>4, <2>1, <2>2, <2>3, <2>4, <2>5 DEF AppStep
<1>5. ASSUME Ended \/ UNCHANGED vars PROVE TypeOK' /\ CallCounted'
  BY <1>5 DEF Ended, vars, TypeOK, CallCounted
<1> QED
  BY <1>1, <1>2, <1>3, <1>4, <1>5 DEF Next

\* Types, and that a thread inside a probe call has made one, in every process.
THEOREM TypeCorrect == Spec => [](TypeOK /\ CallCounted)
<1>1. Init => TypeOK /\ CallCounted
  <2> SUFFICES ASSUME Init PROVE TypeOK /\ CallCounted
    OBVIOUS
  <2>1. out \in Seq(Fields) /\ Len(out) = 0
    BY EmptySeq DEF Init
  <2>2. pc \in [Threads -> PCs] /\ CallCounted
    BY ThreadsAssumption DEF Init, PCs, InitPCs, ProbePCs, CallCounted
  <2>3. flushed \in 0 .. Len(out) /\ Len(out) - flushed < BufSize
    BY <2>1, BoundsAssumption DEF Init
  <2>4. /\ printed \in [Threads -> 0 .. FieldsPerLine - 1]
        /\ count \in [Threads -> 0 .. MaxProbes]
    BY BoundsAssumption DEF Init, FieldsPerLine
  <2> QED
    BY <2>1, <2>2, <2>3, <2>4, FaultsAssumption DEF Init, TypeOK
<1>2. TypeOK /\ CallCounted /\ [Next]_vars => (TypeOK /\ CallCounted)'
  BY TypeStep
<1> QED
  BY <1>1, <1>2, PTL DEF Spec

\* IntTrace!TypeOK holds of every process, whatever its faults.
THEOREM TypeInvariant == Spec => []TypeOK
BY TypeCorrect, PTL

-----------------------------------------------------------------------------
(***************************************************************************)
(* Whole lines.  WholeLines alone is not inductive: that the next field    *)
(* fits the last one follows from who holds fp_lock (LockOwner) and from   *)
(* how far the line of that thread is (LineState).                         *)
(***************************************************************************)

\* The owner of fp_lock is the thread in a critical section.
LockOwner == \A t \in Threads : pc[t] \in Critical <=> lock = t

\* Only a thread inside fprintf has an incomplete line, in an open stream.
PrintedOpen ==
  \A t \in Threads : printed[t] # 0 => pc[t] = "probe_fprintf" /\ fp = "open"

\* The last line of a living process is the current line of the printer.
LineState ==
  proc = "up" =>
    /\ \A t \in Threads : pc[t] = "probe_fprintf" =>
         /\ Len(out) % FieldsPerLine = printed[t]
         /\ printed[t] # 0 => out[Len(out)].ev = Event(t)
    /\ (\A t \in Threads : pc[t] # "probe_fprintf") => Len(out) % FieldsPerLine = 0

LineInv == LockOwner /\ PrintedOpen /\ LineState /\ WholeLines

LEMMA NextField ==
  ASSUME NEW n \in Nat
  PROVE  /\ n % 5 \in 0 .. 4
         /\ n % 5 < 4 => (n + 1) % 5 = (n % 5) + 1
         /\ n % 5 = 4 => (n + 1) % 5 = 0
OBVIOUS

\* A step that prints nothing, and enters or leaves no fprintf.
LEMMA LineStutter ==
  ASSUME TypeOK, LineState, WholeLines, proc = "up",
         UNCHANGED <<out, printed>>,
         \A t \in Threads : pc'[t] = "probe_fprintf" <=> pc[t] = "probe_fprintf",
         \A t \in Threads : pc[t] = "probe_fprintf" => count'[t] = count[t]
  PROVE  LineState' /\ WholeLines'
BY DEF LineState, WholeLines, Event

\* A dying process keeps whole lines, the last of them possibly cut short.
LEMMA DieLines ==
  ASSUME TypeOK, LineInv, Die
  PROVE  LineInv'
<1>1. /\ Len(out') = flushed
      /\ \A i \in 1 .. flushed : out'[i] = out[i]
      /\ flushed \in 0 .. Len(out) /\ Len(out) \in Nat
  BY DieTypeOK DEF TypeOK
<1>2. WholeLines'
  <2> SUFFICES ASSUME NEW i \in 1 .. flushed
               PROVE  /\ out'[i].field = ((i - 1) % FieldsPerLine) + 1
                      /\ out'[i].field > 1 => out'[i].ev = out'[i - 1].ev
    BY <1>1 DEF WholeLines
  <2>1. out'[i] = out[i] /\ i \in 1 .. Len(out)
    BY <1>1
  <2>2. CASE i = 1
    BY <2>1, <2>2 DEF LineInv, WholeLines, FieldsPerLine
  <2>3. CASE i # 1
    <3>1. out'[i - 1] = out[i - 1]
      BY <1>1, <2>3
    <3> QED
      BY <2>1, <3>1 DEF LineInv, WholeLines
  <2> QED
    BY <2>2, <2>3
<1>3. LockOwner' /\ PrintedOpen' /\ LineState'
  BY DEF LineInv, Die, LockOwner, PrintedOpen, LineState
<1> QED
  BY <1>2, <1>3 DEF LineInv

\* A step of thread t that only moves it between statements, and may take or
\* give back fp_lock, but neither enters nor leaves fprintf.
LEMMA LineMove ==
  ASSUME TypeOK, LineInv, NEW t \in Threads, proc = "up",
         UNCHANGED <<proc, fp, out, printed>>, 
         pc' \in [Threads -> PCs],
         pc[t] # "probe_fprintf", pc'[t] # "probe_fprintf",
         \A u \in Threads \ {t} : pc'[u] = pc[u],
         \A u \in Threads \ {t} : count'[u] = count[u],
         \/ lock' = lock /\ (pc[t] \in Critical <=> pc'[t] \in Critical)
         \/ Acquire(t) /\ pc[t] \notin Critical /\ pc'[t] \in Critical
         \/ Release /\ pc[t] \in Critical /\ pc'[t] \notin Critical
  PROVE  LineInv'
<1>1. LockOwner'
  BY ThreadsAssumption DEF LineInv, LockOwner, TypeOK, Acquire, Release
<1>2. PrintedOpen'
  BY DEF LineInv, PrintedOpen
<1>3. \A u \in Threads : pc'[u] = "probe_fprintf" <=> pc[u] = "probe_fprintf"
  OBVIOUS
<1>4. \A u \in Threads : pc[u] = "probe_fprintf" => count'[u] = count[u]
  OBVIOUS
<1> QED
  BY <1>1, <1>2, <1>3, <1>4, LineStutter DEF LineInv

\* fprintf prints the next field of the line its thread is at.
LEMMA LinePrint ==
  ASSUME TypeOK, TypeOK', CallCounted, LineInv, NEW t \in Threads, ProbePrint(t)
  PROVE  LineInv'
<1> DEFINE n == Len(out)
           f == [ev |-> Event(t), field |-> printed[t] + 1]
<1>1. /\ proc = "up" /\ pc[t] = "probe_fprintf" /\ fp = "open"
      /\ UNCHANGED <<proc, lock, fp, count>>
      /\ out' = Append(out, f)
      /\ \/ /\ printed[t] + 1 < 5
            /\ pc' = [pc EXCEPT ![t] = "probe_fprintf"]
            /\ printed' = [printed EXCEPT ![t] = printed[t] + 1]
         \/ /\ ~(printed[t] + 1 < 5)
            /\ pc' = [pc EXCEPT ![t] = "probe_unlock"]
            /\ printed' = [printed EXCEPT ![t] = 0]
  BY DEF ProbePrint, Goto, Emit, FieldsPerLine, history
<1>2. f \in Fields /\ out \in Seq(Fields) /\ n \in Nat /\ printed[t] \in 0 .. 4
  BY <1>1, EventType DEF Fields, FieldsPerLine, TypeOK, ProbePCs
<1>3. /\ Len(out') = n + 1
      /\ out'[n + 1] = f
      /\ \A i \in 1 .. n : out'[i] = out[i]
  BY <1>1, <1>2, AppendProperties
<1>4. n % 5 = printed[t] /\ (printed[t] # 0 => out[n].ev = Event(t))
  BY <1>1 DEF LineInv, LineState, FieldsPerLine
<1>5. \A u \in Threads \ {t} : pc[u] \notin Critical /\ printed[u] = 0
  BY <1>1 DEF LineInv, LockOwner, PrintedOpen, Critical
<1>6. Event(t)' = Event(t)
  BY <1>1 DEF Event
<1>7. WholeLines'
  <2> SUFFICES ASSUME NEW i \in 1 .. n + 1
               PROVE  /\ out'[i].field = ((i - 1) % 5) + 1
                      /\ out'[i].field > 1 => out'[i].ev = out'[i - 1].ev
    BY <1>3 DEF WholeLines, FieldsPerLine
  <2>1. CASE i = n + 1
    <3>1. i - 1 = n /\ out'[i] = f
      BY <1>2, <1>3, <2>1
    <3>2. out'[i].field = ((i - 1) % 5) + 1
      BY <1>4, <3>1
    <3>3. ASSUME out'[i].field > 1 PROVE out'[i].ev = out'[i - 1].ev
      <4>1. printed[t] # 0 /\ n # 0
        BY <1>2, <1>4, <3>1, <3>3
      <4>2. out'[n] = out[n]
        BY <1>2, <1>3, <4>1
      <4> QED
        BY <1>4, <3>1, <4>1, <4>2
    <3> QED
      BY <3>2, <3>3
  <2>2. CASE i \in 1 .. n
    <3>1. /\ out[i].field = ((i - 1) % 5) + 1
          /\ out[i].field > 1 => out[i].ev = out[i - 1].ev
      BY <2>2 DEF LineInv, WholeLines, FieldsPerLine
    <3>2. CASE i = 1
      BY <1>3, <2>2, <3>1, <3>2
    <3>3. CASE i # 1
      <4>1. out'[i] = out[i] /\ out'[i - 1] = out[i - 1]
        BY <1>2, <1>3, <2>2, <3>3
      <4> QED
        BY <3>1, <4>1
    <3> QED
      BY <3>2, <3>3
  <2> QED
    BY <1>2, <2>1, <2>2
<1>8. LockOwner'
  BY <1>1 DEF LineInv, LockOwner, Critical, TypeOK
<1>9. PrintedOpen'
  BY <1>1, <1>5 DEF PrintedOpen, TypeOK
<1>10. LineState'
  <2>1. CASE printed[t] + 1 < 5
    <3>1. /\ pc'[t] = "probe_fprintf"
          /\ \A u \in Threads \ {t} : pc'[u] # "probe_fprintf"
          /\ printed'[t] = printed[t] + 1
      BY <1>1, <1>5, <2>1 DEF TypeOK, Critical
    <3>2. (n + 1) % 5 = printed'[t]
      BY <1>2, <1>4, <2>1, <3>1, NextField
    <3>3. out'[n + 1].ev = Event(t)'
      BY <1>3, <1>6
    <3> QED
      <4>1. \A u \in Threads : pc'[u] = "probe_fprintf" <=> u = t
        BY <3>1
      <4>2. Len(out') % 5 = printed'[t] /\ out'[Len(out')].ev = Event(t)'
        BY <1>3, <3>2, <3>3
      <4> QED
        BY <4>1, <4>2 DEF LineState, FieldsPerLine
  <2>2. CASE ~(printed[t] + 1 < 5)
    <3>1. \A u \in Threads : pc'[u] # "probe_fprintf"
      BY <1>1, <1>5, <2>2 DEF TypeOK, Critical
    <3>2. (n + 1) % 5 = 0
      BY <1>2, <1>4, <2>2, NextField
    <3> QED
      BY <1>3, <3>1, <3>2 DEF LineState, FieldsPerLine
  <2> QED
    BY <2>1, <2>2
<1> QED
  BY <1>7, <1>8, <1>9, <1>10 DEF LineInv

LEMMA LineStep ==
  ASSUME TypeOK, TypeOK', CallCounted, LineInv, [Next]_vars
  PROVE  LineInv'
<1> USE ThreadsAssumption
<1> USE DEF PCs, InitPCs, ProbePCs, FinalPCs, Critical
<1>1. CASE InitStep
  <2>1. CASE InitLock
    BY <2>1, LineMove DEF InitLock, Goto, TypeOK, stream, history
  <2>2. CASE InitUnlock
    BY <2>2, LineMove DEF InitUnlock, Goto, TypeOK, stream, history
  <2>3. CASE InitAtexit
    BY <2>3, LineMove DEF InitAtexit, Goto, TypeOK, stream, history
  <2>4. CASE InitFopen
    <3>1. \A t \in Threads : pc[t] # "probe_fprintf" /\ printed[t] = 0
      BY <2>4 DEF InitFopen, Goto, TypeOK, LineInv, LockOwner, PrintedOpen
    <3>2. LockOwner' /\ PrintedOpen'
      BY <2>4, <3>1 DEF InitFopen, Goto, TypeOK, LineInv, LockOwner, PrintedOpen
    <3> QED
      BY <2>4, <3>1, <3>2, LineStutter DEF InitFopen, Goto, TypeOK, LineInv, history
  <2> QED
    BY <1>1, <2>1, <2>2, <2>3, <2>4 DEF InitStep
<1>2. CASE FinalStep
  <2>1. CASE FinalLock
    BY <2>1, LineMove DEF FinalLock, Goto, TypeOK, stream, history
  <2>2. CASE FinalUnlock
    BY <2>2, LineMove DEF FinalUnlock, Goto, TypeOK, stream, history
  <2>3. CASE FinalFcloseNull
    BY <2>3, LineMove DEF FinalFcloseNull, Goto, TypeOK, stream, history
  <2>4. CASE FinalFclose
    <3>1. \A t \in Threads : pc[t] # "probe_fprintf" /\ printed[t] = 0
      BY <2>4 DEF FinalFclose, Goto, TypeOK, LineInv, LockOwner, PrintedOpen
    <3>2. LockOwner' /\ PrintedOpen'
      BY <2>4, <3>1 DEF FinalFclose, Goto, TypeOK, LineInv, LockOwner, PrintedOpen
    <3> QED
      BY <2>4, <3>1, <3>2, LineStutter DEF FinalFclose, Goto, TypeOK, LineInv, history
  <2>5. CASE FinalFcloseDies
    BY <2>5, DieLines DEF FinalFcloseDies
  <2>6. CASE ProcessExit
    BY <2>6 DEF ProcessExit, LineInv, LockOwner, PrintedOpen, LineState, WholeLines,
       stream, history
  <2> QED
    BY <1>2, <2>1, <2>2, <2>3, <2>4, <2>5, <2>6 DEF FinalStep
<1>3. ASSUME NEW t \in Threads, ProbeStep(t) PROVE LineInv'
  <2>1. CASE ProbeLock(t)
    <3>1. \A u \in Threads : pc[u] # "probe_fprintf" /\ printed[u] = 0
      BY <2>1 DEF ProbeLock, Acquire, Goto, TypeOK, LineInv, LockOwner, PrintedOpen
    <3>2. LockOwner' /\ PrintedOpen'
      BY <2>1, <3>1
         DEF ProbeLock, Acquire, Goto, TypeOK, LineInv, LockOwner, PrintedOpen, stream
    <3>3. LineState' /\ WholeLines'
      BY <2>1, <3>1 DEF ProbeLock, Goto, TypeOK, LineInv, LineState, WholeLines, stream
    <3> QED
      BY <3>2, <3>3 DEF LineInv
  <2>2. CASE ProbePrint(t)
    BY <2>2, LinePrint
  <2>3. CASE ProbePrintNowhere(t)
    <3>1. \A u \in Threads : printed[u] = 0
      BY <2>3 DEF ProbePrintNowhere, LineInv, PrintedOpen
    <3>2. \A u \in Threads : u # t => pc[u] \notin Critical
      BY <2>3 DEF ProbePrintNowhere, Goto, LineInv, LockOwner
    <3>3. LockOwner' /\ PrintedOpen'
      BY <2>3, <3>1, <3>2
         DEF ProbePrintNowhere, Goto, TypeOK, LineInv, LockOwner, PrintedOpen, stream
    <3>4. LineState' /\ WholeLines'
      BY <2>3, <3>1, <3>2
         DEF ProbePrintNowhere, Goto, TypeOK, LineInv, LineState, WholeLines, stream
    <3> QED
      BY <3>3, <3>4 DEF LineInv
  <2>4. CASE ProbePrintDies(t)
    BY <2>4, DieLines DEF ProbePrintDies
  <2>5. CASE ProbeUnlock(t)
    BY <2>5, LineMove DEF ProbeUnlock, Goto, TypeOK, stream
  <2> QED
    BY <1>3, <2>1, <2>2, <2>3, <2>4, <2>5 DEF ProbeStep
<1>4. CASE AppStep
  <2>1. ASSUME NEW t \in Threads, ProbeCall(t) PROVE LineInv'
    BY <2>1, LineMove DEF ProbeCall, Goto, TypeOK, stream
  <2>2. ASSUME NEW t \in Threads, ThreadReturn(t) PROVE LineInv'
    BY <2>2, LineMove DEF ThreadReturn, Goto, TypeOK, stream, history
  <2>3. ASSUME NEW t \in Threads, Crash(t) PROVE LineInv'
    BY <2>3, DieLines DEF Crash
  <2>4. ASSUME NEW t \in Threads, NEW u \in Threads, Spawn(t, u) PROVE LineInv'
    BY <2>4, LineMove DEF Spawn, TypeOK, stream, history
  <2>5. CASE MainReturn
    BY <2>5, LineMove DEF MainReturn, Goto, TypeOK, stream, history
  <2> QED
    BY <1>4, <2>1, <2>2, <2>3, <2>4, <2>5 DEF AppStep
<1>5. CASE Ended \/ UNCHANGED vars
  BY <1>5 DEF Ended, vars, stream, history, LineInv, LockOwner, PrintedOpen, LineState,
     WholeLines, Event
<1> QED
  BY <1>1, <1>2, <1>3, <1>4, <1>5 DEF Next

LEMMA LineInvariant == Spec => []LineInv
<1>1. Init => LineInv
  <2> SUFFICES ASSUME Init PROVE LineInv
    OBVIOUS
  <2>1. Len(out) = 0
    BY EmptySeq DEF Init
  <2> QED
    BY <2>1, ThreadsAssumption
       DEF Init, LineInv, LockOwner, PrintedOpen, LineState, WholeLines, Critical, FieldsPerLine
<1>2. TypeOK /\ CallCounted /\ LineInv /\ TypeOK' /\ [Next]_vars => LineInv'
  BY LineStep
<1> QED
  BY <1>1, <1>2, TypeCorrect, PTL DEF Spec

(***************************************************************************)
(* IntTrace!WholeLines holds of every process: fp_lock keeps the lines of  *)
(* all threads apart, whatever the number of threads, the size of the      *)
(* buffer, and wherever the process dies.                                  *)
(***************************************************************************)
THEOREM LinesAreWhole == Spec => []WholeLines
<1>1. LineInv => WholeLines
  BY DEF LineInv
<1> QED
  BY <1>1, LineInvariant, PTL

-----------------------------------------------------------------------------
(***************************************************************************)
(* What the log contains and in which order, that the runtime implements   *)
(* EventLog, and that a clean process uses its stream only while it is     *)
(* open.                                                                   *)
(***************************************************************************)

(* The inductive invariants *)

\* The probe call of event e has come behind its fprintf.
Passed(e) ==
  \/ e[2] < count[e[1]]
  \/ e[2] = count[e[1]] /\ pc[e[1]] \notin {"probe_lock", "probe_fprintf"}

\* What a living process has in its log: one line for every event that has passed.
PassedLogged ==
  proc # "crashed" =>
    /\ \A e \in Events : e \in Logged <=> Passed(e) /\ e \notin dropped
    /\ \A e \in dropped \cup returned : Passed(e)
    /\ \A e \in Events : before[e] \subseteq returned

LineOnce == \A i, j \in 1 .. Len(Lines) : Lines[i] = Lines[j] => i = j

\* The life of the stream.
StreamInv ==
  /\ pc[Main] \in {"init_lock", "init_fopen"} => fp = "NULL"
  /\ fp = "NULL" => Len(out) = 0
  /\ fp = "closed" => flushed = Len(out) /\ Len(out) % FieldsPerLine = 0

\* A clean process: who may be where, and what the stream is like then.
CleanInv ==
  Clean =>
    /\ dropped = {} /\ proc # "crashed"
    /\ pc[Main] \notin {"unborn", "done"}
    /\ pc[Main] \in InitPCs \cup FinalPCs \cup {"exit"} =>
         \A t \in Threads \ {Main} : pc[t] \in {"unborn", "done"}
    /\ pc[Main] \in {"init_unlock", "init_atexit", "app", "final_lock", "final_fclose"} \cup ProbePCs =>
         fp = "open"
    /\ pc[Main] \in {"final_unlock", "exit"} => fp = "closed"
    /\ pc[Main] \notin InitPCs => handlers
    /\ proc = "exited" => pc[Main] = "exit"

-----------------------------------------------------------------------------
(* How a step changes the lines *)

LEMMA DivFive ==
  ASSUME NEW n \in Nat
  PROVE  /\ n \div 5 \in Nat
         /\ 5 * (n \div 5) <= n
         /\ \A i \in 1 .. (n \div 5) : 5 * i \in 1 .. n
         /\ n % 5 < 4 => (n + 1) \div 5 = n \div 5
         /\ n % 5 = 4 => /\ (n + 1) \div 5 = (n \div 5) + 1
                         /\ 5 * ((n \div 5) + 1) = n + 1
         /\ \A m \in 0 .. n : m \div 5 \in 0 .. (n \div 5)
OBVIOUS

LEMMA LinesOf ==
  ASSUME NEW s \in Seq(Fields),
         NEW ls, ls = [i \in 1 .. (Len(s) \div 5) |-> s[5 * i].ev]
  PROVE  /\ ls \in Seq(Events)
         /\ Len(ls) = Len(s) \div 5
         /\ Len(ls) \in Nat
         /\ \A i \in 1 .. Len(ls) : 5 * i \in 1 .. Len(s) /\ ls[i] = s[5 * i].ev
<1> DEFINE k == Len(s) \div 5
<1>1. Len(s) \in Nat
  OBVIOUS
<1>2. k \in Nat /\ \A i \in 1 .. k : 5 * i \in 1 .. Len(s)
  BY <1>1, DivFive
<1>3. \A f \in Fields : f.ev \in Events
  BY DEF Fields
<1>4. \A i \in 1 .. Len(s) : s[i] \in Fields
  OBVIOUS
<1> HIDE DEF k
<1>5. ls = [i \in 1 .. k |-> s[5 * i].ev]
  BY DEF k
<1>6. ls \in [1 .. k -> Events]
  BY <1>2, <1>3, <1>4, <1>5
<1>7. ls \in Seq(Events) /\ Len(ls) = k
  BY <1>2, <1>6
<1> QED
  BY <1>2, <1>5, <1>7 DEF k

LEMMA LinesType ==
  ASSUME TypeOK
  PROVE  /\ Lines \in Seq(Events)
         /\ Len(Lines) = Len(out) \div 5
         /\ Len(Lines) \in Nat
         /\ \A i \in 1 .. Len(Lines) : 5 * i \in 1 .. Len(out) /\ Lines[i] = out[5 * i].ev
<1>1. Lines = [i \in 1 .. (Len(out) \div 5) |-> out[5 * i].ev]
  BY DEF Lines, FieldsPerLine
<1>2. out \in Seq(Fields)
  BY DEF TypeOK
<1> QED
  BY <1>1, <1>2, LinesOf

LEMMA LinesTypeNext ==
  ASSUME TypeOK'
  PROVE  /\ Lines' \in Seq(Events)
         /\ Len(Lines') = Len(out') \div 5
         /\ Len(Lines') \in Nat
         /\ \A i \in 1 .. Len(Lines') : 5 * i \in 1 .. Len(out') /\ Lines'[i] = out'[5 * i].ev
<1>1. Lines' = [i \in 1 .. (Len(out') \div 5) |-> out'[5 * i].ev]
  BY DEF Lines, FieldsPerLine
<1>2. out' \in Seq(Fields)
  BY DEF TypeOK, Fields, Events
<1> QED
  BY <1>1, <1>2, LinesOf

\* A field that is not the last of its line changes no line.
LEMMA PrintPart ==
  ASSUME TypeOK, TypeOK', CallCounted, LineInv,
         NEW t \in Threads, ProbePrint(t), printed[t] + 1 < 5
  PROVE  Lines' = Lines
<1> DEFINE n == Len(out)
           f == [ev |-> Event(t), field |-> printed[t] + 1]
<1>1. /\ proc = "up" /\ pc[t] = "probe_fprintf" /\ out' = Append(out, f)
  BY DEF ProbePrint, Goto, Emit
<1>2. f \in Fields /\ out \in Seq(Fields) /\ n \in Nat /\ printed[t] \in 0 .. 4
  BY <1>1, EventType DEF Fields, FieldsPerLine, TypeOK, ProbePCs
<1>3. Len(out') = n + 1 /\ \A i \in 1 .. n : out'[i] = out[i]
  BY <1>1, <1>2, AppendProperties
<1>4. n % 5 = printed[t]
  BY <1>1 DEF LineInv, LineState, FieldsPerLine
<1>5. (n + 1) \div 5 = n \div 5 /\ \A i \in 1 .. (n \div 5) : 5 * i \in 1 .. n
  BY <1>2, <1>4, DivFive
<1> QED
  BY <1>3, <1>5 DEF Lines, FieldsPerLine

\* The last field of a line appends the event of its thread.
LEMMA PrintLast ==
  ASSUME TypeOK, TypeOK', CallCounted, LineInv,
         NEW t \in Threads, ProbePrint(t), ~(printed[t] + 1 < 5)
  PROVE  Lines' = Append(Lines, Event(t))
<1> DEFINE n == Len(out)
           k == n \div 5
           f == [ev |-> Event(t), field |-> printed[t] + 1]
<1>1. /\ proc = "up" /\ pc[t] = "probe_fprintf" /\ out' = Append(out, f)
  BY DEF ProbePrint, Goto, Emit
<1>2. /\ f \in Fields /\ out \in Seq(Fields) /\ n \in Nat
      /\ printed[t] \in 0 .. 4 /\ Event(t) \in Events
  BY <1>1, EventType DEF Fields, FieldsPerLine, TypeOK, ProbePCs
<1>3. Len(out') = n + 1 /\ out'[n + 1] = f /\ \A i \in 1 .. n : out'[i] = out[i]
  BY <1>1, <1>2, AppendProperties
<1>4. n % 5 = printed[t]
  BY <1>1 DEF LineInv, LineState, FieldsPerLine
<1>5. /\ (n + 1) \div 5 = k + 1
      /\ 5 * (k + 1) = n + 1
      /\ k \in Nat
      /\ \A i \in 1 .. k : 5 * i \in 1 .. n
  <2>1. n % 5 = 4
    BY <1>2, <1>4
  <2> QED
    BY <1>2, <2>1, DivFive
<1>6. /\ Lines \in Seq(Events) /\ Len(Lines) = k
      /\ \A i \in 1 .. k : Lines[i] = out[5 * i].ev
  BY LinesType
<1>7. /\ Lines' \in Seq(Events) /\ Len(Lines') = k + 1
      /\ \A i \in 1 .. k + 1 : Lines'[i] = out'[5 * i].ev
  BY <1>3, <1>5, LinesTypeNext
<1>8. \A i \in 1 .. k : Lines'[i] = Lines[i]
  BY <1>3, <1>5, <1>6, <1>7
<1>9. Lines'[k + 1] = Event(t)
  BY <1>3, <1>5, <1>7
<1> HIDE DEF k
<1>10. /\ Append(Lines, Event(t)) \in Seq(Events)
       /\ Len(Append(Lines, Event(t))) = k + 1
       /\ \A i \in 1 .. k : Append(Lines, Event(t))[i] = Lines[i]
       /\ Append(Lines, Event(t))[k + 1] = Event(t)
  BY <1>2, <1>6, AppendProperties
<1>11. \A i \in 1 .. k + 1 : Lines'[i] = Append(Lines, Event(t))[i]
  BY <1>5, <1>8, <1>9, <1>10
<1> QED
  BY <1>7, <1>10, <1>11, SeqEqual

\* A dying process leaves a first part of its lines.
LEMMA DieKeeps ==
  ASSUME TypeOK, Die
  PROVE  /\ flushed \div 5 \in 0 .. Len(Lines)
         /\ Lines' = SubSeq(Lines, 1, flushed \div 5)
<1> DEFINE k == flushed \div 5
<1>1. /\ Len(out') = flushed /\ flushed \in 0 .. Len(out) /\ Len(out) \in Nat
      /\ \A i \in 1 .. flushed : out'[i] = out[i]
  BY DieTypeOK DEF TypeOK
<1>2. /\ Lines \in Seq(Events) /\ Len(Lines) = Len(out) \div 5
      /\ \A i \in 1 .. Len(Lines) : Lines[i] = out[5 * i].ev
  BY LinesType
<1>3. /\ k \in 0 .. Len(Lines)
      /\ \A i \in 1 .. k : 5 * i \in 1 .. flushed
  BY <1>1, <1>2, DivFive
<1>4. Lines' = [i \in 1 .. k |-> out'[5 * i].ev]
  BY <1>1 DEF Lines, FieldsPerLine
<1> HIDE DEF k
<1>5. Lines' = [i \in 1 .. k |-> Lines[i]]
  BY <1>1, <1>2, <1>3, <1>4
<1>6. Lines' = SubSeq(Lines, 1, k)
  BY <1>2, <1>3, <1>5
<1> QED
  BY <1>3, <1>6 DEF k

-----------------------------------------------------------------------------
(* The life of the stream *)

LEMMA StreamStep ==
  ASSUME TypeOK, LineInv, StreamInv, [Next]_vars
  PROVE  StreamInv'
<1> USE ThreadsAssumption
<1>1. CASE InitStep
  BY <1>1 DEF InitStep, InitLock, InitFopen, InitUnlock, InitAtexit, StreamInv, Goto, stream,
     TypeOK
<1>2. CASE FinalFclose
  <2>1. \A t \in Threads : pc[t] # "probe_fprintf"
    BY <1>2 DEF FinalFclose, Goto, LineInv, LockOwner, Critical
  <2>2. Len(out) % FieldsPerLine = 0
    BY <1>2, <2>1 DEF FinalFclose, Goto, LineInv, LineState
  <2> QED
    BY <1>2, <2>2 DEF FinalFclose, StreamInv, Goto, TypeOK
<1>3. CASE FinalStep /\ ~FinalFclose /\ ~FinalFcloseDies
  BY <1>3 DEF FinalStep, FinalLock, FinalUnlock, FinalFcloseNull, ProcessExit, StreamInv,
     Goto, stream, TypeOK
<1>4. ASSUME NEW t \in Threads, ProbePrint(t) PROVE StreamInv'
  BY <1>4 DEF ProbePrint, StreamInv, Goto, TypeOK
<1>5. ASSUME NEW t \in Threads, ProbeStep(t), ~ProbePrint(t), ~ProbePrintDies(t)
      PROVE  StreamInv'
  BY <1>5 DEF ProbeStep, ProbeLock, ProbeUnlock, ProbePrintNowhere, StreamInv, Goto, stream,
     TypeOK
<1>6. ASSUME NEW t \in Threads, ProbeCall(t) \/ ThreadReturn(t) PROVE StreamInv'
  BY <1>6 DEF ProbeCall, ThreadReturn, StreamInv, Goto, stream, TypeOK
<1>7. ASSUME NEW t \in Threads, NEW u \in Threads, Spawn(t, u) PROVE StreamInv'
  BY <1>7 DEF Spawn, StreamInv, stream, TypeOK
<1>8. CASE MainReturn
  BY <1>8 DEF MainReturn, StreamInv, Goto, stream, TypeOK
<1>9. ASSUME Die PROVE StreamInv'
  <2>1. Len(out') = flushed /\ flushed \in 0 .. Len(out)
    BY <1>9, DieTypeOK DEF TypeOK
  <2> QED
    BY <1>9, <2>1 DEF Die, StreamInv
<1>10. CASE Ended \/ UNCHANGED vars
  BY <1>10 DEF Ended, vars, StreamInv
<1>11. QED
  BY <1>1, <1>2, <1>3, <1>4, <1>5, <1>6, <1>7, <1>8, <1>9, <1>10
     DEF Next, FinalStep, ProbeStep, AppStep, FinalFcloseDies, ProbePrintDies, Crash

-----------------------------------------------------------------------------
(* The contents of the log *)

\* The parts of LogInv that a step which writes no line has to keep.
Contents == PassedLogged /\ LineOnce /\ RealTimeOrder /\ SealedComplete

\* All that a step needs to know of the state it is taken in.
LogInv == TypeOK /\ CallCounted /\ LineInv /\ StreamInv /\ Contents

LEMMA LoggedLines ==
  ASSUME TypeOK
  PROVE  /\ Logged \subseteq Events
         /\ \A e : e \in Logged <=> \E i \in 1 .. Len(Lines) : Lines[i] = e
<1>1. Lines \in Seq(Events)
  BY LinesType
<1> QED
  BY <1>1 DEF Logged

\* What the file has once it is closed follows from what the log has.
LEMMA ClosedComplete ==
  ASSUME TypeOK, StreamInv, PassedLogged, LineOnce, proc # "crashed"
  PROVE  SealedComplete
BY DEF SealedComplete, StreamInv, PassedLogged, LineOnce, TypeOK

\* A step of a thread between two statements, in which no line is written and
\* no probe call is made, returns, or comes behind its fprintf.
LEMMA ContentsMove ==
  ASSUME TypeOK, Contents, 
         UNCHANGED <<out, count, dropped, returned, before>>,
         proc # "crashed", proc' # "crashed",
         UNCHANGED <<flushed, fp>>,
         \A u \in Threads : pc'[u] \in {"probe_lock", "probe_fprintf"}
                            <=> pc[u] \in {"probe_lock", "probe_fprintf"}
  PROVE  Contents'
<1>1. Lines' = Lines /\ Logged' = Logged
  BY DEF Lines, Logged
<1>2. \A e \in Events : Passed(e)' <=> Passed(e)
  BY DEF Passed, Events
<1>3. PassedLogged'
  BY <1>1, <1>2 DEF Contents, PassedLogged, TypeOK, Events
<1> QED
  BY <1>1, <1>3 DEF Contents, LineOnce, RealTimeOrder, SealedComplete

\* A probe call is made.
LEMMA ContentsCall ==
  ASSUME TypeOK, Contents, NEW t \in Threads, ProbeCall(t)
  PROVE  Contents'
<1> DEFINE new == <<t, count[t] + 1>>
<1>1. Lines' = Lines /\ Logged' = Logged
  BY DEF ProbeCall, stream, Lines, Logged
<1>2. /\ proc = "up" /\ proc' = "up" /\ pc[t] = "app"
      /\ count' = [count EXCEPT ![t] = @ + 1]
      /\ pc' = [pc EXCEPT ![t] = "probe_lock"]
      /\ before' = [before EXCEPT ![new] = returned]
      /\ UNCHANGED <<dropped, returned, fp, flushed, out>>
  BY DEF ProbeCall, Goto, stream
<1>3. count[t] \in Nat /\ new \in Events
  BY BoundsAssumption DEF TypeOK, ProbeCall, Events
<1>4. \A e \in Events : Passed(e)' <=> Passed(e)
  <2> SUFFICES ASSUME NEW e \in Events PROVE Passed(e)' <=> Passed(e)
    OBVIOUS
  <2>1. e[1] \in Threads /\ e[2] \in Nat /\ count[e[1]] \in Nat
    BY BoundsAssumption DEF TypeOK, Events
  <2> QED
    BY <1>2, <2>1 DEF Passed, TypeOK
<1>5. new \notin Logged
  <2>1. ~Passed(new)
    BY <1>3 DEF Passed
  <2> QED
    BY <1>2, <1>3, <2>1 DEF Contents, PassedLogged
<1>6. PassedLogged'
  BY <1>1, <1>2, <1>3, <1>4 DEF Contents, PassedLogged, TypeOK, Events
<1>7. RealTimeOrder'
  <2>1. \A i \in 1 .. Len(Lines) : Lines[i] \in Events /\ Lines[i] # new
    BY <1>5, LoggedLines
  <2>2. \A i \in 1 .. Len(Lines) : before'[Lines[i]] = before[Lines[i]]
    BY <1>2, <2>1 DEF TypeOK
  <2> QED
    BY <1>1, <1>2, <2>2 DEF Contents, RealTimeOrder
<1> QED
  BY <1>1, <1>2, <1>6, <1>7 DEF Contents, LineOnce, SealedComplete

\* A probe call returns.
LEMMA ContentsReturn ==
  ASSUME TypeOK, StreamInv, Contents, NEW t \in Threads, ProbeUnlock(t), CallCounted, TypeOK'
  PROVE  Contents'
<1>1. Lines' = Lines /\ Logged' = Logged
  BY DEF ProbeUnlock, stream, Lines, Logged
<1>2. /\ proc = "up" /\ proc' = "up" /\ pc[t] = "probe_unlock"
      /\ pc' = [pc EXCEPT ![t] = "app"]
      /\ returned' = returned \cup {Event(t)}
      /\ UNCHANGED <<dropped, before, count, fp, flushed, out>>
  BY DEF ProbeUnlock, Goto, stream
<1>3. Event(t) \in Events /\ Passed(Event(t))
  BY <1>2, EventType DEF Passed, Event, ProbePCs
<1>4. \A e \in Events : Passed(e)' <=> Passed(e)
  BY <1>2 DEF Passed, Events, TypeOK
<1>5. PassedLogged'
  BY <1>1, <1>2, <1>3, <1>4 DEF Contents, PassedLogged, TypeOK, Events
<1>6. LineOnce' /\ RealTimeOrder'
  BY <1>1, <1>2 DEF Contents, LineOnce, RealTimeOrder
<1>7. SealedComplete'
  <2>1. fp = "closed" => flushed = Len(out) /\ Len(out) % FieldsPerLine = 0
    BY DEF StreamInv
  <2>2. returned' \ dropped' \subseteq Logged'
    BY <1>2, <1>5 DEF PassedLogged, TypeOK
  <2> QED
    BY <1>1, <1>2, <1>6, <2>1, <2>2 DEF SealedComplete, LineOnce
<1> QED
  BY <1>5, <1>6, <1>7 DEF Contents

\* fprintf finds no stream.
LEMMA ContentsDrop ==
  ASSUME TypeOK, StreamInv, Contents, NEW t \in Threads, ProbePrintNowhere(t), CallCounted,
         TypeOK'
  PROVE  Contents'
<1>1. Lines' = Lines /\ Logged' = Logged
  BY DEF ProbePrintNowhere, stream, Lines, Logged
<1>2. /\ proc = "up" /\ proc' = "up" /\ pc[t] = "probe_fprintf"
      /\ pc' = [pc EXCEPT ![t] = "probe_unlock"]
      /\ dropped' = dropped \cup {Event(t)}
      /\ UNCHANGED <<returned, before, count, fp, flushed, out>>
  BY DEF ProbePrintNowhere, Goto, stream
<1>3. Event(t) \in Events /\ ~Passed(Event(t)) /\ Passed(Event(t))'
  BY <1>2, EventType DEF Passed, Event, ProbePCs, TypeOK
<1>4. \A e \in Events : Passed(e)' <=> Passed(e) \/ e = Event(t)
  <2> SUFFICES ASSUME NEW e \in Events PROVE Passed(e)' <=> Passed(e) \/ e = Event(t)
    OBVIOUS
  <2>1. e = <<e[1], e[2]>> /\ e[1] \in Threads
    BY DEF Events
  <2> QED
    BY <1>2, <2>1 DEF Passed, Event, TypeOK
<1>5. PassedLogged'
  BY <1>1, <1>2, <1>3, <1>4 DEF Contents, PassedLogged, TypeOK, Events
<1>6. LineOnce' /\ RealTimeOrder' /\ SealedComplete'
  BY <1>1, <1>2 DEF Contents, LineOnce, RealTimeOrder, SealedComplete
<1> QED
  BY <1>5, <1>6 DEF Contents

\* fprintf completes a line.
LEMMA ContentsLine ==
  ASSUME TypeOK, TypeOK', CallCounted, LineInv, Contents,
         NEW t \in Threads, ProbePrint(t), ~(printed[t] + 1 < 5)
  PROVE  Contents' /\ Event(t) \in Events /\ Event(t) \notin Logged
<1> DEFINE ev == Event(t)
           n == Len(Lines)
<1>1. /\ proc = "up" /\ proc' = "up" /\ pc[t] = "probe_fprintf" /\ fp' = "open"
      /\ pc' = [pc EXCEPT ![t] = "probe_unlock"]
      /\ UNCHANGED <<returned, before, count, dropped>>
  BY DEF ProbePrint, Goto, history, FieldsPerLine
<1>2. ev \in Events /\ ~Passed(ev)
  BY <1>1, EventType DEF Passed, Event, ProbePCs, TypeOK
<1>3. ev \notin Logged /\ ev \notin dropped
  BY <1>1, <1>2 DEF Contents, PassedLogged
<1>4. /\ Lines \in Seq(Events) /\ n \in Nat
      /\ Lines' \in Seq(Events) /\ Len(Lines') = n + 1
      /\ Lines'[n + 1] = ev
      /\ \A i \in 1 .. n : Lines'[i] = Lines[i]
  <2>1. Lines \in Seq(Events) /\ n \in Nat
    BY LinesType
  <2>2. Lines' = Append(Lines, ev)
    BY PrintLast
  <2>3. /\ Append(Lines, ev) \in Seq(Events)
        /\ Len(Append(Lines, ev)) = n + 1
        /\ \A i \in 1 .. n : Append(Lines, ev)[i] = Lines[i]
        /\ Append(Lines, ev)[n + 1] = ev
    BY <1>2, <2>1, AppendProperties
  <2> HIDE DEF ev
  <2> QED
    BY <2>1, <2>2, <2>3
<1>5. \A e : e \in Logged' <=> e \in Logged \/ e = ev
  BY <1>4 DEF Logged
<1>6. \A e \in Events : Passed(e)' <=> Passed(e) \/ e = ev
  <2> SUFFICES ASSUME NEW e \in Events PROVE Passed(e)' <=> Passed(e) \/ e = ev
    OBVIOUS
  <2>1. e = <<e[1], e[2]>> /\ e[1] \in Threads
    BY DEF Events
  <2>2. CASE e[1] # t
    <3>1. pc'[e[1]] = pc[e[1]] /\ count' = count
      BY <1>1, <2>1, <2>2 DEF TypeOK
    <3>2. e # ev
      BY <2>2 DEF Event
    <3> QED
      BY <3>1, <3>2 DEF Passed
  <2>3. CASE e[1] = t
    <3>1. pc'[t] = "probe_unlock" /\ count' = count
      BY <1>1 DEF TypeOK
    <3>2. e = ev <=> e[2] = count[t]
      BY <2>1, <2>3 DEF Event
    <3> QED
      BY <1>1, <2>3, <3>1, <3>2 DEF Passed
  <2> QED
    BY <2>2, <2>3
<1>7. PassedLogged'
  BY <1>1, <1>2, <1>3, <1>5, <1>6 DEF Contents, PassedLogged, TypeOK, Events
<1>8. LineOnce'
  <2>1. \A i \in 1 .. n : Lines[i] # ev
    BY <1>3 DEF Logged
  <2> QED
    BY <1>4, <2>1 DEF Contents, LineOnce
<1>9. RealTimeOrder'
  <2> SUFFICES ASSUME NEW i \in 1 .. n + 1, NEW e \in before[Lines'[i]] \ dropped
               PROVE  \E j \in 1 .. i - 1 : Lines'[j] = e
    BY <1>1, <1>4 DEF RealTimeOrder
  <2>1. CASE i \in 1 .. n
    <3>1. PICK j \in 1 .. i - 1 : Lines[j] = e
      BY <1>4, <2>1 DEF Contents, RealTimeOrder
    <3> QED
      BY <1>4, <2>1, <3>1
  <2>2. CASE i = n + 1
    <3>1. e \in returned /\ e \notin dropped /\ e \in Events
      BY <1>1, <1>2, <1>4, <2>2 DEF Contents, PassedLogged, TypeOK
    <3>2. e \in Logged
      BY <1>1, <3>1 DEF Contents, PassedLogged
    <3>3. PICK j \in 1 .. n : Lines[j] = e
      BY <3>2 DEF Logged
    <3> QED
      BY <1>4, <2>2, <3>3
  <2> QED
    BY <1>4, <2>1, <2>2
<1> QED
  BY <1>1, <1>2, <1>3, <1>7, <1>8, <1>9 DEF Contents, SealedComplete

\* A process that dies with no stream open loses nothing.
LEMMA DieNothingLost ==
  ASSUME TypeOK, StreamInv, Die, fp # "open"
  PROVE  out' = out
<1>1. flushed = Len(out) /\ out \in Seq(Fields)
  BY DEF StreamInv, TypeOK
<1>2. /\ Len(out') = flushed
      /\ \A i \in 1 .. flushed : out'[i] = out[i]
      /\ out' \in Seq(Fields)
  BY DieTypeOK DEF TypeOK, Fields, Events
<1> QED
  BY <1>1, <1>2, SeqEqual

\* The process dies.
LEMMA ContentsDie ==
  ASSUME TypeOK, TypeOK', StreamInv, Contents, Die
  PROVE  Contents'
<1> DEFINE k == flushed \div 5
<1>1. /\ k \in 0 .. Len(Lines)
      /\ Lines' = SubSeq(Lines, 1, k)
      /\ Lines \in Seq(Events) /\ Len(Lines) \in Nat
  BY DieKeeps, LinesType
<1>2. /\ Len(Lines') = k
      /\ \A i \in 1 .. k : Lines'[i] = Lines[i]
  BY <1>1
<1> HIDE DEF k
<1>3. proc' = "crashed" /\ UNCHANGED <<fp, flushed, returned, dropped, before>>
  BY DEF Die, history
<1>4. PassedLogged'
  BY <1>3 DEF PassedLogged
<1>5. LineOnce'
  <2> SUFFICES ASSUME NEW i \in 1 .. k, NEW j \in 1 .. k, Lines'[i] = Lines'[j] PROVE i = j
    BY <1>2 DEF LineOnce
  <2>1. i \in 1 .. Len(Lines) /\ j \in 1 .. Len(Lines)
    BY <1>1
  <2>2. Lines[i] = Lines[j]
    BY <1>2
  <2> QED
    BY <2>1, <2>2, Zenon DEF Contents, LineOnce
<1>6. RealTimeOrder'
  <2> SUFFICES ASSUME NEW i \in 1 .. k, NEW e \in before[Lines[i]] \ dropped
               PROVE  \E j \in 1 .. i - 1 : Lines'[j] = e
    BY <1>2, <1>3 DEF RealTimeOrder
  <2>1. PICK j \in 1 .. i - 1 : Lines[j] = e
    BY <1>1 DEF Contents, RealTimeOrder
  <2> QED
    BY <1>1, <1>2, <2>1
<1>7. SealedComplete'
  <2> SUFFICES ASSUME fp = "closed" PROVE SealedComplete'
    BY <1>3 DEF SealedComplete
  <2>1. out' = out
    BY DieNothingLost
  <2>2. Lines' = Lines /\ Logged' = Logged
    BY <2>1 DEF Lines, Logged
  <2> QED
    BY <1>3, <2>1, <2>2 DEF Contents, SealedComplete
<1> QED
  BY <1>4, <1>5, <1>6, <1>7 DEF Contents

\* A step of a living process that writes no line and is not about a probe call.
LEMMA ContentsOther ==
  ASSUME TypeOK, LineInv, StreamInv, StreamInv', TypeOK', Contents,
         \/ InitStep
         \/ FinalStep /\ ~FinalFcloseDies
         \/ \E t \in Threads : ProbeLock(t) \/ ThreadReturn(t)
         \/ \E t, u \in Threads : Spawn(t, u)
         \/ MainReturn
  PROVE  Contents'
<1> USE ThreadsAssumption
<1>1. CASE InitFopen \/ FinalFclose
  <2>1. /\ Lines' = Lines /\ Logged' = Logged
        /\ UNCHANGED <<out, count, dropped, returned, before>>
    BY <1>1 DEF InitFopen, FinalFclose, Lines, Logged, history
  <2>2. /\ proc = "up" /\ proc' = "up"
        /\ \A u \in Threads : pc'[u] \in {"probe_lock", "probe_fprintf"}
                              <=> pc[u] \in {"probe_lock", "probe_fprintf"}
    BY <1>1 DEF InitFopen, FinalFclose, Goto, TypeOK
  <2>3. \A e \in Events : Passed(e)' <=> Passed(e)
    BY <2>1, <2>2 DEF Passed, Events
  <2>4. PassedLogged'
    BY <2>1, <2>2, <2>3 DEF Contents, PassedLogged, TypeOK, Events
  <2>5. LineOnce' /\ RealTimeOrder'
    BY <2>1 DEF Contents, LineOnce, RealTimeOrder
  <2>6. SealedComplete'
    <3>1. returned' \ dropped' \subseteq Logged'
      BY <2>2, <2>4 DEF PassedLogged, TypeOK
    <3> QED
      BY <2>5, <3>1 DEF SealedComplete, StreamInv, LineOnce
  <2> QED
    BY <2>4, <2>5, <2>6 DEF Contents
<1>2. CASE InitLock \/ InitUnlock \/ InitAtexit
  BY <1>2, ContentsMove DEF InitLock, InitUnlock, InitAtexit, Goto, stream, history, TypeOK
<1>3. CASE FinalLock \/ FinalUnlock \/ FinalFcloseNull \/ ProcessExit
  BY <1>3, ContentsMove
     DEF FinalLock, FinalUnlock, FinalFcloseNull, ProcessExit, Goto, stream, history, TypeOK
<1>4. ASSUME NEW t \in Threads, ProbeLock(t) \/ ThreadReturn(t) PROVE Contents'
  BY <1>4, ContentsMove DEF ProbeLock, ThreadReturn, Goto, stream, history, TypeOK
<1>5. ASSUME NEW t \in Threads, NEW u \in Threads, Spawn(t, u) PROVE Contents'
  BY <1>5, ContentsMove DEF Spawn, stream, history, TypeOK
<1>6. CASE MainReturn
  BY <1>6, ContentsMove DEF MainReturn, Goto, stream, history, TypeOK
<1> QED
  BY <1>1, <1>2, <1>3, <1>4, <1>5, <1>6 DEF InitStep, FinalStep

LEMMA LogStep ==
  ASSUME LogInv, TypeOK', StreamInv', [Next]_vars
  PROVE  Contents'
<1> USE DEF LogInv
<1>1. ASSUME Die PROVE Contents'
  BY <1>1, ContentsDie
<1>2. ASSUME NEW t \in Threads, ProbePrint(t) PROVE Contents'
  <2>1. CASE printed[t] + 1 < 5
    <3>1. Lines' = Lines /\ Logged' = Logged
      BY <1>2, <2>1, PrintPart DEF Logged
    <3>2. /\ proc = "up" /\ proc' = "up" /\ pc[t] = "probe_fprintf" /\ fp' = "open"
          /\ pc' = [pc EXCEPT ![t] = "probe_fprintf"]
          /\ UNCHANGED <<returned, before, count, dropped>>
      BY <1>2, <2>1 DEF ProbePrint, Goto, history, FieldsPerLine
    <3>3. \A e \in Events : Passed(e)' <=> Passed(e)
      BY <3>2 DEF Passed, Events, TypeOK
    <3>4. PassedLogged'
      BY <3>1, <3>2, <3>3 DEF Contents, PassedLogged, TypeOK, Events
    <3> QED
      BY <3>1, <3>2, <3>4 DEF Contents, LineOnce, RealTimeOrder, SealedComplete
  <2>2. CASE ~(printed[t] + 1 < 5)
    BY <1>2, <2>2, ContentsLine
  <2> QED
    BY <2>1, <2>2
<1>3. ASSUME NEW t \in Threads, ProbeCall(t) PROVE Contents'
  BY <1>3, ContentsCall
<1>4. ASSUME NEW t \in Threads, ProbeUnlock(t) PROVE Contents'
  BY <1>4, ContentsReturn
<1>5. ASSUME NEW t \in Threads, ProbePrintNowhere(t) PROVE Contents'
  BY <1>5, ContentsDrop
<1>6. CASE Ended \/ UNCHANGED vars
  <2>1. UNCHANGED <<proc, pc, fp, out, flushed, count, dropped, returned, before>>
    BY <1>6 DEF Ended, vars
  <2>2. Lines' = Lines /\ Logged' = Logged
    BY <2>1 DEF Lines, Logged
  <2>3. \A e \in Events : Passed(e)' <=> Passed(e)
    BY <2>1 DEF Passed
  <2>4. PassedLogged'
    BY <2>1, <2>2, <2>3 DEF Contents, PassedLogged, TypeOK, Events
  <2> QED
    BY <2>1, <2>2, <2>4 DEF Contents, LineOnce, RealTimeOrder, SealedComplete
<1>7. CASE InitStep \/ (FinalStep /\ ~FinalFcloseDies) \/ MainReturn
  BY <1>7, ContentsOther
<1>8. ASSUME NEW t \in Threads, ProbeLock(t) \/ ThreadReturn(t) PROVE Contents'
  BY <1>8, ContentsOther
<1>9. ASSUME NEW t \in Threads, NEW u \in Threads, Spawn(t, u) PROVE Contents'
  BY <1>9, ContentsOther
<1> QED
  BY <1>1, <1>2, <1>3, <1>4, <1>5, <1>6, <1>7, <1>8, <1>9
     DEF Next, ProbeStep, AppStep, FinalFcloseDies, ProbePrintDies, Crash

LEMMA LogInit ==
  ASSUME Init, TypeOK
  PROVE  StreamInv /\ Contents
<1>1. out = <<>> /\ Len(out) = 0 /\ fp = "NULL"
  BY DEF Init
<1>2. Len(Lines) = 0 /\ Logged = {}
  BY <1>1, LinesType, DivFive DEF Logged
<1>3. \A e \in Events : ~Passed(e)
  BY DEF Init, Passed, Events
<1>4. PassedLogged
  BY <1>2, <1>3 DEF PassedLogged, Init
<1> QED
  BY <1>1, <1>2, <1>4 DEF Contents, LineOnce, RealTimeOrder, SealedComplete, StreamInv

\* Together with type correctness and whole lines (LinesAreWhole), what the
\* stream and the log are like is an inductive invariant of every process.
THEOREM LogInvariant == Spec => []LogInv
<1>1. Init /\ TypeOK /\ CallCounted /\ LineInv => LogInv
  BY LogInit DEF LogInv
<1>2. LogInv /\ TypeOK' /\ CallCounted' /\ LineInv' /\ [Next]_vars => LogInv'
  <2> SUFFICES ASSUME LogInv, TypeOK', CallCounted', LineInv', [Next]_vars PROVE LogInv'
    OBVIOUS
  <2>1. StreamInv'
    BY StreamStep DEF LogInv
  <2> QED
    BY <2>1, LogStep DEF LogInv
<1> QED
  BY <1>1, <1>2, TypeCorrect, LineInvariant, PTL DEF Spec

\* IntTrace!RealTimeOrder: of two probe calls of which one returned before the
\* other was made, the log has them in that order.
THEOREM LogInRealTime == Spec => []RealTimeOrder
<1>1. LogInv => RealTimeOrder
  BY DEF LogInv, Contents
<1> QED
  BY <1>1, LogInvariant, PTL

\* IntTrace!SealedComplete: fclose in _final_ loses nothing and cuts nothing.
THEOREM CloseLosesNothing == Spec => []SealedComplete
<1>1. LogInv => SealedComplete
  BY DEF LogInv, Contents
<1> QED
  BY <1>1, LogInvariant, PTL

-----------------------------------------------------------------------------
(* Clean processes *)

LEMMA CleanStep ==
  ASSUME TypeOK, CleanInv, [Next]_vars
  PROVE  CleanInv'
<1> USE ThreadsAssumption
<1> SUFFICES ASSUME Clean' PROVE CleanInv'
  BY DEF CleanInv
<1>1. faults' = faults
  BY DEF Next, InitStep, InitLock, InitFopen, InitUnlock, InitAtexit, ProbeStep, ProbeLock,
     ProbePrint, ProbeUnlock, ProbePrintNowhere, ProbePrintDies, FinalStep, FinalLock,
     FinalFclose, FinalUnlock, FinalFcloseNull, FinalFcloseDies, ProcessExit, AppStep,
     ProbeCall, ThreadReturn, Crash, Spawn, MainReturn, Ended, Die, history, vars
<1>2. faults = {} /\ Joined = Threads \ {Main} /\ Clean
  BY <1>1 DEF Clean
<1> USE <1>1, <1>2 DEF CleanInv, InitPCs, ProbePCs, FinalPCs
<1>3. CASE InitStep
  BY <1>3 DEF InitStep, InitLock, InitFopen, InitUnlock, InitAtexit, Goto, TypeOK, stream,
     history
<1>4. CASE FinalStep
  BY <1>4 DEF FinalStep, FinalLock, FinalFclose, FinalUnlock, FinalFcloseNull,
     FinalFcloseDies, ProcessExit, Goto, TypeOK, stream, history
<1>5. ASSUME NEW t \in Threads, ProbeStep(t) PROVE CleanInv'
  <2>1. pc[t] = "probe_fprintf" => fp = "open"
    BY <1>5 DEF TypeOK, PCs
  <2>2. CASE ProbePrint(t)
    BY <2>2 DEF ProbePrint, Goto, TypeOK, history
  <2>3. CASE ProbeLock(t)
    BY <2>3 DEF ProbeLock, Goto, TypeOK, stream, history
  <2>4. CASE ProbeUnlock(t)
    BY <2>4 DEF ProbeUnlock, Goto, TypeOK, stream
  <2>5. ~ProbePrintNowhere(t) /\ ~ProbePrintDies(t)
    BY <2>1 DEF ProbePrintNowhere, ProbePrintDies, Goto
  <2> QED
    BY <1>5, <2>2, <2>3, <2>4, <2>5 DEF ProbeStep
<1>6. CASE AppStep
  <2>1. ASSUME NEW t \in Threads, ProbeCall(t) PROVE CleanInv'
    BY <2>1 DEF ProbeCall, Goto, TypeOK, stream
  <2>2. ASSUME NEW t \in Threads, ThreadReturn(t) PROVE CleanInv'
    BY <2>2 DEF ThreadReturn, Goto, TypeOK, stream, history
  <2>3. ASSUME NEW t \in Threads, Crash(t) PROVE CleanInv'
    BY <2>3 DEF Crash
  <2>4. ASSUME NEW t \in Threads, NEW u \in Threads, Spawn(t, u) PROVE CleanInv'
    BY <2>4 DEF Spawn, TypeOK, stream, history
  <2>5. CASE MainReturn
    BY <2>5 DEF MainReturn, JoinedAll, Goto, TypeOK, stream, history
  <2> QED
    BY <1>6, <2>1, <2>2, <2>3, <2>4, <2>5 DEF AppStep
<1>7. CASE Ended \/ UNCHANGED vars
  BY <1>7 DEF Ended, vars
<1> QED
  BY <1>3, <1>4, <1>5, <1>6, <1>7 DEF Next

LEMMA CleanInvariant == Spec => []CleanInv
<1>1. Init => CleanInv
  BY ThreadsAssumption DEF Init, CleanInv, Clean, InitPCs, ProbePCs, FinalPCs
<1>2. TypeOK /\ CleanInv /\ [Next]_vars => CleanInv'
  BY CleanStep
<1> QED
  BY <1>1, <1>2, TypeCorrect, PTL DEF Spec

\* IntTrace!NoStaleStream: in a clean process every fprintf finds fp open.
THEOREM CleanStream == Spec => []NoStaleStream
<1>1. TypeOK /\ CleanInv => NoStaleStream
  BY ThreadsAssumption DEF NoStaleStream, CleanInv, TypeOK, PCs, InitPCs, ProbePCs, FinalPCs
<1> QED
  BY <1>1, CleanInvariant, TypeCorrect, PTL

\* IntTrace!CleanExitComplete: the file of a clean process that has exited has
\* a line for every probe call ever made.
THEOREM CleanLogComplete == Spec => []CleanExitComplete
<1>1. LogInv /\ CleanInv => CleanExitComplete
  <2> SUFFICES ASSUME LogInv, CleanInv, Clean, proc = "exited"
               PROVE  /\ flushed = Len(out)
                      /\ Logged = {e \in Events : e[2] <= count[e[1]]}
    BY DEF CleanExitComplete
  <2>1. /\ pc[Main] = "exit" /\ fp = "closed" /\ dropped = {}
        /\ \A t \in Threads : pc[t] \notin {"probe_lock", "probe_fprintf"}
    BY ThreadsAssumption DEF CleanInv
  <2>2. flushed = Len(out)
    BY <2>1 DEF LogInv, StreamInv
  <2>3. \A e \in Events : Passed(e) <=> e[2] <= count[e[1]]
    <3>1. ASSUME NEW e \in Events
          PROVE  e[1] \in Threads /\ e[2] \in Nat /\ count[e[1]] \in Nat
      BY BoundsAssumption DEF Events, LogInv, TypeOK
    <3> QED
      BY <2>1, <3>1 DEF Passed
  <2>4. \A e \in Events : e \in Logged <=> e[2] <= count[e[1]]
    BY <2>1, <2>3 DEF LogInv, Contents, PassedLogged
  <2>5. Logged \subseteq Events
    BY LoggedLines DEF LogInv
  <2> QED
    BY <2>2, <2>4, <2>5
<1> QED
  BY <1>1, CleanInvariant, LogInvariant, PTL

-----------------------------------------------------------------------------
(* The runtime implements EventLog. *)

\* Steps that the abstract log does not see.
LEMMA Unseen ==
  ASSUME Lines' = Lines, fp' = fp, proc' = proc \/ fp # "open"
  PROVE  UNCHANGED Abstract!vars
BY DEF Abstract!vars, Phase

LEMMA DieImplements ==
  ASSUME LogInv, Die, proc = "up"
  PROVE  [Abstract!Next]_(Abstract!vars)
<1>1. /\ proc' = "crashed" /\ fp' = fp
      /\ flushed \div 5 \in 0 .. Len(Lines)
      /\ Lines' = SubSeq(Lines, 1, flushed \div 5)
  BY DieKeeps DEF Die, LogInv
<1>2. CASE fp = "open"
  <2>1. Phase = "open" /\ Phase' = "lost"
    BY <1>1, <1>2 DEF Phase
  <2>2. Abstract!Lose
    BY <1>1, <2>1 DEF Abstract!Lose
  <2> QED
    BY <2>2 DEF Abstract!Next
<1>3. CASE fp # "open"
  <2>1. Lines' = Lines
    BY <1>3, DieNothingLost DEF LogInv, Lines
  <2> QED
    BY <1>1, <1>3, <2>1, Unseen
<1> QED
  BY <1>2, <1>3

LEMMA PrintImplements ==
  ASSUME LogInv, TypeOK', NEW t \in Threads, ProbePrint(t)
  PROVE  [Abstract!Next]_(Abstract!vars)
<1>1. fp = "open" /\ fp' = "open" /\ proc = "up" /\ proc' = "up"
  BY DEF ProbePrint, Goto
<1>2. CASE printed[t] + 1 < 5
  BY <1>1, <1>2, PrintPart, Unseen DEF LogInv
<1>3. CASE ~(printed[t] + 1 < 5)
  <2>1. Lines' = Append(Lines, Event(t))
    BY <1>3, PrintLast DEF LogInv
  <2>2. Event(t) \in Events /\ Event(t) \notin Logged
    BY <1>3, ContentsLine DEF LogInv
  <2>3. Phase = "open" /\ Phase' = "open"
    BY <1>1 DEF Phase
  <2>4. Abstract!Record(Event(t))
    BY <2>1, <2>2, <2>3 DEF Abstract!Record, Abstract!Recorded, Logged
  <2> QED
    BY <2>2, <2>4 DEF Abstract!Next
<1> QED
  BY <1>2, <1>3

LEMMA StepImplements ==
  ASSUME LogInv, TypeOK', [Next]_vars
  PROVE  [Abstract!Next]_(Abstract!vars)
<1>1. CASE InitFopen
  <2>1. /\ Lines' = Lines /\ fp = "NULL" /\ fp' \in {"open", "NULL"}
        /\ proc = "up" /\ proc' = "up"
    BY <1>1, ThreadsAssumption DEF InitFopen, Goto, Lines, LogInv, StreamInv
  <2>2. Phase = "unopened" /\ Phase' = IF fp' = "open" THEN "open" ELSE "unopened"
    BY <2>1 DEF Phase
  <2> QED
    BY <2>1, <2>2 DEF Abstract!Next, Abstract!Open, Abstract!vars
<1>2. CASE FinalFclose
  <2>1. /\ Lines' = Lines /\ fp = "open" /\ fp' = "closed" /\ proc = "up"
    BY <1>2 DEF FinalFclose, Goto, Lines
  <2>2. Phase = "open" /\ Phase' = "sealed"
    BY <2>1 DEF Phase
  <2> QED
    BY <2>1, <2>2 DEF Abstract!Next, Abstract!Seal
<1>3. CASE ProcessExit
  <2>1. Lines' = Lines /\ proc = "up" /\ proc' = "exited" /\ fp' = fp
    BY <1>3 DEF ProcessExit, Lines, stream
  <2>2. CASE fp = "open"
    <3>1. Phase = "open" /\ Phase' = "lost"
      BY <2>1, <2>2 DEF Phase
    <3>2. Lines' = SubSeq(Lines, 1, Len(Lines)) /\ Len(Lines) \in 0 .. Len(Lines)
      <4>1. Lines \in Seq(Events) /\ Len(Lines) \in Nat
        BY LinesType DEF LogInv
      <4>2. \A n : n = Len(Lines) => SubSeq(Lines, 1, n) = Lines
        BY <4>1, SubSeqFull
      <4> QED
        BY <2>1, <4>1, <4>2
    <3> QED
      BY <3>1, <3>2 DEF Abstract!Next, Abstract!Lose
  <2>3. CASE fp # "open"
    BY <2>1, <2>3, Unseen
  <2> QED
    BY <2>2, <2>3
<1>4. CASE InitLock \/ InitUnlock \/ InitAtexit
  BY <1>4, Unseen DEF InitLock, InitUnlock, InitAtexit, stream, Lines
<1>5. CASE FinalLock \/ FinalUnlock \/ FinalFcloseNull
  BY <1>5, Unseen DEF FinalLock, FinalUnlock, FinalFcloseNull, stream, Lines
<1>6. ASSUME NEW t \in Threads, ProbeLock(t) \/ ProbeUnlock(t) \/ ProbePrintNowhere(t)
      PROVE  [Abstract!Next]_(Abstract!vars)
  BY <1>6, Unseen DEF ProbeLock, ProbeUnlock, ProbePrintNowhere, stream, Lines
<1>7. ASSUME NEW t \in Threads, ProbeCall(t) \/ ThreadReturn(t)
      PROVE  [Abstract!Next]_(Abstract!vars)
  BY <1>7, Unseen DEF ProbeCall, ThreadReturn, stream, Lines
<1>8. ASSUME NEW t \in Threads, NEW u \in Threads, Spawn(t, u)
      PROVE  [Abstract!Next]_(Abstract!vars)
  BY <1>8, Unseen DEF Spawn, stream, Lines
<1>9. CASE MainReturn
  BY <1>9, Unseen DEF MainReturn, stream, Lines
<1>10. CASE Ended \/ UNCHANGED vars
  BY <1>10, Unseen DEF Ended, vars, Lines
<1>11. ASSUME NEW t \in Threads, Crash(t) \/ ProbePrintDies(t)
       PROVE  [Abstract!Next]_(Abstract!vars)
  BY <1>11, DieImplements DEF Crash, ProbePrintDies
<1>12. CASE FinalFcloseDies
  BY <1>12, DieImplements DEF FinalFcloseDies
<1>13. ASSUME NEW t \in Threads, ProbePrint(t) PROVE [Abstract!Next]_(Abstract!vars)
  BY <1>13, PrintImplements
<1> QED
  BY <1>1, <1>2, <1>3, <1>4, <1>5, <1>6, <1>7, <1>8, <1>9, <1>10, <1>11, <1>12, <1>13
     DEF Next, InitStep, FinalStep, ProbeStep, AppStep

\* IntTrace!ImplementsEventLog: seen from outside, the three functions and the
\* death of the process are the operations of one atomic log.
THEOREM IsEventLog == Spec => ImplementsEventLog
<1>1. Init /\ LogInv => Abstract!Init
  <2> SUFFICES ASSUME Init, LogInv PROVE Abstract!Init
    OBVIOUS
  <2>1. Lines \in Seq(Events) /\ Len(Lines) = 0
    BY LinesType, DivFive DEF Init, LogInv
  <2>2. Lines = <<>>
    BY <2>1
  <2> QED
    BY <2>2 DEF Init, Abstract!Init, Phase
<1>2. LogInv /\ TypeOK' /\ [Next]_vars => [Abstract!Next]_(Abstract!vars)
  BY StepImplements
<1> QED
  BY <1>1, <1>2, LogInvariant, TypeCorrect, PTL
     DEF Spec, ImplementsEventLog, Abstract!Spec
=============================================================================
