------------------------ MODULE TracedProgramProofs ------------------------
(***************************************************************************)
(* Proofs of what the log tells about the execution, for any number of     *)
(* threads, addresses and operations, and any choice of the operations     *)
(* that have no probe.                                                     *)
(***************************************************************************)
EXTENDS TracedProgram, SequenceTheorems, TLAPS

(***************************************************************************)
(* What is known of each thread and of the operation it is at.             *)
(***************************************************************************)
CurrentOp(t) ==
  /\ cur[t].id = <<t, ops[t]>>
  /\ "probe" \in todo[t] => cur[t].hooked
  /\ "probe" \in todo[t] /\ ProbeFirst(cur[t].op) => "effect" \in todo[t]

\* An operation begun in a section belongs to it.
CurrentSection(t) ==
  /\ section[t] # None => held[t] # None /\ section[t][1] = t
  /\ cur[t].section # None => cur[t].section[1] = t
  /\ todo[t] # {} /\ cur[t].op # "lock" => cur[t].section = section[t]
  /\ todo[t] # {} /\ cur[t].op = "lock" => section[t] = None
  /\ cur[t].op \in Accesses /\ section[t] # None /\ cur[t].section = section[t]
       => cur[t].mode = held[t]
  /\ "effect" \in todo[t] /\ cur[t].op = "unlock" => section[t] # None
  /\ held[t] # None => section[t] # None
  /\ cur[t].op = "lock" => cur[t].mode # None

\* Sections that exclude each other are not open at the same time.
Exclusion ==
  \A t, u \in Threads :
    t # u /\ held[t] # None /\ held[u] # None => held[t] = "read" /\ held[u] = "read"

ThreadInv == Exclusion /\ \A t \in Threads : CurrentOp(t) /\ CurrentSection(t)

LEMMA TypeStep ==
  ASSUME TypeOK, ThreadInv, [Next]_vars
  PROVE  TypeOK'
<1> USE NoneAssumption, ModesAssumption
<1> USE DEF Ops, Accesses, LockModes, Ids
<1>1. ASSUME NEW t \in Threads, NEW op \in Ops, NEW a \in Addrs \cup {None},
             op \in Accesses => a \in Addrs,
             NEW m \in LockModes \cup {None}, Start(t, op, a, m)
      PROVE  TypeOK'
  <2>1. PICK h \in BOOLEAN :
          /\ cur' = [cur EXCEPT ![t] =
                      [id |-> <<t, ops[t] + 1>>, op |-> op, addr |-> a, hooked |-> h,
                       section |-> section[t], mode |-> m, from |-> None]]
          /\ todo' = [todo EXCEPT ![t] = {"effect"} \cup (IF h THEN {"probe"} ELSE {})]
    BY <1>1 DEF Start, Hooks
  <2>2. [id |-> <<t, ops[t] + 1>>, op |-> op, addr |-> a, hooked |-> h,
         section |-> section[t], mode |-> m, from |-> None] \in Operations
    BY DEF TypeOK, Operations
  <2>3. cur' \in [Threads -> Operations]
    BY <2>1, <2>2 DEF TypeOK
  <2>4. todo' \in [Threads -> SUBSET {"probe", "effect"}]
    BY <2>1 DEF TypeOK
  <2>5. ops' \in [Threads -> Nat]
    BY <1>1 DEF Start, TypeOK
  <2> QED
    BY <1>1, <2>3, <2>4, <2>5 DEF Start, TypeOK
<1>2. ASSUME NEW t \in Threads, Probe(t) PROVE TypeOK'
  <2>1. log' \in Seq(Operations)
    BY <1>2, AppendProperties DEF Probe, TypeOK
  <2> QED
    BY <1>2, <2>1 DEF Probe, TypeOK
<1>3. ASSUME NEW t \in Threads, Note(t) PROVE exec' \in Seq(Ids)
  BY <1>3, AppendProperties DEF Note, TypeOK, Operations
<1>4. ASSUME NEW t \in Threads, NEW op, Perform(t, op)
      PROVE  todo' \in [Threads -> SUBSET {"probe", "effect"}]
  BY <1>4 DEF Perform, TypeOK
<1>5. ASSUME NEW t \in Threads, Load(t) PROVE TypeOK'
  <2>1. /\ cur[t] \in Operations /\ cur[t].op = "load"
        /\ mem[cur[t].addr] \in Ids \cup {None}
    BY <1>5 DEF Load, Perform, TypeOK
  <2>2. /\ [cur[t] EXCEPT !.from = mem[cur[t].addr]] \in Operations
        /\ [cur[t] EXCEPT !.from = mem[cur[t].addr]].addr = cur[t].addr
    BY <2>1 DEF Operations
  <2>3. cur' = [cur EXCEPT ![t] = [cur[t] EXCEPT !.from = mem[cur[t].addr]]]
    BY <1>5 DEF Load
  <2>4. /\ cur' \in [Threads -> Operations]
        /\ \A u \in Threads : cur'[u].op \in Accesses => cur'[u].addr \in Addrs
    BY <2>1, <2>2, <2>3 DEF TypeOK
  <2> QED
    BY <1>3, <1>4, <1>5, <2>4 DEF Load, TypeOK
<1>6. ASSUME NEW t \in Threads, Store(t) PROVE TypeOK'
  <2>1. mem' \in [Addrs -> Ids \cup {None}]
    BY <1>6 DEF Store, TypeOK, Operations
  <2> QED
    BY <1>3, <1>4, <1>6, <2>1 DEF Store, TypeOK
<1>7. ASSUME NEW t \in Threads, Step(t) PROVE TypeOK'
  <2>1. CASE StartAccess(t)
    <3>1. held[t] \in LockModes \cup {None}
      BY DEF TypeOK
    <3> QED
      BY <1>1, <2>1, <3>1 DEF StartAccess
  <2>2. CASE StartLock(t)
    BY <1>1, <2>2 DEF StartLock
  <2>3. CASE StartUnlock(t)
    <3>1. held[t] \in LockModes \cup {None}
      BY DEF TypeOK
    <3> QED
      BY <1>1, <2>3, <3>1 DEF StartUnlock
  <2>4. CASE Lock(t)
    BY <1>4, <2>4 DEF Lock, TypeOK, Operations
  <2>5. CASE Unlock(t)
    <3>1. held' \in [Threads -> LockModes \cup {None}]
      BY <2>5 DEF Unlock, TypeOK
    <3>2. section' \in [Threads -> Ids \cup {None}]
      BY <2>5 DEF Unlock, TypeOK
    <3>3. unmarked' \subseteq Ids
      BY <2>5 DEF Unlock, Perform, TypeOK, ThreadInv, CurrentSection
    <3> QED
      BY <1>4, <2>5, <3>1, <3>2, <3>3 DEF Unlock, TypeOK
  <2> QED
    BY <1>2, <1>5, <1>6, <1>7, <2>1, <2>2, <2>3, <2>4, <2>5 DEF Step
<1> QED
  BY <1>7 DEF Next, Finished, vars, TypeOK

LEMMA ThreadStep ==
  ASSUME TypeOK, ThreadInv, [Next]_vars
  PROVE  ThreadInv'
<1> USE NoneAssumption, ModesAssumption
<1> USE DEF Ops, Accesses, LockModes, Ids
<1>1. ASSUME NEW t \in Threads, NEW op \in Ops, NEW a, NEW m, Start(t, op, a, m),
             op \in Accesses \cup {"unlock"} => m = held[t],
             op = "unlock" => held[t] # None,
             op = "lock" => held[t] = None /\ m \in LockModes
      PROVE  ThreadInv'
  <2>1. PICK h \in BOOLEAN :
          /\ cur' = [cur EXCEPT ![t] =
                      [id |-> <<t, ops[t] + 1>>, op |-> op, addr |-> a, hooked |-> h,
                       section |-> section[t], mode |-> m, from |-> None]]
          /\ todo' = [todo EXCEPT ![t] = {"effect"} \cup (IF h THEN {"probe"} ELSE {})]
    BY <1>1 DEF Start, Hooks
  <2>2. UNCHANGED <<held, section>> /\ ops' = [ops EXCEPT ![t] = ops[t] + 1]
    BY <1>1 DEF Start
  <2>3. CurrentOp(t)'
    BY <2>1, <2>2 DEF TypeOK, CurrentOp
  <2>4. CurrentSection(t)'
    BY <1>1, <2>1, <2>2 DEF TypeOK, CurrentSection, ThreadInv
  <2>5. ASSUME NEW u \in Threads \ {t} PROVE CurrentOp(u)' /\ CurrentSection(u)'
    BY <2>1, <2>2 DEF TypeOK, CurrentOp, CurrentSection, ThreadInv
  <2> QED
    BY <2>2, <2>3, <2>4, <2>5 DEF ThreadInv, Exclusion
<1>2. ASSUME NEW t \in Threads, Probe(t) PROVE ThreadInv'
  <2>1. /\ UNCHANGED <<ops, cur, held, section>>
        /\ todo' = [todo EXCEPT ![t] = todo[t] \ {"probe"}]
    BY <1>2 DEF Probe
  <2>2. ASSUME NEW u \in Threads PROVE CurrentOp(u)' /\ CurrentSection(u)'
    BY <2>1 DEF TypeOK, CurrentOp, CurrentSection, ThreadInv
  <2> QED
    BY <2>1, <2>2 DEF ThreadInv, Exclusion
<1>3. ASSUME NEW t \in Threads, Load(t) \/ Store(t) PROVE ThreadInv'
  <2>1. PICK f : cur' = cur \/ cur' = [cur EXCEPT ![t] = [cur[t] EXCEPT !.from = f]]
    BY <1>3 DEF Load, Store
  <2>2. /\ UNCHANGED <<ops, held, section>>
        /\ todo' = [todo EXCEPT ![t] = todo[t] \ {"effect"}]
        /\ ~ProbeFirst(cur[t].op) \/ "probe" \notin todo[t]
    BY <1>3 DEF Load, Store, Perform
  <2>3. \A u \in Threads :
          /\ cur'[u].id = cur[u].id /\ cur'[u].hooked = cur[u].hooked
          /\ cur'[u].op = cur[u].op /\ cur'[u].section = cur[u].section
          /\ cur'[u].mode = cur[u].mode
    <3>1. \A r \in Operations : LET q == [r EXCEPT !.from = f] IN
            /\ q.id = r.id /\ q.hooked = r.hooked /\ q.op = r.op
            /\ q.section = r.section /\ q.mode = r.mode
      BY DEF Operations
    <3>2. cur \in [Threads -> Operations]
      BY DEF TypeOK
    <3> SUFFICES ASSUME NEW u \in Threads
                 PROVE  /\ cur'[u].id = cur[u].id /\ cur'[u].hooked = cur[u].hooked
                        /\ cur'[u].op = cur[u].op /\ cur'[u].section = cur[u].section
                        /\ cur'[u].mode = cur[u].mode
      OBVIOUS
    <3>3. cur'[u] = cur[u] \/ cur'[u] = [cur[u] EXCEPT !.from = f]
      BY <2>1, <3>2
    <3>4. cur[u] \in Operations
      BY <3>2
    <3> QED
      BY <3>1, <3>3, <3>4
  <2>4. ASSUME NEW u \in Threads PROVE CurrentOp(u)'
    BY <2>2, <2>3 DEF TypeOK, CurrentOp, ThreadInv
  <2>5. ASSUME NEW u \in Threads PROVE CurrentSection(u)'
    <3>1. todo'[u] \subseteq todo[u]
      BY <2>2 DEF TypeOK
    <3> QED
      BY <2>2, <2>3, <3>1 DEF CurrentSection, ThreadInv
  <2> QED
    BY <2>2, <2>4, <2>5 DEF ThreadInv, Exclusion
<1>4. ASSUME NEW t \in Threads, Lock(t) PROVE ThreadInv'
  <2>1. /\ UNCHANGED <<ops, cur>> /\ cur[t].op = "lock"
        /\ todo' = [todo EXCEPT ![t] = todo[t] \ {"effect"}]
        /\ ~ProbeFirst(cur[t].op) \/ "probe" \notin todo[t]
        /\ held' = [held EXCEPT ![t] = cur[t].mode]
        /\ section' = [section EXCEPT ![t] = cur[t].id]
    BY <1>4 DEF Lock, Perform
  <2>2. cur[t].id = <<t, ops[t]>> /\ cur[t].id # None
    BY DEF ThreadInv, CurrentOp, TypeOK, Operations
  <2>3. todo'[t] = {}
    BY <2>1 DEF TypeOK, ProbeFirst
  <2>4. CurrentOp(t)' /\ CurrentSection(t)'
    BY <2>1, <2>2, <2>3 DEF TypeOK, CurrentOp, CurrentSection, ThreadInv
  <2>5. ASSUME NEW u \in Threads \ {t} PROVE CurrentOp(u)' /\ CurrentSection(u)'
    BY <2>1 DEF TypeOK, CurrentOp, CurrentSection, ThreadInv
  <2>6. Exclusion'
    BY <1>4, <2>1 DEF Lock, Available, TypeOK, Exclusion, ThreadInv
  <2> QED
    BY <2>4, <2>5, <2>6 DEF ThreadInv
<1>5. ASSUME NEW t \in Threads, Unlock(t) PROVE ThreadInv'
  <2>1. /\ UNCHANGED <<ops, cur>> /\ cur[t].op = "unlock"
        /\ todo' = [todo EXCEPT ![t] = todo[t] \ {"effect"}]
        /\ ~ProbeFirst(cur[t].op) \/ "probe" \notin todo[t]
        /\ held' = [held EXCEPT ![t] = None]
        /\ section' = [section EXCEPT ![t] = None]
    BY <1>5 DEF Unlock, Perform
  <2>2. todo'[t] = {}
    BY <2>1 DEF TypeOK, ProbeFirst
  <2>3. CurrentOp(t)' /\ CurrentSection(t)'
    BY <2>1, <2>2 DEF TypeOK, CurrentOp, CurrentSection, ThreadInv
  <2>4. ASSUME NEW u \in Threads \ {t} PROVE CurrentOp(u)' /\ CurrentSection(u)'
    BY <2>1 DEF TypeOK, CurrentOp, CurrentSection, ThreadInv
  <2>5. Exclusion'
    BY <2>1 DEF TypeOK, Exclusion, ThreadInv
  <2> QED
    BY <2>3, <2>4, <2>5 DEF ThreadInv
<1>6. ASSUME NEW t \in Threads, Step(t) PROVE ThreadInv'
  <2>1. CASE StartAccess(t)
    BY <1>1, <2>1 DEF StartAccess
  <2>2. CASE StartLock(t)
    BY <1>1, <2>2 DEF StartLock
  <2>3. CASE StartUnlock(t)
    BY <1>1, <2>3 DEF StartUnlock
  <2> QED
    BY <1>2, <1>3, <1>4, <1>5, <1>6, <2>1, <2>2, <2>3 DEF Step
<1> QED
  BY <1>6 DEF Next, Finished, vars, ThreadInv, Exclusion, CurrentOp, CurrentSection

THEOREM ThreadsCorrect == Spec => [](TypeOK /\ ThreadInv)
<1>1. Init => TypeOK /\ ThreadInv
  <2> SUFFICES ASSUME Init PROVE TypeOK /\ ThreadInv
    OBVIOUS
  <2>1. \A t \in Threads : Idle(t) \in Operations
    BY DEF Idle, Operations, Ids, Ops, Accesses, LockModes
  <2>2. log \in Seq(Operations) /\ exec \in Seq(Ids)
    BY EmptySeq DEF Init
  <2>3. TypeOK
    BY <2>1, <2>2 DEF Init, TypeOK, Idle, Accesses
  <2>4. ThreadInv
    BY DEF Init, ThreadInv, Exclusion, CurrentOp, CurrentSection, Idle, Accesses
  <2> QED
    BY <2>3, <2>4
<1>2. TypeOK /\ ThreadInv /\ [Next]_vars => (TypeOK /\ ThreadInv)'
  BY TypeStep, ThreadStep
<1> QED
  BY <1>1, <1>2, PTL DEF Spec

-----------------------------------------------------------------------------
(***************************************************************************)
(* The log and the history of accesses only grow, at their ends.           *)
(***************************************************************************)
LEMMA ProbeAppends ==
  ASSUME TypeOK, NEW t \in Threads, Probe(t)
  PROVE  /\ Len(log) \in Nat /\ Len(log') = Len(log) + 1
         /\ log'[Len(log) + 1] = cur[t]
         /\ \A j \in 1 .. Len(log) : log'[j] = log[j]
BY AppendProperties DEF TypeOK, Probe

LEMMA NoteAppends ==
  ASSUME TypeOK, NEW t \in Threads, Note(t)
  PROVE  /\ Len(exec) \in Nat
         /\ cur[t].hooked => /\ Len(exec') = Len(exec) + 1
                             /\ exec'[Len(exec) + 1] = cur[t].id
         /\ ~cur[t].hooked => exec' = exec
         /\ Len(exec') \in Nat /\ Len(exec') >= Len(exec)
         /\ \A k \in 1 .. Len(exec) : exec'[k] = exec[k]
BY AppendProperties DEF TypeOK, Note, Operations

LEMMA Growth ==
  ASSUME TypeOK, [Next]_vars
  PROVE  /\ Len(log) \in Nat /\ Len(log') \in Nat /\ Len(log') >= Len(log)
         /\ \A j \in 1 .. Len(log) : log'[j] = log[j]
         /\ Len(exec) \in Nat /\ Len(exec') \in Nat /\ Len(exec') >= Len(exec)
         /\ \A k \in 1 .. Len(exec) : exec'[k] = exec[k]
<1>1. Len(log) \in Nat /\ Len(exec) \in Nat
  BY DEF TypeOK
<1>2. CASE UNCHANGED <<log, exec>>
  BY <1>1, <1>2
<1>3. ASSUME NEW t \in Threads, Probe(t) PROVE UNCHANGED exec
  BY <1>3 DEF Probe
<1>4. ASSUME NEW t \in Threads, Load(t) \/ Store(t) PROVE UNCHANGED log /\ Note(t)
  BY <1>4 DEF Load, Store
<1> QED
  BY <1>1, <1>2, <1>3, <1>4, ProbeAppends, NoteAppends
     DEF Next, Step, Start, StartAccess, StartLock, StartUnlock, Lock, Unlock, Finished, vars

(***************************************************************************)
(* Reads-from.                                                             *)
(***************************************************************************)
StoreLogged(s) == \E j \in 1 .. Len(log) : log[j].op = "store" /\ log[j].id = s

ReadsInv ==
  /\ \A a \in Addrs : mem[a] # None => StoreLogged(mem[a])
  /\ \A t \in Threads : cur[t].from # None => StoreLogged(cur[t].from)
  /\ \A t \in Threads :
       cur[t].op = "store" /\ cur[t].hooked /\ "probe" \notin todo[t] => StoreLogged(cur[t].id)
  /\ ReadsFromLogged

LEMMA ReadsStep ==
  ASSUME TypeOK, ThreadInv, ReadsInv, [Next]_vars
  PROVE  ReadsInv'
<1> USE Growth
<1>1. \A s : StoreLogged(s) => \E j \in 1 .. Len(log') : log'[j].op = "store" /\ log'[j].id = s
  BY DEF StoreLogged
<1>2. ASSUME UNCHANGED log PROVE ReadsFromLogged'
  BY <1>2 DEF ReadsInv, ReadsFromLogged
<1>3. ASSUME NEW t \in Threads, Probe(t) PROVE ReadsInv'
  <2>1. UNCHANGED <<cur, mem>> /\ todo' = [todo EXCEPT ![t] = todo[t] \ {"probe"}]
    BY <1>3 DEF Probe
  <2>2. ReadsFromLogged'
    <3> SUFFICES ASSUME NEW i \in 1 .. Len(log'), log'[i].op = "load", log'[i].from # None
                 PROVE  \E j \in 1 .. i - 1 : log'[j].op = "store" /\ log'[j].id = log'[i].from
      BY DEF ReadsFromLogged
    <3>1. CASE i \in 1 .. Len(log)
      <4>1. log'[i] = log[i]
        BY <3>1
      <4>2. PICK j \in 1 .. i - 1 : log[j].op = "store" /\ log[j].id = log[i].from
        BY <3>1, <4>1 DEF ReadsInv, ReadsFromLogged
      <4>3. log'[j] = log[j]
        BY <3>1
      <4> QED
        BY <4>1, <4>2, <4>3
    <3>2. CASE i = Len(log) + 1
      <4>1. log'[i] = cur[t] /\ StoreLogged(cur[t].from)
        BY <1>3, <3>2, ProbeAppends DEF ReadsInv
      <4>2. PICK j \in 1 .. Len(log) : log[j].op = "store" /\ log[j].id = cur[t].from
        BY <4>1 DEF StoreLogged
      <4> QED
        BY <3>2, <4>1, <4>2
    <3> QED
      BY <1>3, <3>1, <3>2, ProbeAppends
  <2>3. cur[t].op = "store" => StoreLogged(cur[t].id)'
    BY <1>3, <2>1, ProbeAppends DEF StoreLogged
  <2>4. \A a \in Addrs : mem'[a] # None => StoreLogged(mem[a])'
    BY <1>1, <2>1 DEF ReadsInv, StoreLogged
  <2>5. \A u \in Threads : cur'[u].from # None => StoreLogged(cur[u].from)'
    BY <1>1, <2>1 DEF ReadsInv, StoreLogged
  <2>6. \A u \in Threads :
          cur'[u].op = "store" /\ cur'[u].hooked /\ "probe" \notin todo'[u]
            => StoreLogged(cur[u].id)'
    <3>1. \A u \in Threads \ {t} : todo'[u] = todo[u]
      BY <2>1 DEF TypeOK
    <3>2. \A u \in Threads \ {t} :
            cur[u].op = "store" /\ cur[u].hooked /\ "probe" \notin todo[u]
              => StoreLogged(cur[u].id)'
      BY <1>1, <2>1 DEF ReadsInv, StoreLogged
    <3> QED
      BY <2>1, <2>3, <3>1, <3>2
  <2> QED
    BY <2>2, <2>4, <2>5, <2>6 DEF ReadsInv
<1>4. ASSUME NEW t \in Threads, Load(t) PROVE ReadsInv'
  <2>1. /\ cur' = [cur EXCEPT ![t] = [cur[t] EXCEPT !.from = mem[cur[t].addr]]]
        /\ todo' = [todo EXCEPT ![t] = todo[t] \ {"effect"}]
        /\ UNCHANGED <<mem, log>> /\ cur[t].op = "load"
    BY <1>4 DEF Load, Perform
  <2>2. cur[t].addr \in Addrs
    BY <2>1 DEF TypeOK, Accesses
  <2>3. cur'[t].op = "load" /\ cur'[t].from = mem[cur[t].addr]
    BY <2>1 DEF TypeOK, Operations
  <2>4. \A u \in Threads \ {t} : cur'[u] = cur[u] /\ todo'[u] = todo[u]
    BY <2>1 DEF TypeOK
  <2> QED
    BY <1>2, <2>1, <2>2, <2>3, <2>4 DEF ReadsInv, StoreLogged
<1>5. ASSUME NEW t \in Threads, Store(t) PROVE ReadsInv'
  <2>1. /\ mem' = [mem EXCEPT ![cur[t].addr] = IF cur[t].hooked THEN cur[t].id ELSE None]
        /\ todo' = [todo EXCEPT ![t] = todo[t] \ {"effect"}]
        /\ UNCHANGED <<cur, log>> /\ cur[t].op = "store" /\ "probe" \notin todo[t]
    BY <1>5 DEF Store, Perform, ProbeFirst
  <2>2. cur[t].hooked => StoreLogged(cur[t].id)
    BY <2>1 DEF ReadsInv
  <2>3. \A a \in Addrs : mem'[a] # None => StoreLogged(mem'[a])
    BY <2>1, <2>2 DEF ReadsInv, TypeOK
  <2>4. \A u \in Threads : "probe" \notin todo'[u] => "probe" \notin todo[u]
    BY <2>1 DEF TypeOK
  <2> QED
    BY <1>2, <2>1, <2>3, <2>4 DEF ReadsInv, StoreLogged
<1>6. ASSUME NEW t \in Threads, NEW op, NEW a, NEW m, Start(t, op, a, m) PROVE ReadsInv'
  <2>1. UNCHANGED <<mem, log>>
    BY <1>6 DEF Start
  <2>2. cur'[t].from = None /\ (cur'[t].hooked => "probe" \in todo'[t])
    BY <1>6 DEF Start, TypeOK, Hooks
  <2>3. \A u \in Threads \ {t} : cur'[u] = cur[u] /\ todo'[u] = todo[u]
    BY <1>6 DEF Start, TypeOK
  <2> QED
    BY <1>2, <2>1, <2>2, <2>3 DEF ReadsInv, StoreLogged
<1>7. ASSUME NEW t \in Threads, Lock(t) \/ Unlock(t) PROVE ReadsInv'
  <2>1. UNCHANGED <<cur, mem, log>> /\ todo' = [todo EXCEPT ![t] = todo[t] \ {"effect"}]
    BY <1>7 DEF Lock, Unlock, Perform
  <2>2. \A u \in Threads : "probe" \notin todo'[u] => "probe" \notin todo[u]
    BY <2>1 DEF TypeOK
  <2> QED
    BY <1>2, <2>1, <2>2 DEF ReadsInv, StoreLogged
<1>8. CASE UNCHANGED vars
  BY <1>2, <1>8 DEF vars, ReadsInv, StoreLogged
<1> QED
  BY <1>3, <1>4, <1>5, <1>6, <1>7, <1>8
     DEF Next, Step, StartAccess, StartLock, StartUnlock, Finished

(***************************************************************************)
(* TracedProgram!ReadsFromLogged: the line of the store a load has read    *)
(* from is in the log before the line of the load.                         *)
(***************************************************************************)
THEOREM ReadsFrom == Spec => []ReadsFromLogged
<1>1. Init => ReadsInv
  <2> SUFFICES ASSUME Init PROVE ReadsInv
    OBVIOUS
  <2>1. Len(log) = 0
    BY EmptySeq DEF Init
  <2> QED
    BY <2>1 DEF Init, ReadsInv, ReadsFromLogged, Idle
<1>2. TypeOK /\ ThreadInv /\ ReadsInv /\ [Next]_vars => ReadsInv'
  BY ReadsStep
<1>3. ReadsInv => ReadsFromLogged
  BY DEF ReadsInv
<1> QED
  BY <1>1, <1>2, <1>3, ThreadsCorrect, PTL DEF Spec

-----------------------------------------------------------------------------
(***************************************************************************)
(* The order of accesses.                                                  *)
(***************************************************************************)
Before(a, b) == \E k \in 1 .. Len(exec) : exec[k] = a /\ \A l \in 1 .. k : exec[l] # b

\* Which operations have been performed.
DoneInv ==
  /\ \A k \in 1 .. Len(exec) : exec[k][2] <= ops[exec[k][1]]
  /\ \A t \in Threads : "effect" \in todo[t] => cur[t].id \notin Performed
  /\ \A t \in Threads :
       cur[t].hooked /\ cur[t].op \in Accesses /\ "effect" \notin todo[t] => cur[t].id \in Performed
  /\ \A i \in 1 .. Len(log) : log[i].hooked
  /\ \A i \in 1 .. Len(log) : log[i].op = "load" => log[i].id \in Performed
  /\ \A i \in 1 .. Len(log) :
       log[i].op = "store" /\ log[i].id \notin Performed =>
         \E u \in Threads : log[i] = cur[u] /\ "effect" \in todo[u]

\* The access a thread is at, inside a section, comes after what is logged of
\* the sections that exclude its own.
InOrder ==
  \A t \in Threads : \A i \in 1 .. Len(log) :
    section[t] # None /\ cur[t].section = section[t] /\ Exclusive(log[i], cur[t])
      => Before(log[i].id, cur[t].id)

OrderInv == DoneInv /\ InOrder /\ LoadStoreOrder /\ ProtectedOrder

LEMMA BeforeGrows ==
  ASSUME TypeOK, [Next]_vars, NEW a, NEW b, Before(a, b)
  PROVE  \E k \in 1 .. Len(exec') : exec'[k] = a /\ \A l \in 1 .. k : exec'[l] # b
<1>1. PICK k \in 1 .. Len(exec) : exec[k] = a /\ \A l \in 1 .. k : exec[l] # b
  BY DEF Before
<1>2. k \in 1 .. Len(exec') /\ \A l \in 1 .. k : l \in 1 .. Len(exec) /\ exec'[l] = exec[l]
  BY Growth
<1> QED
  BY <1>1, <1>2

LEMMA NewIsAfter ==
  ASSUME TypeOK, NEW a \in Performed, NEW b, b \notin Performed
  PROVE  Before(a, b)
<1>1. PICK k \in 1 .. Len(exec) : exec[k] = a
  BY DEF Performed
<1>2. Len(exec) \in Nat /\ \A l \in 1 .. k : l \in 1 .. Len(exec)
  BY DEF TypeOK
<1> QED
  BY <1>1, <1>2 DEF Before, Performed

LEMMA PerformedGrows ==
  ASSUME TypeOK, [Next]_vars
  PROVE  Performed \subseteq Performed'
BY Growth DEF Performed

\* A thread inside a section sees the excluded accesses in the log performed.
LEMMA ExcludedDone ==
  ASSUME TypeOK, ThreadInv, DoneInv, NEW t \in Threads, section[t] # None,
         NEW i \in 1 .. Len(log), log[i].op \in Accesses, Thread(log[i]) # t,
         log[i].section # None, "write" \in {log[i].mode, held[t]}
  PROVE  log[i].id \in Performed
<1> SUFFICES ASSUME log[i].id \notin Performed PROVE FALSE
  OBVIOUS
<1>1. log[i].op = "store"
  BY DEF DoneInv, Accesses
<1>2. PICK u \in Threads : log[i] = cur[u] /\ "effect" \in todo[u]
  BY <1>1 DEF DoneInv
<1>3. u # t
  BY <1>2 DEF ThreadInv, CurrentOp, Thread
<1>4. section[u] = log[i].section /\ held[u] = log[i].mode /\ held[u] # None /\ held[t] # None
  BY <1>1, <1>2 DEF ThreadInv, CurrentSection, Accesses
<1> QED
  BY <1>3, <1>4 DEF ThreadInv, Exclusion

LEMMA OrderStart ==
  ASSUME TypeOK, ThreadInv, OrderInv, [Next]_vars, NEW t \in Threads,
         NEW op \in Ops, NEW a, NEW m, Start(t, op, a, m), op \in Accesses => m = held[t]
  PROVE  OrderInv'
<1>1. /\ UNCHANGED <<held, section, log, exec>>
      /\ ops' = [ops EXCEPT ![t] = ops[t] + 1]
      /\ todo[t] = {}
  BY DEF Start
<1>2. /\ cur'[t].id = <<t, ops[t] + 1>> /\ cur'[t].op = op
      /\ cur'[t].section = section[t] /\ cur'[t].mode = m
      /\ "effect" \in todo'[t]
  BY DEF Start, TypeOK, Hooks
<1>3. \A u \in Threads \ {t} : cur'[u] = cur[u] /\ todo'[u] = todo[u]
  BY DEF Start, TypeOK
<1>4. Performed' = Performed
  BY <1>1 DEF Performed
<1>5. cur'[t].id \notin Performed
  <2> SUFFICES ASSUME NEW k \in 1 .. Len(exec), exec[k] = <<t, ops[t] + 1>> PROVE FALSE
    BY <1>2 DEF Performed
  <2>1. ops[t] \in Nat
    BY DEF TypeOK
  <2> QED
    BY <2>1 DEF OrderInv, DoneInv
<1>6. DoneInv'
  <2>1. \A k \in 1 .. Len(exec) : exec[k][1] \in Threads /\ exec[k][2] \in Nat
    BY DEF TypeOK, Ids
  <2>2. \A k \in 1 .. Len(exec') : exec'[k][2] <= ops'[exec'[k][1]]
    BY <1>1, <2>1 DEF OrderInv, DoneInv, TypeOK
  <2> QED
    BY <1>1, <1>2, <1>3, <1>4, <1>5, <2>2 DEF OrderInv, DoneInv
<1>7. InOrder'
  <2> SUFFICES ASSUME NEW u \in Threads, NEW i \in 1 .. Len(log),
                      section[u] # None, cur'[u].section = section[u],
                      Exclusive(log[i], cur'[u])
               PROVE  Before(log[i].id, cur'[u].id)
    BY <1>1 DEF InOrder, Before, Exclusive, Thread
  <2>1. CASE u = t
    <3>1. op \in Accesses /\ Thread(log[i]) # t /\ m = held[t]
      BY <1>2, <2>1 DEF Exclusive, Thread
    <3>2. log[i].id \in Performed
      BY <1>2, <2>1, <3>1, ExcludedDone DEF Exclusive, OrderInv
    <3> QED
      BY <1>5, <2>1, <3>2, NewIsAfter
  <2>2. CASE u # t
    BY <1>3, <2>2 DEF OrderInv, InOrder
  <2> QED
    BY <2>1, <2>2
<1> QED
  BY <1>1, <1>6, <1>7
     DEF OrderInv, LoadStoreOrder, ProtectedOrder, ExecutedBefore, Exclusive, Thread

LEMMA OrderProbe ==
  ASSUME TypeOK, ThreadInv, OrderInv, [Next]_vars, NEW t \in Threads, Probe(t)
  PROVE  OrderInv'
<1> DEFINE x == cur[t]
           n == Len(log)
<1>1. /\ UNCHANGED <<ops, cur, held, section, exec>>
      /\ todo' = [todo EXCEPT ![t] = todo[t] \ {"probe"}]
      /\ "probe" \in todo[t] /\ (ProbeFirst(x.op) \/ "effect" \notin todo[t])
  BY DEF Probe
<1>2. /\ n \in Nat /\ Len(log') = n + 1 /\ log'[n + 1] = x
      /\ \A j \in 1 .. n : log'[j] = log[j]
  BY ProbeAppends
<1>3. Performed' = Performed
  BY <1>1 DEF Performed
<1>4. x.hooked /\ x.id[1] = t
  BY <1>1 DEF ThreadInv, CurrentOp
<1>5. x.op = "load" => x.id \in Performed
  BY <1>1, <1>4 DEF ProbeFirst, OrderInv, DoneInv, Accesses
<1>6. x.op = "store" => "effect" \in todo[t] /\ x.id \notin Performed
  BY <1>1 DEF ProbeFirst, OrderInv, DoneInv, ThreadInv, CurrentOp
<1>7. DoneInv'
  <2>1. \A u \in Threads : "effect" \in todo'[u] <=> "effect" \in todo[u]
    BY <1>1 DEF TypeOK
  <2>2. \A i \in 1 .. n + 1 : i = n + 1 \/ i \in 1 .. n
    BY <1>2
  <2>3. \A i \in 1 .. n + 1 : log'[i].hooked
    BY <1>2, <1>4, <2>2 DEF OrderInv, DoneInv
  <2>4. \A i \in 1 .. n + 1 : log'[i].op = "load" => log'[i].id \in Performed
    BY <1>2, <1>5, <2>2 DEF OrderInv, DoneInv
  <2>5. \A i \in 1 .. n + 1 :
          log'[i].op = "store" /\ log'[i].id \notin Performed =>
            \E u \in Threads : log'[i] = cur[u] /\ "effect" \in todo[u]
    BY <1>2, <1>6, <2>2 DEF OrderInv, DoneInv
  <2> QED
    BY <1>1, <1>2, <1>3, <2>1, <2>3, <2>4, <2>5 DEF OrderInv, DoneInv
<1>8. x.op \in Accesses => x.section = section[t] /\ (section[t] # None => x.mode = held[t])
  BY <1>1 DEF ThreadInv, CurrentSection, Accesses
<1>9. InOrder'
  <2> SUFFICES ASSUME NEW u \in Threads, NEW i \in 1 .. n + 1,
                      section[u] # None, cur[u].section = section[u],
                      Exclusive(log'[i], cur[u])
               PROVE  Before(log'[i].id, cur[u].id)
    BY <1>1, <1>2 DEF InOrder, Before, Exclusive, Thread
  <2>1. CASE i \in 1 .. n
    BY <1>2, <2>1 DEF OrderInv, InOrder
  <2>2. CASE i = n + 1
    <3>1. log'[i] = x /\ cur[u].id[1] = u
      BY <1>2, <2>2 DEF ThreadInv, CurrentOp
    <3>2. /\ u # t /\ section[t] # None /\ held[t] = x.mode /\ held[u] = cur[u].mode
          /\ "write" \in {held[t], held[u]}
      BY <1>4, <1>8, <3>1 DEF Exclusive, Thread, ThreadInv, CurrentSection
    <3> QED
      BY <3>2 DEF ThreadInv, Exclusion, CurrentSection
  <2> QED
    BY <1>2, <2>1, <2>2
<1>10. ASSUME NEW j \in 1 .. n + 1, NEW i \in 1 .. j - 1,
              \/ log'[i].op = "load" /\ log'[j].op = "store"
              \/ Exclusive(log'[i], log'[j])
       PROVE  Before(log'[i].id, log'[j].id)
  <2>1. i \in 1 .. n /\ log'[i] = log[i]
    BY <1>2
  <2>2. CASE j \in 1 .. n
    BY <1>2, <1>10, <2>1, <2>2
       DEF OrderInv, LoadStoreOrder, ProtectedOrder, ExecutedBefore, Before
  <2>3. CASE j = n + 1 /\ log[i].op = "load" /\ x.op = "store"
    <3>1. log[i].id \in Performed /\ x.id \notin Performed /\ log'[j] = x
      BY <1>2, <1>6, <2>1, <2>3 DEF OrderInv, DoneInv
    <3> QED
      BY <2>1, <3>1, NewIsAfter
  <2>4. CASE j = n + 1 /\ Exclusive(log[i], x)
    BY <1>2, <1>8, <2>1, <2>4 DEF OrderInv, InOrder, Exclusive
  <2> QED
    BY <1>2, <1>10, <2>1, <2>2, <2>3, <2>4
<1> QED
  BY <1>1, <1>2, <1>7, <1>9, <1>10
     DEF OrderInv, LoadStoreOrder, ProtectedOrder, ExecutedBefore, Before, Exclusive, Thread

LEMMA OrderAccess ==
  ASSUME TypeOK, ThreadInv, OrderInv, [Next]_vars, NEW t \in Threads, Load(t) \/ Store(t)
  PROVE  OrderInv'
<1>1. /\ UNCHANGED <<ops, held, section, log>> /\ Note(t)
      /\ todo' = [todo EXCEPT ![t] = todo[t] \ {"effect"}]
      /\ cur[t].op \in Accesses /\ "effect" \in todo[t]
  BY DEF Load, Store, Perform, Accesses
<1>2. /\ cur'[t].id = cur[t].id /\ cur'[t].hooked = cur[t].hooked
      /\ cur'[t].op = cur[t].op /\ cur'[t].section = cur[t].section
      /\ cur'[t].mode = cur[t].mode
  BY DEF Load, Store, TypeOK, Operations
<1>3. \A u \in Threads \ {t} : cur'[u] = cur[u] /\ todo'[u] = todo[u]
  BY DEF Load, Store, Perform, TypeOK
<1>4. cur[t].op = "store" => cur' = cur
  BY DEF Load, Store, Perform
<1>5. "effect" \notin todo'[t]
  BY <1>1 DEF TypeOK
<1>6. \A u \in Threads : cur[u].id = <<u, ops[u]>>
  BY DEF ThreadInv, CurrentOp
<1>7. /\ Performed \subseteq Performed'
      /\ Performed' \subseteq Performed \cup {cur[t].id}
      /\ cur[t].hooked => cur[t].id \in Performed'
  <2>1. CASE cur[t].hooked
    <3>1. /\ Len(exec') = Len(exec) + 1 /\ Len(exec) \in Nat
          /\ exec'[Len(exec) + 1] = cur[t].id
          /\ \A k \in 1 .. Len(exec) : exec'[k] = exec[k]
      BY <1>1, <2>1, NoteAppends
    <3> QED
      BY <3>1 DEF Performed
  <2>2. CASE ~cur[t].hooked
    BY <1>1, <2>2, NoteAppends DEF Performed
  <2> QED
    BY <2>1, <2>2
<1>8. DoneInv'
  <2>1. \A k \in 1 .. Len(exec') : exec'[k][2] <= ops[exec'[k][1]]
    <3>1. \A e \in Performed : e[2] <= ops[e[1]]
      BY DEF OrderInv, DoneInv, Performed
    <3>2. cur[t].id[2] <= ops[cur[t].id[1]]
      BY <1>6 DEF TypeOK
    <3>3. \A e \in Performed' : e[2] <= ops[e[1]]
      BY <1>7, <3>1, <3>2
    <3> QED
      BY <3>3 DEF Performed
  <2>2. \A u \in Threads : "effect" \in todo'[u] => cur'[u].id \notin Performed'
    <3> SUFFICES ASSUME NEW u \in Threads, "effect" \in todo'[u]
                 PROVE  cur'[u].id \notin Performed'
      OBVIOUS
    <3>1. u # t /\ cur'[u].id \notin Performed
      BY <1>3, <1>5 DEF OrderInv, DoneInv
    <3>2. cur'[u].id # cur[t].id
      BY <1>3, <1>6, <3>1
    <3> QED
      BY <1>7, <3>1, <3>2
  <2>3. \A u \in Threads :
          cur'[u].hooked /\ cur'[u].op \in Accesses /\ "effect" \notin todo'[u]
            => cur'[u].id \in Performed'
    BY <1>2, <1>3, <1>7 DEF OrderInv, DoneInv
  <2>4. \A i \in 1 .. Len(log) : log[i].op = "load" => log[i].id \in Performed'
    BY <1>7 DEF OrderInv, DoneInv
  <2>5. \A i \in 1 .. Len(log) :
          log[i].op = "store" /\ log[i].id \notin Performed' =>
            \E u \in Threads : log[i] = cur'[u] /\ "effect" \in todo'[u]
    <3> SUFFICES ASSUME NEW i \in 1 .. Len(log), log[i].op = "store",
                        log[i].id \notin Performed'
                 PROVE  \E u \in Threads : log[i] = cur'[u] /\ "effect" \in todo'[u]
      OBVIOUS
    <3>1. PICK u \in Threads : log[i] = cur[u] /\ "effect" \in todo[u]
      BY <1>7 DEF OrderInv, DoneInv
    <3>2. u # t
      BY <1>7, <3>1 DEF OrderInv, DoneInv
    <3> QED
      BY <1>3, <3>1, <3>2
  <2> QED
    BY <1>1, <2>1, <2>2, <2>3, <2>4, <2>5 DEF OrderInv, DoneInv, Performed
<1>9. ASSUME NEW a, NEW b, Before(a, b)
      PROVE  \E k \in 1 .. Len(exec') : exec'[k] = a /\ \A l \in 1 .. k : exec'[l] # b
  BY <1>9, BeforeGrows
<1>10. InOrder'
  <2> SUFFICES ASSUME NEW u \in Threads, NEW i \in 1 .. Len(log),
                      section[u] # None, cur'[u].section = section[u],
                      Exclusive(log[i], cur'[u])
               PROVE  Before(log[i].id, cur[u].id)'
    BY <1>1 DEF InOrder, Before, Exclusive, Thread
  <2>1. /\ cur'[u].id = cur[u].id /\ cur'[u].section = cur[u].section
        /\ Exclusive(log[i], cur[u])
    BY <1>2, <1>3 DEF Exclusive, Thread
  <2>2. Before(log[i].id, cur[u].id)
    BY <2>1 DEF OrderInv, InOrder
  <2>3. \E k \in 1 .. Len(exec') :
          exec'[k] = log[i].id /\ \A l \in 1 .. k : exec'[l] # cur[u].id
    BY <1>9, <2>2
  <2> QED
    BY <1>1, <2>1, <2>3 DEF Before
<1>11. ASSUME NEW j \in 1 .. Len(log), NEW i \in 1 .. j - 1,
              Before(log[i].id, log[j].id)
       PROVE  ExecutedBefore(log[i], log[j])'
  BY <1>1, <1>9, <1>11 DEF ExecutedBefore
<1>12. LoadStoreOrder' /\ ProtectedOrder'
  BY <1>1, <1>11
     DEF OrderInv, LoadStoreOrder, ProtectedOrder, ExecutedBefore, Before, Exclusive, Thread
<1> QED
  BY <1>8, <1>10, <1>12 DEF OrderInv

LEMMA OrderLocking ==
  ASSUME TypeOK, ThreadInv, OrderInv, [Next]_vars, NEW t \in Threads, Lock(t) \/ Unlock(t)
  PROVE  OrderInv'
<1>1. /\ UNCHANGED <<ops, cur, log, exec>> /\ cur[t].op \notin Accesses
      /\ todo' = [todo EXCEPT ![t] = todo[t] \ {"effect"}]
  BY DEF Lock, Unlock, Perform, Accesses
<1>2. \A u \in Threads \ {t} : todo'[u] = todo[u] /\ section'[u] = section[u]
  BY DEF Lock, Unlock, Perform, TypeOK
<1>3. "effect" \notin todo'[t] /\ Performed' = Performed
  BY <1>1 DEF TypeOK, Performed
<1>4. DoneInv'
  <2>1. \A i \in 1 .. Len(log) : log[i].op = "store" => log[i] # cur[t]
    BY <1>1 DEF Accesses
  <2> QED
    BY <1>1, <1>2, <1>3, <2>1 DEF OrderInv, DoneInv
<1>5. InOrder'
  BY <1>1, <1>2 DEF OrderInv, InOrder, Before, Exclusive, Thread
<1> QED
  BY <1>1, <1>4, <1>5
     DEF OrderInv, LoadStoreOrder, ProtectedOrder, ExecutedBefore, Exclusive, Thread

LEMMA OrderStep ==
  ASSUME TypeOK, ThreadInv, OrderInv, [Next]_vars
  PROVE  OrderInv'
<1>1. ASSUME NEW t \in Threads, Step(t) PROVE OrderInv'
  <2>1. CASE StartAccess(t)
    BY <2>1, OrderStart DEF StartAccess, Ops
  <2>2. CASE StartLock(t)
    BY <2>2, OrderStart DEF StartLock, Ops, Accesses
  <2>3. CASE StartUnlock(t)
    BY <2>3, OrderStart DEF StartUnlock, Ops, Accesses
  <2> QED
    BY <1>1, <2>1, <2>2, <2>3, OrderProbe, OrderAccess, OrderLocking DEF Step
<1>2. CASE UNCHANGED vars
  BY <1>2 DEF vars, OrderInv, DoneInv, InOrder, Performed, Before, LoadStoreOrder,
     ProtectedOrder, ExecutedBefore, Exclusive, Thread
<1> QED
  BY <1>1, <1>2 DEF Next, Finished

(***************************************************************************)
(* TracedProgram!LoadStoreOrder and ProtectedOrder: where the order of the *)
(* log is the order of the execution.                                      *)
(***************************************************************************)
THEOREM OrderOfAccesses == Spec => [](LoadStoreOrder /\ ProtectedOrder)
<1>1. Init => OrderInv
  <2> SUFFICES ASSUME Init PROVE OrderInv
    OBVIOUS
  <2>1. Len(log) = 0 /\ Len(exec) = 0
    BY EmptySeq DEF Init
  <2> QED
    BY <2>1 DEF Init, OrderInv, DoneInv, InOrder, LoadStoreOrder, ProtectedOrder, Idle,
       Performed
<1>2. TypeOK /\ ThreadInv /\ OrderInv /\ [Next]_vars => OrderInv'
  BY OrderStep
<1>3. OrderInv => LoadStoreOrder /\ ProtectedOrder
  BY DEF OrderInv
<1> QED
  BY <1>1, <1>2, <1>3, ThreadsCorrect, PTL DEF Spec

-----------------------------------------------------------------------------
(***************************************************************************)
(* Sections.                                                               *)
(***************************************************************************)

\* Line x is an access made inside a section.
Inside(x) == x.op \in Accesses /\ x.section # None

\* Line k of l is the unlock line of section s, and no access of s comes later.
Ends(l, k, s) ==
  /\ l[k].op = "unlock" /\ l[k].section = s
  /\ \A i \in k .. Len(l) : Inside(l[i]) => l[i].section # s

\* The names of sections: each has been a lock operation of its thread.
NamesInv ==
  /\ \A t \in Threads : section[t] # None => section[t][2] <= ops[t]
  /\ \A i \in 1 .. Len(log) : Inside(log[i]) =>
       /\ log[i].section[1] = Thread(log[i]) /\ Thread(log[i]) \in Threads
       /\ log[i].section[2] <= ops[Thread(log[i])]
  /\ \A i \in 1 .. Len(log) : \A t \in Threads :
       Inside(log[i]) /\ cur[t].op = "lock" /\ "effect" \in todo[t] => log[i].section # cur[t].id

\* Open sections, and sections about to end, and sections that have ended.
MarksInv ==
  /\ \A i \in 1 .. Len(log) : \A t \in Threads :
       Inside(log[i]) /\ log[i].section = section[t] => log[i].mode = held[t]
  /\ \A t \in Threads :
       cur[t].op = "unlock" /\ cur[t].hooked /\ "effect" \in todo[t] /\ "probe" \notin todo[t]
         => \E k \in 1 .. Len(log) : Ends(log, k, section[t])
  /\ \A i \in 1 .. Len(log) :
       /\ Inside(log[i]) /\ log[i].section \notin unmarked
       /\ \A t \in Threads : section[t] # log[i].section
       => \E k \in i + 1 .. Len(log) : log[k].op = "unlock" /\ log[k].section = log[i].section

SectionInv == NamesInv /\ MarksInv /\ SectionsReadOffLog

LEMMA SectionStart ==
  ASSUME TypeOK, ThreadInv, SectionInv, NEW t \in Threads,
         NEW op, NEW a, NEW m, Start(t, op, a, m)
  PROVE  SectionInv'
<1>1. UNCHANGED <<held, section, log, unmarked>> /\ ops' = [ops EXCEPT ![t] = ops[t] + 1]
  BY DEF Start
<1>2. /\ cur'[t].id = <<t, ops[t] + 1>>
      /\ cur'[t].hooked => "probe" \in todo'[t]
      /\ \A u \in Threads \ {t} : cur'[u] = cur[u] /\ todo'[u] = todo[u]
  BY DEF Start, TypeOK, Hooks
<1>3. \A u \in Threads : ops[u] \in Nat /\ ops'[u] \in Nat /\ ops[u] <= ops'[u]
  BY <1>1 DEF TypeOK
<1>4. /\ \A u \in Threads : section[u] # None => section[u] \in Ids
      /\ \A i \in 1 .. Len(log) : Inside(log[i]) => log[i].section \in Ids
  <2>1. \A i \in 1 .. Len(log) : log[i] \in Operations
    BY DEF TypeOK
  <2> QED
    BY <2>1 DEF TypeOK, Operations, Inside
<1>5. NamesInv'
  <2>1. \A u \in Threads : section[u] # None => section[u][2] <= ops'[u]
    BY <1>3, <1>4 DEF SectionInv, NamesInv, Ids
  <2>2. \A i \in 1 .. Len(log) : Inside(log[i]) => log[i].section[2] <= ops'[Thread(log[i])]
    BY <1>3, <1>4 DEF SectionInv, NamesInv, Ids
  <2>3. \A i \in 1 .. Len(log) : Inside(log[i]) => log[i].section # cur'[t].id
    <3> SUFFICES ASSUME NEW i \in 1 .. Len(log), Inside(log[i]), log[i].section = <<t, ops[t] + 1>>
                 PROVE  FALSE
      BY <1>2
    <3>1. Thread(log[i]) = t /\ ops[t] + 1 <= ops[t]
      BY DEF SectionInv, NamesInv
    <3> QED
      BY <1>3, <3>1
  <2> QED
    BY <1>1, <1>2, <2>1, <2>2, <2>3 DEF SectionInv, NamesInv, Inside, Thread
<1>6. MarksInv'
  BY <1>1, <1>2 DEF SectionInv, MarksInv, Inside, Ends
<1> QED
  BY <1>1, <1>5, <1>6
     DEF SectionInv, SectionsReadOffLog, Exclusive, Thread

LEMMA SectionProbe ==
  ASSUME TypeOK, ThreadInv, SectionInv, NEW t \in Threads, Probe(t)
  PROVE  SectionInv'
<1> DEFINE x == cur[t]
           n == Len(log)
<1>1. /\ UNCHANGED <<ops, cur, held, section, unmarked>>
      /\ todo' = [todo EXCEPT ![t] = todo[t] \ {"probe"}]
      /\ "probe" \in todo[t]
  BY DEF Probe
<1>2. /\ n \in Nat /\ Len(log') = n + 1 /\ log'[n + 1] = x
      /\ \A j \in 1 .. n : log'[j] = log[j]
  BY ProbeAppends
<1>3. /\ x.id[1] = t
      /\ x.op # "lock" => x.section = section[t]
      /\ section[t] # None => section[t][1] = t /\ held[t] # None
      /\ x.op \in Accesses /\ x.section # None => x.mode = held[t]
  BY <1>1 DEF ThreadInv, CurrentOp, CurrentSection, Accesses
<1>4. Inside(x) <=> x.op \in Accesses /\ x.section # None
  BY DEF Inside
<1>5. \A u \in Threads : "effect" \in todo'[u] <=> "effect" \in todo[u]
  BY <1>1 DEF TypeOK
<1>6. \A i \in 1 .. n + 1 : i = n + 1 \/ i \in 1 .. n
  BY <1>2
<1>7. Inside(x) => \A u \in Threads : section[u] = x.section => u = t
  BY <1>3, <1>4 DEF ThreadInv, CurrentSection, Accesses
<1>8. NamesInv'
  <2>1. \A i \in 1 .. n + 1 : Inside(log'[i]) =>
          /\ log'[i].section[1] = Thread(log'[i]) /\ Thread(log'[i]) \in Threads
          /\ log'[i].section[2] <= ops[Thread(log'[i])]
    <3>1. Inside(x) => /\ x.section[1] = t /\ x.section[2] <= ops[t]
      BY <1>3, <1>4 DEF SectionInv, NamesInv, Accesses
    <3>2. Thread(x) = t
      BY <1>3 DEF Thread
    <3> QED
      BY <1>2, <1>4, <1>6, <3>1, <3>2 DEF SectionInv, NamesInv
  <2>2. \A i \in 1 .. n + 1 : \A u \in Threads :
          Inside(log'[i]) /\ cur[u].op = "lock" /\ "effect" \in todo[u] => log'[i].section # cur[u].id
    <3>1. ASSUME Inside(x), NEW u \in Threads, cur[u].op = "lock", "effect" \in todo[u]
          PROVE  x.section # cur[u].id
      <4>1. u # t /\ cur[u].id[1] = u /\ x.section[1] = t
        BY <1>3, <1>4, <3>1 DEF ThreadInv, CurrentOp, Accesses
      <4> QED
        BY <4>1
    <3> QED
      BY <1>2, <1>4, <1>6, <3>1 DEF SectionInv, NamesInv
  <2>3. \A u \in Threads : section[u] # None => section[u][2] <= ops[u]
    BY DEF SectionInv, NamesInv
  <2> QED
    BY <1>1, <1>2, <1>5, <2>1, <2>2, <2>3 DEF NamesInv, Inside, Thread
<1>9. MarksInv'
  <2>1. \A i \in 1 .. n + 1 : \A u \in Threads :
          Inside(log'[i]) /\ log'[i].section = section[u] => log'[i].mode = held[u]
    BY <1>2, <1>3, <1>4, <1>6, <1>7 DEF SectionInv, MarksInv
  <2>2. ASSUME NEW u \in Threads, NEW k \in 1 .. n, Ends(log, k, section[u]), section[u] # None, u # t
        PROVE  Ends(log', k, section[u])
    <3>1. \A i \in k .. n + 1 : Inside(log'[i]) => log'[i].section # section[u]
      <4> SUFFICES ASSUME NEW i \in k .. n + 1, Inside(log'[i]), log'[i].section = section[u]
                   PROVE  FALSE
        OBVIOUS
      <4>1. CASE i = n + 1
        BY <1>2, <1>7, <2>2, <4>1
      <4>2. CASE i # n + 1
        <5>1. i \in k .. n /\ i \in 1 .. n
          BY <1>2, <4>2
        <5> QED
          BY <1>2, <1>4, <2>2, <5>1 DEF Ends
      <4> QED
        BY <4>1, <4>2
    <3> QED
      BY <1>1, <1>2, <2>2, <3>1 DEF Ends, Inside
  <2>3. ASSUME x.op = "unlock" PROVE Ends(log', n + 1, section[t])
    BY <1>1, <1>2, <1>3, <2>3 DEF Ends, Inside, Accesses
  <2>4. ASSUME NEW u \in Threads, cur[u].op = "unlock", cur[u].hooked, "effect" \in todo[u],
               "probe" \notin todo'[u]
        PROVE  \E k \in 1 .. n + 1 : Ends(log', k, section[u])
    <3>1. CASE u = t
      BY <1>2, <2>3, <2>4, <3>1
    <3>2. CASE u # t
      <4>1. "probe" \notin todo[u] /\ section[u] # None
        BY <1>1, <2>4, <3>2 DEF TypeOK, ThreadInv, CurrentSection
      <4>2. PICK k \in 1 .. n : Ends(log, k, section[u])
        BY <2>4, <4>1 DEF SectionInv, MarksInv
      <4>3. Ends(log', k, section[u])
        BY <2>2, <3>2, <4>1, <4>2
      <4> QED
        BY <1>2, <4>3
    <3> QED
      BY <3>1, <3>2
  <2>5. ASSUME NEW i \in 1 .. n + 1, Inside(log'[i]), log'[i].section \notin unmarked,
               \A u \in Threads : section[u] # log'[i].section
        PROVE  \E k \in i + 1 .. n + 1 : log'[k].op = "unlock" /\ log'[k].section = log'[i].section
    <3>1. i \in 1 .. n
      BY <1>2, <1>3, <1>4, <1>6, <2>5 DEF Accesses
    <3>2. PICK k \in i + 1 .. n : log[k].op = "unlock" /\ log[k].section = log[i].section
      BY <1>2, <1>4, <2>5, <3>1 DEF SectionInv, MarksInv
    <3>3. k \in i + 1 .. n + 1 /\ log'[k] = log[k] /\ log'[i] = log[i]
      BY <1>2, <3>1, <3>2
    <3> QED
      BY <3>2, <3>3
  <2> QED
    BY <1>1, <1>2, <1>5, <2>1, <2>4, <2>5 DEF MarksInv, Inside, Ends
<1>10. SectionsReadOffLog'
  <2> SUFFICES ASSUME NEW j \in 1 .. n + 1, NEW i \in 1 .. j - 1,
                      Exclusive(log'[i], log'[j]), log'[i].section \notin unmarked
               PROVE  \E k \in i + 1 .. j - 1 :
                        log'[k].op = "unlock" /\ log'[k].section = log'[i].section
    BY <1>1, <1>2 DEF SectionsReadOffLog, Exclusive, Thread
  <2>1. i \in 1 .. n /\ log'[i] = log[i] /\ Inside(log[i])
    BY <1>2 DEF Exclusive, Inside
  <2>2. PICK k \in i + 1 .. j - 1 : log[k].op = "unlock" /\ log[k].section = log[i].section
    <3>1. CASE j \in 1 .. n
      BY <1>2, <2>1, <3>1 DEF SectionInv, SectionsReadOffLog
    <3>2. CASE j = n + 1
      <4>1. /\ log'[j] = x /\ x.op \in Accesses /\ x.section # None
            /\ Thread(log[i]) # t /\ "write" \in {log[i].mode, x.mode}
        BY <1>2, <1>3, <2>1, <3>2 DEF Exclusive, Thread
      <4>2. ASSUME NEW u \in Threads, section[u] = log[i].section PROVE FALSE
        <5>1. u # t /\ held[u] = log[i].mode /\ held[u] # None
          BY <2>1, <4>1, <4>2
             DEF SectionInv, NamesInv, MarksInv, Inside, ThreadInv, CurrentSection
        <5>2. held[t] = x.mode /\ held[t] # None
          BY <1>3, <4>1 DEF Accesses
        <5> QED
          BY <4>1, <5>1, <5>2 DEF ThreadInv, Exclusion
      <4> QED
        BY <1>2, <2>1, <3>2, <4>2 DEF SectionInv, MarksInv
    <3> QED
      BY <1>6, <3>1, <3>2
  <2>3. log'[k] = log[k]
    BY <1>2
  <2> QED
    BY <2>1, <2>2, <2>3
<1> QED
  BY <1>8, <1>9, <1>10 DEF SectionInv

LEMMA SectionAccess ==
  ASSUME TypeOK, ThreadInv, SectionInv, NEW t \in Threads, Load(t) \/ Store(t)
  PROVE  SectionInv'
<1>1. /\ UNCHANGED <<ops, held, section, log, unmarked>> /\ cur[t].op \in Accesses
      /\ todo' = [todo EXCEPT ![t] = todo[t] \ {"effect"}]
  BY DEF Load, Store, Perform, Accesses
<1>2. cur'[t].op = cur[t].op
  BY DEF Load, Store, TypeOK, Operations
<1>3. \A u \in Threads \ {t} : cur'[u] = cur[u] /\ todo'[u] = todo[u]
  BY DEF Load, Store, Perform, TypeOK
<1>4. NamesInv'
  BY <1>1, <1>2, <1>3 DEF SectionInv, NamesInv, Inside, Thread, Accesses
<1>5. MarksInv'
  BY <1>1, <1>2, <1>3 DEF SectionInv, MarksInv, Inside, Ends, Accesses
<1> QED
  BY <1>1, <1>4, <1>5 DEF SectionInv, SectionsReadOffLog, Exclusive, Thread

LEMMA SectionLock ==
  ASSUME TypeOK, ThreadInv, SectionInv, NEW t \in Threads, Lock(t)
  PROVE  SectionInv'
<1>1. /\ UNCHANGED <<ops, cur, log, unmarked>>
      /\ cur[t].op = "lock" /\ "effect" \in todo[t]
      /\ section' = [section EXCEPT ![t] = cur[t].id]
      /\ held' = [held EXCEPT ![t] = cur[t].mode]
      /\ todo' = [todo EXCEPT ![t] = todo[t] \ {"effect"}]
  BY DEF Lock, Perform
<1>2. /\ section[t] = None /\ cur[t].id = <<t, ops[t]>> /\ ops[t] \in Nat
      /\ section'[t] = cur[t].id
  BY <1>1 DEF TypeOK, ThreadInv, CurrentOp, CurrentSection
<1>3. \A u \in Threads \ {t} : todo'[u] = todo[u] /\ section'[u] = section[u] /\ held'[u] = held[u]
  BY <1>1 DEF TypeOK
<1>4. \A u \in Threads : "effect" \in todo'[u] => "effect" \in todo[u]
  BY <1>1 DEF TypeOK
<1>5. NamesInv'
  BY <1>1, <1>2, <1>3, <1>4 DEF SectionInv, NamesInv, Inside, Thread
<1>6. MarksInv'
  <2>1. \A i \in 1 .. Len(log) : Inside(log[i]) => log[i].section # section'[t]
    BY <1>1, <1>2 DEF SectionInv, NamesInv
  <2>2. \A i \in 1 .. Len(log) : \A u \in Threads :
          Inside(log[i]) /\ log[i].section = section'[u] => log[i].mode = held'[u]
    BY <1>3, <2>1 DEF SectionInv, MarksInv
  <2>3. \A u \in Threads : cur[u].op = "unlock" => u # t
    BY <1>1
  <2>4. \A i \in 1 .. Len(log) :
          Inside(log[i]) /\ (\A u \in Threads : section'[u] # log[i].section)
            => \A u \in Threads : section[u] # log[i].section
    BY <1>2, <1>3 DEF Inside
  <2> QED
    BY <1>1, <1>3, <2>2, <2>3, <2>4 DEF SectionInv, MarksInv
<1>7. log' = log /\ unmarked' = unmarked
  BY <1>1
<1>8. SectionsReadOffLog'
  BY <1>7, Zenon DEF SectionInv, SectionsReadOffLog
<1> QED
  BY <1>5, <1>6, <1>8 DEF SectionInv

LEMMA SectionUnlock ==
  ASSUME TypeOK, ThreadInv, SectionInv, NEW t \in Threads, Unlock(t)
  PROVE  SectionInv'
<1>1. /\ UNCHANGED <<ops, cur, log>>
      /\ cur[t].op = "unlock" /\ "effect" \in todo[t] /\ "probe" \notin todo[t]
      /\ section' = [section EXCEPT ![t] = None]
      /\ held' = [held EXCEPT ![t] = None]
      /\ todo' = [todo EXCEPT ![t] = todo[t] \ {"effect"}]
      /\ unmarked' = IF cur[t].hooked THEN unmarked ELSE unmarked \cup {section[t]}
  BY DEF Unlock, Perform, ProbeFirst
<1>2. section'[t] = None
  BY <1>1 DEF TypeOK
<1>3. \A u \in Threads \ {t} : todo'[u] = todo[u] /\ section'[u] = section[u] /\ held'[u] = held[u]
  BY <1>1 DEF TypeOK
<1>4. \A u \in Threads : "effect" \in todo'[u] => "effect" \in todo[u] /\ u # t
  BY <1>1 DEF TypeOK
<1>5. NamesInv'
  BY <1>1, <1>2, <1>3, <1>4 DEF SectionInv, NamesInv, Inside, Thread
<1>6. MarksInv'
  <2>1. \A i \in 1 .. Len(log) : \A u \in Threads :
          Inside(log[i]) /\ log[i].section = section'[u] => log[i].mode = held'[u]
    BY <1>2, <1>3 DEF SectionInv, MarksInv, Inside
  <2>2. ASSUME NEW i \in 1 .. Len(log), Inside(log[i]), log[i].section \notin unmarked',
               \A u \in Threads : section'[u] # log[i].section
        PROVE  \E k \in i + 1 .. Len(log) : log[k].op = "unlock" /\ log[k].section = log[i].section
    <3>1. log[i].section \notin unmarked
      BY <1>1, <2>2
    <3>2. CASE log[i].section # section[t]
      BY <1>3, <2>2, <3>1, <3>2 DEF SectionInv, MarksInv
    <3>3. CASE log[i].section = section[t]
      <4>1. cur[t].hooked
        BY <1>1, <2>2, <3>3
      <4>2. PICK k \in 1 .. Len(log) : Ends(log, k, section[t])
        BY <1>1, <4>1 DEF SectionInv, MarksInv
      <4>3. ~(k <= i)
        <5>1. k <= i => i \in k .. Len(log)
          OBVIOUS
        <5> QED
          BY <2>2, <3>3, <4>2, <5>1 DEF Ends
      <4> QED
        BY <3>3, <4>2, <4>3 DEF Ends
    <3> QED
      BY <3>2, <3>3
  <2>3. \A u \in Threads :
          cur[u].op = "unlock" /\ cur[u].hooked /\ "effect" \in todo'[u] /\ "probe" \notin todo'[u]
            => \E k \in 1 .. Len(log) : Ends(log, k, section'[u])
    BY <1>3, <1>4 DEF SectionInv, MarksInv
  <2> QED
    BY <1>1, <2>1, <2>2, <2>3 DEF MarksInv
<1>7. SectionsReadOffLog'
  <2>1. unmarked \subseteq unmarked'
    BY <1>1
  <2> QED
    BY <1>1, <2>1 DEF SectionInv, SectionsReadOffLog, Exclusive, Thread
<1> QED
  BY <1>5, <1>6, <1>7 DEF SectionInv

LEMMA SectionStep ==
  ASSUME TypeOK, ThreadInv, SectionInv, [Next]_vars
  PROVE  SectionInv'
<1>1. ASSUME NEW t \in Threads, Step(t) PROVE SectionInv'
  BY <1>1, SectionStart, SectionProbe, SectionAccess, SectionLock, SectionUnlock
     DEF Step, StartAccess, StartLock, StartUnlock
<1>2. CASE UNCHANGED vars
  BY <1>2 DEF vars, SectionInv, NamesInv, MarksInv, SectionsReadOffLog, Exclusive, Thread,
     Inside, Ends
<1> QED
  BY <1>1, <1>2 DEF Next, Finished

(***************************************************************************)
(* TracedProgram!SectionsReadOffLog: the unlock lines mark the end of the  *)
(* sections, in every program and wherever probes are missing.             *)
(***************************************************************************)
THEOREM SectionsMarked == Spec => []SectionsReadOffLog
<1>1. Init => SectionInv
  <2> SUFFICES ASSUME Init PROVE SectionInv
    OBVIOUS
  <2>1. Len(log) = 0
    BY EmptySeq DEF Init
  <2> QED
    BY <2>1 DEF Init, SectionInv, NamesInv, MarksInv, SectionsReadOffLog, Idle
<1>2. TypeOK /\ ThreadInv /\ SectionInv /\ [Next]_vars => SectionInv'
  BY SectionStep
<1>3. SectionInv => SectionsReadOffLog
  BY DEF SectionInv
<1> QED
  BY <1>1, <1>2, <1>3, ThreadsCorrect, PTL DEF Spec
=============================================================================
