--------------------------- MODULE TraceRunProofs ---------------------------
(***************************************************************************)
(* Proofs about an execution and its report, for any number of threads,    *)
(* ids, variables, addresses and lines: no two threads that lived at the   *)
(* same time are missed, and no group has one thread only.                 *)
(***************************************************************************)
EXTENDS TraceRun, AtomReportProofs

-----------------------------------------------------------------------------
(* The inductive invariant of the program *)

\* An event has the names that its thread and its variable had.
Named == [nth : Nat, thread : Threads, var : Vars, tid : Tids, addr : Addrs, op : Ops]

TypeInv ==
  /\ log \in Seq(Named) /\ recorded \in Seq(Named)
  /\ phase \in {"unopened", "open", "sealed", "lost"}
  /\ tid \in [Threads -> Tids \cup {None}] /\ over \subseteq Threads
  /\ addr \in [Vars -> Addrs \cup {None}] /\ freed \subseteq Vars
  /\ at \in [Threads -> {None} \cup (Ops \X Vars)]
  /\ performed \subseteq Threads \X Vars

\* The log is complete until the process dies.
LogInv ==
  /\ phase # "lost" => log = recorded
  /\ Ran(log) \subseteq Ran(recorded)

\* An access that is under way has both its names.
AtInv ==
  \A t \in Threads : at[t] # None => tid[t] # None /\ addr[at[t][2]] # None

\* A thread has one id, and shares it with no thread that it has met.
IdInv ==
  /\ \A t \in over : tid[t] = None
  /\ \A t, u \in Threads : tid[t] = tid[u] /\ tid[t] # None => t = u
  /\ \A e \in Ran(recorded) :
       IF tid[e.thread] = None THEN e.thread \in over ELSE e.tid = tid[e.thread]
  /\ \A e, f \in Ran(recorded) : e.thread = f.thread => e.tid = f.tid
  /\ \A t, u \in Threads : {t, u} \in met =>
       t # u /\ (tid[t] # None \/ t \in over) /\ (tid[u] # None \/ u \in over)
  /\ \A t \in Threads : \A f \in Ran(recorded) :
       tid[t] # None /\ {t, f.thread} \in met => f.tid # tid[t]
  /\ \A e, f \in Ran(recorded) : {e.thread, f.thread} \in met => e.tid # f.tid

\* A variable has one address, and shares it with none that is allocated.
AddrInv ==
  /\ \A v \in freed : addr[v] = None
  /\ \A e \in Ran(recorded) :
       IF addr[e.var] = None THEN e.var \in freed ELSE e.addr = addr[e.var]
  /\ \A e, f \in Ran(recorded) : e.var = f.var => e.addr = f.addr
  /\ \A v, w \in Vars : addr[v] = addr[w] /\ addr[v] # None => v = w

HasEvent(events, t, v) == \E e \in events : e.thread = t /\ e.var = v

Loading(access, v) == access # None /\ access = <<"load", v>>

\* An access that was performed has its line, but for a load under way.
PerformedInv ==
  /\ \A x \in performed : HasEvent(Ran(recorded), x[1], x[2]) \/ Loading(at[x[1]], x[2])
  /\ \A t \in Threads : at[t] # None /\ at[t][1] # "load" => HasEvent(Ran(recorded), t, at[t][2])

ProgramInv == TypeInv /\ LogInv /\ AtInv /\ IdInv /\ AddrInv /\ PerformedInv

-----------------------------------------------------------------------------
(* The inductive invariant of the script *)

\* The fields of the line of event e.
Fields(e) == <<e.tid, "number", "file", e.addr, e.op>>

\* A list of fields with an address has its thread from event e, and its address
\* too, or one that was cut.
FromEvent(fields, e) ==
  4 \in DOMAIN fields => fields[1] = e.tid /\ fields[4] \in {e.addr, "part"}

\* Every event of the log has its line, and every line has its event.
FileInv ==
  /\ \A i \in 1 .. Len(log) : i <= Len(file) /\ Split(file[i]) = Fields(log[i])
  /\ \A i \in 1 .. Len(file) : \E e \in Ran(recorded) : FromEvent(Split(file[i]), e)

ScriptInv ==
  /\ phase \in {"unopened", "open"} => file = <<>> /\ Start
  /\ phase \in {"sealed", "lost"} => FileInv
  /\ ReadInv /\ ReportInv

-----------------------------------------------------------------------------
(* The program preserves its invariant *)

LEMMA InitProgram == RunInit => ProgramInv
<1> SUFFICES ASSUME RunInit PROVE ProgramInv
  OBVIOUS
<1>1. log = <<>> /\ recorded = <<>> /\ Ran(recorded) = {} /\ Ran(log) = {}
  BY DEF RunInit, Ran
<1>2. TypeInv
  BY <1>1, MainAssumption DEF RunInit, TypeInv
<1>3. LogInv /\ AtInv
  BY <1>1 DEF RunInit, LogInv, AtInv
<1>4. IdInv
  BY <1>1, MainAssumption DEF RunInit, IdInv
<1>5. AddrInv /\ PerformedInv
  BY <1>1 DEF RunInit, AddrInv, PerformedInv
<1> QED
  BY <1>2, <1>3, <1>4, <1>5 DEF ProgramInv

\* Steps of the log, of the script, and stuttering.
LEMMA FrameKeeps ==
  ASSUME ProgramInv, UNCHANGED <<recorded, program>>,
         log' \in Seq(Named), Ran(log') \subseteq Ran(log),
         phase' \in {"unopened", "open", "sealed", "lost"},
         phase' # "lost" => log' = recorded
  PROVE  ProgramInv'
<1>1. /\ recorded' = recorded /\ tid' = tid /\ over' = over /\ addr' = addr /\ freed' = freed
      /\ at' = at /\ performed' = performed /\ met' = met
  BY DEF program
<1>2. TypeInv' /\ LogInv'
  <2>1. TypeInv'
    BY <1>1 DEF ProgramInv, TypeInv
  <2>2. Ran(log)' \subseteq Ran(recorded)'
    BY <1>1 DEF ProgramInv, LogInv, Ran
  <2>3. (phase # "lost")' => log' = recorded'
    BY <1>1
  <2> QED
    BY <2>1, <2>2, <2>3 DEF LogInv
<1>3. AtInv'
  BY <1>1 DEF ProgramInv, AtInv
<1>4. IdInv' /\ AddrInv'
  BY <1>1 DEF ProgramInv, IdInv, AddrInv, Ran
<1>5. PerformedInv'
  <2>1. Ran(recorded)' = Ran(recorded)
    BY <1>1 DEF Ran
  <2> QED
    BY <1>1, <2>1 DEF ProgramInv, PerformedInv
<1> QED
  BY <1>2, <1>3, <1>4, <1>5 DEF ProgramInv

LEMMA SameLogKeeps ==
  ASSUME ProgramInv, UNCHANGED <<log, recorded, program>>,
         phase' \in {"unopened", "open", "sealed", "lost"}, phase = "lost" => phase' = "lost"
  PROVE  ProgramInv'
<1>1. log' \in Seq(Named) /\ Ran(log') \subseteq Ran(log)
  BY DEF ProgramInv, TypeInv, Ran
<1>2. phase' # "lost" => log' = recorded
  BY DEF ProgramInv, LogInv
<1> QED
  BY <1>1, <1>2, FrameKeeps

LEMMA DieKeeps ==
  ASSUME ProgramInv, Log!Lose, UNCHANGED <<recorded, program>>
  PROVE  ProgramInv'
<1>1. PICK n \in 0 .. Len(log) : log' = SubSeq(log, 1, n)
  BY DEF Log!Lose
<1>2. log \in Seq(Named) /\ Len(log) \in Nat
  BY LenProperties DEF ProgramInv, TypeInv
<1>3. /\ log' \in Seq(Named) /\ Len(log') = n
      /\ \A i \in 1 .. n : log'[i] = log[i]
  BY <1>1, <1>2, SubSeqProperties
<1>4. Ran(log') \subseteq Ran(log)
  BY <1>2, <1>3 DEF Ran
<1> QED
  BY <1>3, <1>4, FrameKeeps DEF Log!Lose

LEMMA RecordedNamed ==
  ASSUME ProgramInv
  PROVE  \A e \in Ran(recorded) :
           /\ e \in Named
           /\ e.thread \in Threads /\ e.var \in Vars /\ e.tid \in Tids /\ e.addr \in Addrs
<1>1. \A e \in Ran(recorded) : e \in Named
  <2>1. recorded \in Seq(Named)
    BY DEF ProgramInv, TypeInv
  <2> QED
    BY <2>1, SeqIsSeq
<1> QED
  BY <1>1 DEF Named

LEMMA CreateKeeps ==
  ASSUME ProgramInv, NEW t \in Threads, Create(t)
  PROVE  ProgramInv'
<1> USE DEF ProgramInv
<1>1. PICK i \in Tids \ {tid[u] : u \in Living} : tid' = [tid EXCEPT ![t] = i]
  BY DEF Create
<1>2. /\ recorded' = recorded /\ log' = log /\ phase' = phase /\ over' = over
      /\ addr' = addr /\ freed' = freed /\ at' = at /\ performed' = performed
      /\ met' = met \cup {{t, u} : u \in Living}
      /\ Ran(recorded') = Ran(recorded) /\ Ran(log') = Ran(log)
  BY DEF Create, Ran
<1>3. /\ tid[t] = None /\ t \notin over /\ i \in Tids /\ i # None /\ tid'[t] = i
      /\ \A u \in Threads \ {t} : tid'[u] = tid[u]
      /\ \A u \in Threads : tid[u] # i
  BY <1>1, NoneAssumption DEF Create, Living, TypeInv
<1>4. TypeInv'
  BY <1>1, <1>2 DEF TypeInv
<1>5. LogInv' /\ AtInv'
  BY <1>2, <1>3 DEF LogInv, AtInv
<1>6. IdInv'
  <2>1. \A u \in over' : tid'[u] = None
    BY <1>2, <1>3 DEF IdInv, TypeInv
  <2>2. \A u, w \in Threads : tid'[u] = tid'[w] /\ tid'[u] # None => u = w
    BY <1>3 DEF IdInv
  <2>3. \A e \in Ran(recorded) : e.thread \in Threads /\ e.thread # t
    BY <1>3, RecordedNamed DEF IdInv
  <2>4. \A e \in Ran(recorded)' :
          IF tid'[e.thread] = None THEN e.thread \in over' ELSE e.tid = tid'[e.thread]
    BY <1>2, <1>3, <2>3 DEF IdInv
  <2>5. \A e, f \in Ran(recorded)' : e.thread = f.thread => e.tid = f.tid
    BY <1>2 DEF IdInv
  <2>6. \A u, w \in Threads : {u, w} \in met' =>
          \/ {u, w} \in met
          \/ u = t /\ w \in Living
          \/ w = t /\ u \in Living
    BY <1>2
  <2>7. t \notin Living
    BY <1>3 DEF Living
  <2>8. \A u, w \in Threads : {u, w} \in met' =>
          u # w /\ (tid'[u] # None \/ u \in over') /\ (tid'[w] # None \/ w \in over')
    BY <1>2, <1>3, <2>6, <2>7 DEF IdInv, Living
  <2>9. \A u \in Threads : \A f \in Ran(recorded)' :
          tid'[u] # None /\ {u, f.thread} \in met' => f.tid # tid'[u]
    <3> SUFFICES ASSUME NEW u \in Threads, NEW f \in Ran(recorded),
                        tid'[u] # None, {u, f.thread} \in met'
                 PROVE  f.tid # tid'[u]
      BY <1>2
    <3>1. f.thread \in Threads /\ f.thread # t
      BY <2>3
    <3>2. CASE {u, f.thread} \in met
      <4>1. u # t
        BY <1>3, <3>1, <3>2 DEF IdInv
      <4> QED
        BY <1>3, <3>1, <3>2, <4>1 DEF IdInv
    <3>3. CASE u = t /\ f.thread \in Living
      <4>1. f.tid = tid[f.thread]
        BY <3>3 DEF IdInv, Living
      <4> QED
        BY <1>3, <3>1, <3>3, <4>1
    <3> QED
      BY <2>6, <3>1, <3>2, <3>3
  <2>10. \A e, f \in Ran(recorded)' : {e.thread, f.thread} \in met' => e.tid # f.tid
    <3> SUFFICES ASSUME NEW e \in Ran(recorded), NEW f \in Ran(recorded),
                        {e.thread, f.thread} \in met'
                 PROVE  e.tid # f.tid
      BY <1>2
    <3>1. {e.thread, f.thread} \in met
      BY <2>3, <2>6
    <3> QED
      BY <3>1 DEF IdInv
  <2> HIDE DEF ProgramInv
  <2> QED
    BY <2>1, <2>2, <2>4, <2>5, <2>8, <2>9, <2>10 DEF IdInv, Ran
<1>7. AddrInv'
  BY <1>2 DEF AddrInv
<1>8. PerformedInv'
  BY <1>2 DEF PerformedInv
<1> QED
  BY <1>4, <1>5, <1>6, <1>7, <1>8

LEMMA EndKeeps ==
  ASSUME ProgramInv, NEW t \in Threads, End(t)
  PROVE  ProgramInv'
<1> USE DEF ProgramInv
<1>1. /\ recorded' = recorded /\ log' = log /\ phase' = phase
      /\ addr' = addr /\ freed' = freed /\ at' = at /\ performed' = performed /\ met' = met
      /\ Ran(recorded') = Ran(recorded) /\ Ran(log') = Ran(log)
      /\ over' = over \cup {t}
  BY DEF End, Ran
<1>2. /\ tid[t] # None /\ at[t] = None /\ tid'[t] = None
      /\ \A u \in Threads \ {t} : tid'[u] = tid[u]
  BY DEF End, Living, TypeInv
<1>3. TypeInv'
  BY <1>1 DEF End, TypeInv
<1>4. LogInv' /\ AtInv'
  BY <1>1, <1>2 DEF LogInv, AtInv
<1>5. IdInv'
  <2>1. \A u \in over' : tid'[u] = None
    BY <1>1, <1>2 DEF IdInv, TypeInv
  <2>2. \A u, w \in Threads : tid'[u] = tid'[w] /\ tid'[u] # None => u = w
    BY <1>2 DEF IdInv
  <2>3. \A e \in Ran(recorded) : e.thread \in Threads
    BY RecordedNamed
  <2>4. \A e \in Ran(recorded)' :
          IF tid'[e.thread] = None THEN e.thread \in over' ELSE e.tid = tid'[e.thread]
    BY <1>1, <1>2, <2>3 DEF IdInv
  <2>5. \A u, w \in Threads : {u, w} \in met' =>
          u # w /\ (tid'[u] # None \/ u \in over') /\ (tid'[w] # None \/ w \in over')
    BY <1>1, <1>2 DEF IdInv
  <2>6. \A u \in Threads : \A f \in Ran(recorded)' :
          tid'[u] # None /\ {u, f.thread} \in met' => f.tid # tid'[u]
    BY <1>1, <1>2 DEF IdInv
  <2> QED
    BY <1>1, <2>1, <2>2, <2>4, <2>5, <2>6 DEF IdInv
<1>6. AddrInv'
  BY <1>1 DEF AddrInv
<1>7. PerformedInv'
  BY <1>1 DEF PerformedInv
<1> QED
  BY <1>3, <1>4, <1>5, <1>6, <1>7

LEMMA AllocateKeeps ==
  ASSUME ProgramInv, NEW v \in Vars, Allocate(v)
  PROVE  ProgramInv'
<1> USE DEF ProgramInv
<1>1. PICK a \in Addrs \ {addr[w] : w \in Allocated} : addr' = [addr EXCEPT ![v] = a]
  BY DEF Allocate
<1>2. /\ recorded' = recorded /\ log' = log /\ phase' = phase /\ over' = over
      /\ tid' = tid /\ freed' = freed /\ at' = at /\ performed' = performed /\ met' = met
      /\ Ran(recorded') = Ran(recorded) /\ Ran(log') = Ran(log)
  BY DEF Allocate, Ran
<1>3. /\ addr[v] = None /\ v \notin freed /\ addr'[v] = a /\ a # None
      /\ \A w \in Vars \ {v} : addr'[w] = addr[w]
  BY <1>1, NoneAssumption DEF Allocate, Allocated, TypeInv
<1>4. TypeInv'
  BY <1>1, <1>2 DEF TypeInv
<1>5. LogInv' /\ AtInv'
  BY <1>2, <1>3 DEF LogInv, AtInv, TypeInv
<1>6. IdInv'
  BY <1>2 DEF IdInv
<1>7. AddrInv'
  <2>1. \A e \in Ran(recorded) : e.var \in Vars /\ e.var # v
    BY <1>3, RecordedNamed DEF AddrInv
  <2>2. \A w \in freed' : addr'[w] = None
    BY <1>2, <1>3 DEF AddrInv, TypeInv
  <2>3. /\ \A e \in Ran(recorded') :
             IF addr'[e.var] = None THEN e.var \in freed' ELSE e.addr = addr'[e.var]
        /\ \A e, f \in Ran(recorded') : e.var = f.var => e.addr = f.addr
    BY <1>2, <1>3, <2>1 DEF AddrInv
  <2>4. \A w \in Vars \ {v} : addr'[w] # a
    BY <1>1, <1>3 DEF Allocated
  <2>5. \A w, x \in Vars : addr'[w] = addr'[x] /\ addr'[w] # None => w = x
    BY <1>3, <2>4 DEF AddrInv
  <2> QED
    BY <2>2, <2>3, <2>5 DEF AddrInv
<1>8. PerformedInv'
  BY <1>2 DEF PerformedInv
<1> QED
  BY <1>4, <1>5, <1>6, <1>7, <1>8

LEMMA FreeKeeps ==
  ASSUME ProgramInv, NEW v \in Vars, Free(v)
  PROVE  ProgramInv'
<1> USE DEF ProgramInv
<1>1. /\ recorded' = recorded /\ log' = log /\ phase' = phase /\ over' = over
      /\ tid' = tid /\ at' = at /\ performed' = performed /\ met' = met
      /\ Ran(recorded') = Ran(recorded) /\ Ran(log') = Ran(log)
      /\ freed' = freed \cup {v}
  BY DEF Free, Ran
<1>2. /\ addr'[v] = None
      /\ \A w \in Vars \ {v} : addr'[w] = addr[w]
      /\ \A t \in Threads : at[t] # None => at[t][2] # v
  BY DEF Free, TypeInv
<1>3. TypeInv'
  BY <1>1 DEF Free, TypeInv
<1>4. LogInv' /\ AtInv'
  BY <1>1, <1>2 DEF LogInv, AtInv, TypeInv
<1>5. IdInv'
  BY <1>1 DEF IdInv
<1>6. AddrInv'
  <2>1. \A e \in Ran(recorded) : e.var \in Vars
    BY RecordedNamed
  <2> QED
    BY <1>1, <1>2, <2>1 DEF AddrInv, TypeInv
<1>7. PerformedInv'
  BY <1>1 DEF PerformedInv
<1> QED
  BY <1>3, <1>4, <1>5, <1>6, <1>7

\* What a probe does to the log.
LEMMA ProbeFacts ==
  ASSUME ProgramInv, NEW t \in Threads, NEW v \in Vars, NEW op \in Ops,
         tid[t] # None, addr[v] # None, Probe(t, v, op)
  PROVE  \E e \in Named :
           /\ e.thread = t /\ e.var = v /\ e.tid = tid[t] /\ e.addr = addr[v]
           /\ log' \in Seq(Named) /\ recorded' \in Seq(Named) /\ log' = recorded'
           /\ Ran(recorded') = Ran(recorded) \cup {e}
           /\ phase = "open" /\ phase' = "open" /\ performed' = performed
<1> DEFINE E == [nth |-> Len(log) + 1, thread |-> t, var |-> v,
                 tid |-> tid[t], addr |-> addr[v], op |-> op]
<1>1. /\ phase = "open" /\ phase' = phase /\ performed' = performed
      /\ log' = Append(log, E) /\ recorded' = Append(recorded, E)
  BY DEF Probe, Log!Record
<1>2. log \in Seq(Named) /\ recorded \in Seq(Named) /\ log = recorded
  BY <1>1 DEF ProgramInv, TypeInv, LogInv
<1>3. Len(log) \in Nat
  BY <1>2, LenProperties
<1>4. tid[t] \in Tids /\ addr[v] \in Addrs
  BY DEF ProgramInv, TypeInv
<1>5. /\ E \in Named
      /\ E.thread = t /\ E.var = v /\ E.tid = tid[t] /\ E.addr = addr[v]
  BY <1>3, <1>4 DEF Named
<1> HIDE DEF E
<1>6. log' \in Seq(Named) /\ recorded' \in Seq(Named) /\ log' = recorded'
  BY <1>1, <1>2, <1>5, AppendProperties
<1>7. IsSeq(recorded)
  BY <1>2, SeqIsSeq
<1>8. Ran(recorded') = Ran(recorded) \cup {E}
  BY <1>1, <1>7, AppendAny
<1> QED
  BY <1>1, <1>5, <1>6, <1>8

\* A probe uses the names of a living thread and an allocated variable.
LEMMA ProbeKeeps ==
  ASSUME ProgramInv, NEW t \in Threads, NEW v \in Vars, NEW op \in Ops,
         tid[t] # None, addr[v] # None, Probe(t, v, op),
         UNCHANGED <<tid, over, addr, freed, met>>, at' \in [Threads -> {None} \cup (Ops \X Vars)]
  PROVE  /\ TypeInv' /\ LogInv' /\ IdInv' /\ AddrInv'
         /\ \A u \in Threads, w \in Vars : HasEvent(Ran(recorded), u, w) => HasEvent(Ran(recorded'), u, w)
         /\ HasEvent(Ran(recorded'), t, v) /\ performed' = performed
<1>1. PICK e \in Named :
           /\ e.thread = t /\ e.var = v /\ e.tid = tid[t] /\ e.addr = addr[v]
           /\ log' \in Seq(Named) /\ recorded' \in Seq(Named) /\ log' = recorded'
           /\ Ran(recorded') = Ran(recorded) \cup {e}
           /\ phase = "open" /\ phase' = "open" /\ performed' = performed
  BY ProbeFacts
<1>2. Ran(recorded)' = Ran(recorded) \cup {e} /\ Ran(log)' = Ran(recorded)'
  BY <1>1 DEF Ran
<1>3. /\ tid' = tid /\ over' = over /\ addr' = addr /\ freed' = freed /\ met' = met
  OBVIOUS
<1>4. TypeInv'
  BY <1>1, <1>3 DEF ProgramInv, TypeInv
<1>5. LogInv'
  BY <1>1, <1>2 DEF LogInv
<1>6. \A f \in Ran(recorded) : f.thread \in Threads /\ f.var \in Vars
  BY RecordedNamed
<1>7. IdInv'
  <2>1. \A u \in over' : tid'[u] = None
    BY <1>3 DEF ProgramInv, IdInv
  <2>2. \A u, w \in Threads : tid'[u] = tid'[w] /\ tid'[u] # None => u = w
    BY <1>3 DEF ProgramInv, IdInv
  <2>3. \A f \in Ran(recorded)' :
          IF tid'[f.thread] = None THEN f.thread \in over' ELSE f.tid = tid'[f.thread]
    BY <1>1, <1>2, <1>3 DEF ProgramInv, IdInv
  <2>4. \A f \in Ran(recorded) : f.thread = t => f.tid = e.tid
    BY <1>1 DEF ProgramInv, IdInv
  <2>5. \A f, g \in Ran(recorded)' : f.thread = g.thread => f.tid = g.tid
    BY <1>1, <1>2, <2>4 DEF ProgramInv, IdInv
  <2>6. \A u, w \in Threads : {u, w} \in met' =>
          u # w /\ (tid'[u] # None \/ u \in over') /\ (tid'[w] # None \/ w \in over')
    BY <1>3 DEF ProgramInv, IdInv
  <2>7. \A u \in Threads : \A f \in Ran(recorded)' :
          tid'[u] # None /\ {u, f.thread} \in met' => f.tid # tid'[u]
    <3> SUFFICES ASSUME NEW u \in Threads, NEW f \in Ran(recorded) \cup {e},
                        tid[u] # None, {u, f.thread} \in met
                 PROVE  f.tid # tid[u]
      BY <1>2, <1>3
    <3>1. CASE f \in Ran(recorded)
      BY <3>1 DEF ProgramInv, IdInv
    <3>2. CASE f = e
      <4>1. u # t
        BY <1>1, <3>2 DEF ProgramInv, IdInv
      <4> QED
        BY <1>1, <3>2, <4>1 DEF ProgramInv, IdInv
    <3> QED
      BY <3>1, <3>2
  <2>8. \A f, g \in Ran(recorded)' : {f.thread, g.thread} \in met' => f.tid # g.tid
    <3> SUFFICES ASSUME NEW f \in Ran(recorded) \cup {e}, NEW g \in Ran(recorded) \cup {e},
                        {f.thread, g.thread} \in met
                 PROVE  f.tid # g.tid
      BY <1>2, <1>3
    <3>1. CASE f \in Ran(recorded) /\ g \in Ran(recorded)
      BY <3>1 DEF ProgramInv, IdInv
    <3>2. CASE f = e /\ g \in Ran(recorded)
      BY <1>1, <3>2 DEF ProgramInv, IdInv
    <3>3. CASE g = e /\ f \in Ran(recorded)
      <4>1. {t, f.thread} \in met
        <5>1. {f.thread, t} = {t, f.thread}
          OBVIOUS
        <5> QED
          BY <1>1, <3>3, <5>1
      <4> QED
        BY <1>1, <3>3, <4>1 DEF ProgramInv, IdInv
    <3>4. CASE f = e /\ g = e
      BY <1>1, <3>4 DEF ProgramInv, IdInv
    <3> QED
      BY <3>1, <3>2, <3>3, <3>4
  <2> QED
    BY <2>1, <2>2, <2>3, <2>5, <2>6, <2>7, <2>8 DEF IdInv
<1>8. AddrInv'
  <2>1. \A w \in freed' : addr'[w] = None
    BY <1>3 DEF ProgramInv, AddrInv
  <2>2. \A f \in Ran(recorded)' :
          IF addr'[f.var] = None THEN f.var \in freed' ELSE f.addr = addr'[f.var]
    BY <1>1, <1>2, <1>3 DEF ProgramInv, AddrInv
  <2>3. \A f \in Ran(recorded) : f.var = v => f.addr = e.addr
    BY <1>1 DEF ProgramInv, AddrInv
  <2>4. \A f, g \in Ran(recorded)' : f.var = g.var => f.addr = g.addr
    BY <1>1, <1>2, <2>3 DEF ProgramInv, AddrInv
  <2>5. \A w, x \in Vars : addr'[w] = addr'[x] /\ addr'[w] # None => w = x
    BY <1>3 DEF ProgramInv, AddrInv
  <2> QED
    BY <2>1, <2>2, <2>4, <2>5 DEF AddrInv
<1>9. /\ \A u \in Threads, w \in Vars : HasEvent(Ran(recorded), u, w) => HasEvent(Ran(recorded'), u, w)
      /\ HasEvent(Ran(recorded'), t, v)
  BY <1>1, <1>2 DEF HasEvent
<1> QED
  BY <1>1, <1>4, <1>5, <1>7, <1>8, <1>9

\* The effect of an access leaves the log alone.
LEMMA EffectKeeps ==
  ASSUME ProgramInv, NEW t \in Threads, NEW v \in Vars, Effect(t, v),
         UNCHANGED <<tid, over, addr, freed, met>>, at' \in [Threads -> {None} \cup (Ops \X Vars)]
  PROVE  /\ TypeInv' /\ LogInv' /\ IdInv' /\ AddrInv'
         /\ \A u \in Threads, w \in Vars : HasEvent(Ran(recorded), u, w) => HasEvent(Ran(recorded'), u, w)
         /\ performed' = performed \cup {<<t, v>>}
<1>1. /\ log' = log /\ recorded' = recorded /\ phase' = phase
      /\ tid' = tid /\ over' = over /\ addr' = addr /\ freed' = freed /\ met' = met
      /\ performed' = performed \cup {<<t, v>>}
  BY DEF Effect
<1>2. Ran(recorded)' = Ran(recorded) /\ Ran(log)' = Ran(log)
  BY <1>1 DEF Ran
<1>3. TypeInv'
  BY <1>1 DEF ProgramInv, TypeInv
<1>4. LogInv'
  BY <1>1, <1>2 DEF ProgramInv, LogInv
<1>5. IdInv' /\ AddrInv'
  BY <1>1, <1>2 DEF ProgramInv, IdInv, AddrInv
<1>6. \A u \in Threads, w \in Vars : HasEvent(Ran(recorded), u, w) => HasEvent(Ran(recorded'), u, w)
  BY <1>2 DEF HasEvent
<1> QED
  BY <1>1, <1>3, <1>4, <1>5, <1>6

LEMMA BeginAccessKeeps ==
  ASSUME ProgramInv, NEW t \in Threads, NEW v \in Vars, NEW op \in Ops,
         BeginAccess(t, v, op)
  PROVE  ProgramInv'
<1>1. /\ tid[t] # None /\ addr[v] # None /\ at[t] = None
      /\ at' = [at EXCEPT ![t] = <<op, v>>]
      /\ UNCHANGED <<tid, over, addr, freed, met>>
  BY DEF BeginAccess, Living, Allocated
<1>2. /\ at' \in [Threads -> {None} \cup (Ops \X Vars)]
      /\ at'[t] = <<op, v>>
      /\ \A u \in Threads \ {t} : at'[u] = at[u]
  BY <1>1 DEF ProgramInv, TypeInv
<1>3. performed \subseteq Threads \X Vars /\ at \in [Threads -> {None} \cup (Ops \X Vars)]
  BY DEF ProgramInv, TypeInv
<1>4. AtInv'
  BY <1>1, <1>2 DEF ProgramInv, AtInv
<1>5. CASE op = "load"
  <2>1. Effect(t, v)
    BY <1>5 DEF BeginAccess
  <2>2. /\ TypeInv' /\ LogInv' /\ IdInv' /\ AddrInv'
        /\ \A u \in Threads, w \in Vars : HasEvent(Ran(recorded), u, w) => HasEvent(Ran(recorded'), u, w)
        /\ performed' = performed \cup {<<t, v>>}
    BY <1>1, <1>2, <2>1, EffectKeeps
  <2>3. \A x \in performed : HasEvent(Ran(recorded'), x[1], x[2]) \/ Loading(at'[x[1]], x[2])
    <3> SUFFICES ASSUME NEW x \in performed
                 PROVE  HasEvent(Ran(recorded'), x[1], x[2]) \/ Loading(at'[x[1]], x[2])
      OBVIOUS
    <3>1. x[1] \in Threads /\ x[2] \in Vars
      BY <1>3
    <3>2. HasEvent(Ran(recorded), x[1], x[2]) \/ Loading(at[x[1]], x[2])
      BY DEF ProgramInv, PerformedInv
    <3>3. Loading(at[x[1]], x[2]) => x[1] # t /\ Loading(at'[x[1]], x[2])
      BY <1>1, <1>2, <3>1 DEF Loading
    <3> QED
      BY <1>2, <2>2, <3>1, <3>2, <3>3
  <2>4. \A u \in Threads : at'[u] # None /\ at'[u][1] # "load" => HasEvent(Ran(recorded'), u, at'[u][2])
    <3> SUFFICES ASSUME NEW u \in Threads, at'[u] # None, at'[u][1] # "load"
                 PROVE  HasEvent(Ran(recorded'), u, at'[u][2])
      OBVIOUS
    <3>1. u # t
      BY <1>2, <1>5
    <3>2. at'[u] = at[u] /\ HasEvent(Ran(recorded), u, at[u][2]) /\ at[u][2] \in Vars
      BY <1>2, <1>3, <3>1 DEF ProgramInv, PerformedInv
    <3> QED
      BY <2>2, <3>2
  <2>5. Loading(at'[t], v)
    <3>1. <<op, v>> # None
      BY NoneAssumption
    <3> QED
      BY <1>2, <1>5, <3>1 DEF Loading
  <2>6. \A x \in performed' : HasEvent(Ran(recorded'), x[1], x[2]) \/ Loading(at'[x[1]], x[2])
    BY <2>2, <2>3, <2>5
  <2>7. PerformedInv'
    BY <2>4, <2>6 DEF PerformedInv
  <2> QED
    BY <1>4, <2>2, <2>7 DEF ProgramInv
<1>6. CASE op # "load"
  <2>1. Probe(t, v, op)
    BY <1>6 DEF BeginAccess
  <2>2. /\ TypeInv' /\ LogInv' /\ IdInv' /\ AddrInv'
        /\ \A u \in Threads, w \in Vars : HasEvent(Ran(recorded), u, w) => HasEvent(Ran(recorded'), u, w)
        /\ HasEvent(Ran(recorded'), t, v) /\ performed' = performed
    BY <1>1, <1>2, <2>1, ProbeKeeps
  <2>3. \A x \in performed : HasEvent(Ran(recorded'), x[1], x[2]) \/ Loading(at'[x[1]], x[2])
    <3> SUFFICES ASSUME NEW x \in performed
                 PROVE  HasEvent(Ran(recorded'), x[1], x[2]) \/ Loading(at'[x[1]], x[2])
      OBVIOUS
    <3>1. x[1] \in Threads /\ x[2] \in Vars
      BY <1>3
    <3>2. HasEvent(Ran(recorded), x[1], x[2]) \/ Loading(at[x[1]], x[2])
      BY DEF ProgramInv, PerformedInv
    <3>3. Loading(at[x[1]], x[2]) => x[1] # t /\ Loading(at'[x[1]], x[2])
      BY <1>1, <1>2, <3>1 DEF Loading
    <3> QED
      BY <1>2, <2>2, <3>1, <3>2, <3>3
  <2>4. \A u \in Threads : at'[u] # None /\ at'[u][1] # "load" => HasEvent(Ran(recorded'), u, at'[u][2])
    <3> SUFFICES ASSUME NEW u \in Threads, at'[u] # None, at'[u][1] # "load"
                 PROVE  HasEvent(Ran(recorded'), u, at'[u][2])
      OBVIOUS
    <3>1. CASE u = t
      BY <1>2, <2>2, <3>1
    <3>2. CASE u # t
      <4>1. at'[u] = at[u] /\ HasEvent(Ran(recorded), u, at[u][2]) /\ at[u][2] \in Vars
        BY <1>2, <1>3, <3>2 DEF ProgramInv, PerformedInv
      <4> QED
        BY <2>2, <4>1
    <3> QED
      BY <3>1, <3>2
  <2>5. PerformedInv'
    BY <2>2, <2>3, <2>4 DEF PerformedInv
  <2> QED
    BY <1>4, <2>2, <2>5 DEF ProgramInv
<1> QED
  BY <1>5, <1>6

LEMMA EndAccessKeeps ==
  ASSUME ProgramInv, NEW t \in Threads, EndAccess(t)
  PROVE  ProgramInv'
<1> DEFINE op == at[t][1]
           v == at[t][2]
<1>1. /\ at[t] # None /\ at' = [at EXCEPT ![t] = None]
      /\ UNCHANGED <<tid, over, addr, freed, met>>
      /\ IF op = "load" THEN Probe(t, v, op) ELSE Effect(t, v)
  BY DEF EndAccess
<1>2. performed \subseteq Threads \X Vars /\ at \in [Threads -> {None} \cup (Ops \X Vars)]
  BY DEF ProgramInv, TypeInv
<1>3. /\ at' \in [Threads -> {None} \cup (Ops \X Vars)]
      /\ at'[t] = None
      /\ \A u \in Threads \ {t} : at'[u] = at[u]
  BY <1>1, <1>2
<1>4. op \in Ops /\ v \in Vars /\ at[t] = <<op, v>>
  BY <1>1, <1>2
<1>5. tid[t] # None /\ addr[v] # None
  BY <1>1 DEF ProgramInv, AtInv
<1> HIDE DEF op, v
<1>6. AtInv'
  BY <1>1, <1>3 DEF ProgramInv, AtInv
<1>7. \A x \in performed : x[1] \in Threads /\ x[2] \in Vars
  BY <1>2
<1>8. \A x \in performed : HasEvent(Ran(recorded), x[1], x[2]) \/ Loading(at[x[1]], x[2])
  BY DEF ProgramInv, PerformedInv
<1>9. \A u \in Threads : at'[u] # None =>
        /\ u # t /\ at'[u] = at[u] /\ at[u][2] \in Vars
        /\ at[u][1] # "load" => HasEvent(Ran(recorded), u, at[u][2])
  BY <1>2, <1>3 DEF ProgramInv, PerformedInv
<1>10. CASE op = "load"
  <2>1. Probe(t, v, op)
    BY <1>1, <1>10
  <2>2. /\ TypeInv' /\ LogInv' /\ IdInv' /\ AddrInv'
        /\ \A u \in Threads, w \in Vars : HasEvent(Ran(recorded), u, w) => HasEvent(Ran(recorded'), u, w)
        /\ HasEvent(Ran(recorded'), t, v) /\ performed' = performed
    BY <1>1, <1>3, <1>4, <1>5, <2>1, ProbeKeeps
  <2>3. \A x \in performed' : HasEvent(Ran(recorded'), x[1], x[2]) \/ Loading(at'[x[1]], x[2])
    <3> SUFFICES ASSUME NEW x \in performed
                 PROVE  HasEvent(Ran(recorded'), x[1], x[2]) \/ Loading(at'[x[1]], x[2])
      BY <2>2
    <3>1. CASE x[1] = t /\ Loading(at[x[1]], x[2])
      <4>1. x[2] = v
        BY <1>4, <3>1 DEF Loading
      <4> QED
        BY <2>2, <3>1, <4>1
    <3>2. CASE x[1] # t /\ Loading(at[x[1]], x[2])
      BY <1>3, <1>7, <3>2 DEF Loading
    <3>3. CASE HasEvent(Ran(recorded), x[1], x[2])
      BY <1>7, <2>2, <3>3
    <3> QED
      BY <1>8, <3>1, <3>2, <3>3
  <2>4. PerformedInv'
    BY <1>9, <2>2, <2>3 DEF PerformedInv
  <2> QED
    BY <1>6, <2>2, <2>4 DEF ProgramInv
<1>11. CASE op # "load"
  <2>1. Effect(t, v)
    BY <1>1, <1>11
  <2>2. /\ TypeInv' /\ LogInv' /\ IdInv' /\ AddrInv'
        /\ \A u \in Threads, w \in Vars : HasEvent(Ran(recorded), u, w) => HasEvent(Ran(recorded'), u, w)
        /\ performed' = performed \cup {<<t, v>>}
    BY <1>1, <1>3, <1>4, <2>1, EffectKeeps
  <2>3. HasEvent(Ran(recorded'), t, v)
    <3>1. at[t][1] # "load" /\ at[t][2] = v
      BY <1>11 DEF op, v
    <3> QED
      BY <1>1, <1>4, <2>2, <3>1 DEF ProgramInv, PerformedInv
  <2>4. \A x \in performed : HasEvent(Ran(recorded'), x[1], x[2]) \/ Loading(at'[x[1]], x[2])
    <3> SUFFICES ASSUME NEW x \in performed
                 PROVE  HasEvent(Ran(recorded'), x[1], x[2]) \/ Loading(at'[x[1]], x[2])
      OBVIOUS
    <3>1. Loading(at[x[1]], x[2]) => x[1] # t
      BY <1>4, <1>11 DEF Loading
    <3>2. CASE Loading(at[x[1]], x[2])
      BY <1>3, <1>7, <3>1, <3>2 DEF Loading
    <3>3. CASE HasEvent(Ran(recorded), x[1], x[2])
      BY <1>7, <2>2, <3>3
    <3> QED
      BY <1>8, <3>2, <3>3
  <2>5. \A x \in performed' : HasEvent(Ran(recorded'), x[1], x[2]) \/ Loading(at'[x[1]], x[2])
    BY <2>2, <2>3, <2>4
  <2>6. PerformedInv'
    BY <1>9, <2>2, <2>5 DEF PerformedInv
  <2> QED
    BY <1>6, <2>2, <2>6 DEF ProgramInv
<1> QED
  BY <1>10, <1>11

-----------------------------------------------------------------------------
(* What the script gets *)

LEMMA FieldsProperties ==
  ASSUME NEW e
  PROVE  /\ DOMAIN Fields(e) = 1 .. 5
         /\ Fields(e)[1] = e.tid /\ Fields(e)[4] = e.addr
BY DEF Fields

\* u is s followed by t.
Joined(S, u, s, t) ==
  /\ u \in Seq(S) /\ Len(u) = Len(s) + Len(t)
  /\ \A j \in 1 .. Len(s) + Len(t) : u[j] = IF j <= Len(s) THEN s[j] ELSE t[j - Len(s)]

LEMMA Concatenation ==
  ASSUME NEW S, NEW s \in Seq(S), NEW t \in Seq(S)
  PROVE  Joined(S, s \o t, s, t)
<1>1. /\ s \o t \in Seq(S) /\ Len(s \o t) = Len(s) + Len(t)
      /\ \A j \in 1 .. Len(s) + Len(t) : (s \o t)[j] = IF j <= Len(s) THEN s[j] ELSE t[j - Len(s)]
  BY ConcatProperties
<1> QED
  BY <1>1 DEF Joined

LEMMA AllFields ==
  ASSUME NEW e
  PROVE  <<e.tid, "number">> \o <<"file">> \o <<e.addr, e.op>> = Fields(e)
<1> DEFINE S == {e.tid, e.addr, e.op, "number", "file"}
           a == <<e.tid, "number">>
           b == <<"file">>
           c == <<e.addr, e.op>>
           d == a \o b
           all == d \o c
<1>1. a \in Seq(S) /\ b \in Seq(S) /\ c \in Seq(S)
  OBVIOUS
<1>2. /\ Len(a) = 2 /\ a[1] = e.tid /\ a[2] = "number"
      /\ Len(b) = 1 /\ b[1] = "file"
      /\ Len(c) = 2 /\ c[1] = e.addr /\ c[2] = e.op
  OBVIOUS
<1> HIDE DEF S, a, b, c
<1>3. Joined(S, d, a, b)
  BY <1>1, Concatenation
<1> HIDE DEF d
<1>4. d \in Seq(S) /\ Len(d) = 3 /\ \A j \in 1 .. 3 : d[j] = IF j <= 2 THEN a[j] ELSE b[j - 2]
  BY <1>2, <1>3 DEF Joined
<1>5. d[1] = a[1] /\ d[2] = a[2] /\ d[3] = b[1]
  BY <1>4
<1>6. Joined(S, all, d, c)
  BY <1>1, <1>4, Concatenation
<1> HIDE DEF all
<1>7. /\ all \in Seq(S) /\ Len(all) = 5
      /\ \A j \in 1 .. 5 : all[j] = IF j <= 3 THEN d[j] ELSE c[j - 3]
  BY <1>2, <1>4, <1>6 DEF Joined
<1>8. all[1] = d[1] /\ all[2] = d[2] /\ all[3] = d[3] /\ all[4] = c[1] /\ all[5] = c[2]
  BY <1>7
<1>9. all = [i \in 1 .. 5 |-> all[i]]
  BY <1>7, LenProperties
<1>10. all = Fields(e)
  BY <1>2, <1>5, <1>8, <1>9 DEF Fields
<1> QED
  BY <1>10 DEF a, b, c, d, all

FirstFields(e, n, whole) ==
  [i \in 1 .. n |-> IF i = n /\ ~whole THEN "part" ELSE Fields(e)[i]]

\* A line of event e with n fields reads as its first n fields.
LEMMA SplitLine ==
  ASSUME NEW e, NEW l, NEW n \in 1 .. 5,
         l.tid = e.tid, l.addr = e.addr, l.op = e.op, l.comma = 0, l.fields = n
  PROVE  Split(l) = FirstFields(e, n, l.whole)
<1>1. <<l.tid, "number">> \o <<"file">> \o <<l.addr, l.op>> = Fields(e)
  BY AllFields
<1> QED
  BY <1>1 DEF Split, FirstFields

LEMMA SplitWhole ==
  ASSUME NEW e
  PROVE  Split(Line(e)) = Fields(e)
<1> DEFINE l == Line(e)
<1>1. /\ l.tid = e.tid /\ l.addr = e.addr /\ l.op = e.op /\ l.comma = 0 /\ l.fields = 5
      /\ l.whole = TRUE
  BY DEF Line
<1> HIDE DEF l
<1>2. Split(l) = FirstFields(e, 5, l.whole)
  BY <1>1, SplitLine
<1>3. Split(l) = [i \in 1 .. 5 |-> Fields(e)[i]]
  BY <1>1, <1>2 DEF FirstFields
<1>4. Fields(e) = [i \in 1 .. 5 |-> Fields(e)[i]]
  BY DEF Fields
<1> QED
  BY <1>3, <1>4 DEF l

LEMMA SplitCut ==
  ASSUME NEW e, NEW l \in Cut(e)
  PROVE  FromEvent(Split(l), e)
<1>1. PICK n \in 1 .. 5 : \/ l = [Line(e) EXCEPT !.fields = n, !.whole = FALSE]
                         \/ l = [Line(e) EXCEPT !.fields = n]
  BY DEF Cut
<1>2. /\ l.tid = Line(e).tid /\ l.addr = Line(e).addr /\ l.op = Line(e).op
      /\ l.comma = Line(e).comma
  <2>1. Line(e) = [tid |-> e.tid, addr |-> e.addr, op |-> e.op, comma |-> 0,
                   fields |-> 5, whole |-> TRUE]
    BY DEF Line
  <2> QED
    BY <1>1, <2>1
<1>3. /\ Line(e).tid = e.tid /\ Line(e).addr = e.addr /\ Line(e).op = e.op
      /\ Line(e).comma = 0
  BY DEF Line
<1>4. l.fields = n
  BY <1>1 DEF Line
<1> DEFINE s == Split(l)
<1>5. s = FirstFields(e, n, l.whole)
  <2>1. l.tid = e.tid /\ l.addr = e.addr /\ l.op = e.op /\ l.comma = 0 /\ l.fields = n
    BY <1>2, <1>3, <1>4
  <2> QED
    BY <2>1, SplitLine
<1> HIDE DEF s
<1>6. ASSUME 4 \in DOMAIN s
      PROVE  s[1] = e.tid /\ s[4] \in {e.addr, "part"}
  <2>1. 1 \in 1 .. n /\ 4 \in 1 .. n /\ 1 # n
    BY <1>5, <1>6 DEF FirstFields
  <2>2. s[1] = Fields(e)[1] /\ s[4] \in {Fields(e)[4], "part"}
    BY <1>5, <2>1 DEF FirstFields
  <2> QED
    BY <2>2, FieldsProperties
<1> QED
  BY <1>6 DEF FromEvent, s

LEMMA TextFields ==
  ASSUME NEW events \in Seq(Named)
  PROVE  /\ Len(Text(events)) = Len(events) /\ Len(events) \in Nat
         /\ Text(events) \in Seq({Line(e) : e \in Ran(events)})
         /\ \A i \in 1 .. Len(events) : Split(Text(events)[i]) = Fields(events[i])
<1>1. Len(events) \in Nat
  BY LenProperties
<1>2. Text(events) \in [1 .. Len(events) -> {Line(e) : e \in Ran(events)}]
  BY DEF Text, Ran
<1>3. Text(events) \in Seq({Line(e) : e \in Ran(events)}) /\ Len(Text(events)) = Len(events)
  BY <1>1, <1>2
<1>4. \A i \in 1 .. Len(events) : Split(Text(events)[i]) = Fields(events[i])
  BY SplitWhole DEF Text
<1> QED
  BY <1>1, <1>3, <1>4

LEMMA WholeFile ==
  ASSUME NEW events \in Seq(Named), Ran(events) \subseteq Ran(recorded),
         log' = events, recorded' = recorded, file' = Text(events)
  PROVE  FileInv' /\ Len(file') \in Nat
<1>1. /\ Len(file') = Len(events) /\ Len(events) \in Nat
      /\ \A i \in 1 .. Len(events) : Split(file'[i]) = Fields(events[i])
  BY TextFields
<1>2. \A i \in 1 .. Len(file') : events[i] \in Ran(recorded')
  BY <1>1 DEF Ran
<1>3. \A e : FromEvent(Fields(e), e)
  BY FieldsProperties DEF FromEvent
<1>4. \A i \in 1 .. Len(file') : \E e \in Ran(recorded') : FromEvent(Split(file'[i]), e)
  BY <1>1, <1>2, <1>3
<1>5. Ran(recorded)' = Ran(recorded')
  BY DEF Ran
<1> QED
  BY <1>1, <1>4, <1>5 DEF FileInv

LEMMA CutFile ==
  ASSUME NEW events \in Seq(Named), Ran(events) \subseteq Ran(recorded),
         NEW e \in Ran(recorded), NEW l \in Cut(e),
         log' = events, recorded' = recorded, file' = Append(Text(events), l)
  PROVE  FileInv' /\ Len(file') \in Nat
<1> DEFINE S == {Line(d) : d \in Ran(events)} \cup {l}
           t == Text(events)
<1>1. /\ Len(t) = Len(events) /\ Len(events) \in Nat /\ t \in Seq(S)
      /\ \A i \in 1 .. Len(events) : Split(t[i]) = Fields(events[i])
  <2>1. Seq({Line(d) : d \in Ran(events)}) \subseteq Seq(S)
    OBVIOUS
  <2> QED
    BY <2>1, TextFields
<1>2. l \in S /\ file' = Append(t, l)
  OBVIOUS
<1> HIDE DEF S, t
<1>3. /\ Len(file') = Len(events) + 1
      /\ \A i \in 1 .. Len(events) : file'[i] = t[i]
      /\ file'[Len(events) + 1] = l
  BY <1>1, <1>2, AppendProperties
<1>4. \A i \in 1 .. Len(events) : Split(file'[i]) = Fields(events[i])
  BY <1>1, <1>3
<1>5. \A i \in 1 .. Len(events) : events[i] \in Ran(recorded')
  BY DEF Ran
<1>6. \A d : FromEvent(Fields(d), d)
  BY FieldsProperties DEF FromEvent
<1>7. FromEvent(Split(file'[Len(events) + 1]), e)
  BY <1>3, SplitCut
<1>8. \A i \in 1 .. Len(file') : \E d \in Ran(recorded') : FromEvent(Split(file'[i]), d)
  <2> SUFFICES ASSUME NEW i \in 1 .. Len(file')
               PROVE  \E d \in Ran(recorded') : FromEvent(Split(file'[i]), d)
    OBVIOUS
  <2>1. CASE i \in 1 .. Len(events)
    BY <1>4, <1>5, <1>6, <2>1
  <2>2. CASE i = Len(events) + 1
    BY <1>7, <2>2
  <2> QED
    BY <1>1, <1>3, <2>1, <2>2
<1>9. Ran(recorded)' = Ran(recorded')
  BY DEF Ran
<1> QED
  BY <1>1, <1>3, <1>4, <1>8, <1>9 DEF FileInv

-----------------------------------------------------------------------------
(* The script preserves its invariant *)

LEMMA ScriptKeeps ==
  ASSUME ProgramInv, ScriptInv, Script
  PROVE  ProgramInv' /\ ScriptInv'
<1>1. /\ phase \in {"sealed", "lost"} /\ Next
      /\ UNCHANGED <<log, phase, recorded, program>>
  BY DEF Script
<1>2. ReadInv /\ ReportInv /\ FileInv
  BY <1>1 DEF ScriptInv
<1>3. file' = file /\ log' = log /\ phase' = phase /\ recorded' = recorded
  BY <1>1 DEF Next, ReadLine, ReadLineFails, EndOfFile, SkipGroup, PrintGroup, EndOfReport,
              Ended, vars
<1>4. ReadInv' /\ ReportInv'
  BY <1>1, <1>2, ReportKeeps
<1>5. FileInv'
  BY <1>2, <1>3 DEF FileInv, Ran
<1>6. ProgramInv'
  BY <1>1, <1>3, SameLogKeeps
<1> QED
  BY <1>1, <1>3, <1>4, <1>5, <1>6 DEF ScriptInv

\* The program does not touch the script.
LEMMA QuietKeeps ==
  ASSUME ScriptInv, phase \in {"unopened", "open"}, phase' \in {"unopened", "open"},
         UNCHANGED script
  PROVE  ScriptInv'
<1>1. file = <<>> /\ Start /\ ReadInv /\ ReportInv
  BY DEF ScriptInv
<1>2. /\ file' = file /\ read' = read /\ dic' = dic /\ order' = order /\ next' = next
      /\ report' = report /\ status' = status
  BY DEF script
<1>3. file' = <<>> /\ Start'
  BY <1>1, <1>2 DEF Start
<1>4. ReadInv' /\ ReportInv'
  BY <1>1, SameScript DEF script, vars
<1> QED
  BY <1>3, <1>4 DEF ScriptInv

LEMMA EndKeepsScript ==
  ASSUME ScriptInv, phase = "open", phase' \in {"sealed", "lost"},
         FileInv', Len(file') \in Nat,
         UNCHANGED <<read, dic, order, next, report, status>>
  PROVE  ScriptInv'
<1>1. Start'
  BY DEF ScriptInv, Start
<1>2. ReadInv' /\ ReportInv'
  BY <1>1, StartKeepsThen
<1> QED
  BY <1>2 DEF ScriptInv

LEMMA ExitKeeps ==
  ASSUME ProgramInv, ScriptInv, Exit
  PROVE  ProgramInv' /\ ScriptInv'
<1>1. /\ phase = "open" /\ phase' = "sealed" /\ log' = log /\ file' = Text(log)
      /\ recorded' = recorded
      /\ UNCHANGED <<recorded, program, read, dic, order, next, report, status>>
  BY DEF Exit, Log!Seal
<1>2. ProgramInv'
  BY <1>1, SameLogKeeps
<1>3. log \in Seq(Named) /\ Ran(log) \subseteq Ran(recorded)
  BY DEF ProgramInv, TypeInv, LogInv
<1>4. FileInv' /\ Len(file') \in Nat
  BY <1>1, <1>3, WholeFile
<1> QED
  BY <1>1, <1>2, <1>4, EndKeepsScript

LEMMA DieKeepsScript ==
  ASSUME ProgramInv, ScriptInv, Die
  PROVE  ProgramInv' /\ ScriptInv'
<1>1. /\ phase = "open" /\ phase' = "lost" /\ recorded' = recorded
      /\ UNCHANGED <<recorded, program, read, dic, order, next, report, status>>
      /\ Log!Lose
  BY DEF Die, Log!Lose
<1>2. ProgramInv'
  BY <1>1, DieKeeps
<1>3. PICK n \in 0 .. Len(log) : log' = SubSeq(log, 1, n)
  BY <1>1 DEF Log!Lose
<1>4. log \in Seq(Named) /\ Len(log) \in Nat /\ Ran(log) \subseteq Ran(recorded)
  BY LenProperties DEF ProgramInv, TypeInv, LogInv
<1>5. /\ log' \in Seq(Named) /\ Len(log') = n
      /\ \A i \in 1 .. n : log'[i] = log[i]
  BY <1>3, <1>4, SubSeqProperties
<1>6. \A i \in 1 .. Len(log) : log[i] \in Ran(recorded)
  BY <1>4 DEF Ran
<1>7. Ran(log') \subseteq Ran(recorded)
  <2>1. \A i \in 1 .. Len(log') : log'[i] \in Ran(recorded)
    BY <1>4, <1>5, <1>6
  <2> QED
    BY <2>1 DEF Ran
<1>8. CASE file' = Text(log')
  <2>1. FileInv' /\ Len(file') \in Nat
    BY <1>1, <1>5, <1>7, <1>8, WholeFile
  <2> QED
    BY <1>1, <1>2, <2>1, EndKeepsScript
<1>9. CASE /\ Len(log') < Len(log)
           /\ \E l \in Cut(log[Len(log') + 1]) : file' = Append(Text(log'), l)
  <2>1. PICK l \in Cut(log[n + 1]) : file' = Append(Text(log'), l)
    BY <1>5, <1>9
  <2>2. log[n + 1] \in Ran(recorded)
    <3>1. n + 1 \in 1 .. Len(log)
      BY <1>4, <1>5, <1>9
    <3> QED
      BY <1>6, <3>1
  <2>3. FileInv' /\ Len(file') \in Nat
    BY <1>1, <1>5, <1>7, <2>1, <2>2, CutFile
  <2> QED
    BY <1>1, <1>2, <2>3, EndKeepsScript
<1> QED
  BY <1>8, <1>9 DEF Die

LEMMA TraceKeeps ==
  ASSUME ProgramInv, ScriptInv, Trace
  PROVE  ProgramInv' /\ ScriptInv'
<1>1. CASE Open
  <2>1. /\ phase = "unopened" /\ phase' = "open" /\ UNCHANGED <<log, recorded, program, script>>
    BY <1>1 DEF Open, Log!Open
  <2> QED
    BY <2>1, SameLogKeeps, QuietKeeps
<1>2. CASE Exit
  BY <1>2, ExitKeeps
<1>3. CASE Die
  BY <1>3, DieKeepsScript
<1>4. ASSUME phase = "open", NEW t \in Threads, Create(t) \/ End(t) \/ EndAccess(t)
      PROVE  ProgramInv' /\ ScriptInv'
  <2>1. ProgramInv'
    BY <1>4, CreateKeeps, EndKeeps, EndAccessKeeps
  <2>2. UNCHANGED script /\ phase' = "open"
    BY <1>4 DEF Create, End, EndAccess, Probe, Effect, Log!Record
  <2> QED
    BY <1>4, <2>1, <2>2, QuietKeeps
<1>5. ASSUME phase = "open", NEW v \in Vars, Allocate(v) \/ Free(v)
      PROVE  ProgramInv' /\ ScriptInv'
  <2>1. ProgramInv'
    BY <1>5, AllocateKeeps, FreeKeeps
  <2>2. UNCHANGED script /\ phase' = "open"
    BY <1>5 DEF Allocate, Free
  <2> QED
    BY <1>5, <2>1, <2>2, QuietKeeps
<1>6. ASSUME phase = "open", NEW t \in Threads, NEW v \in Vars, NEW op \in Ops,
             BeginAccess(t, v, op)
      PROVE  ProgramInv' /\ ScriptInv'
  <2>1. ProgramInv'
    BY <1>6, BeginAccessKeeps
  <2>2. UNCHANGED script /\ phase' = "open"
    BY <1>6 DEF BeginAccess, Probe, Effect, Log!Record
  <2> QED
    BY <1>6, <2>1, <2>2, QuietKeeps
<1> QED
  BY <1>1, <1>2, <1>3, <1>4, <1>5, <1>6 DEF Trace

LEMMA RunInvariant == RunSpec => [](ProgramInv /\ ScriptInv)
<1>1. RunInit => ProgramInv /\ ScriptInv
  <2> SUFFICES ASSUME RunInit PROVE ProgramInv /\ ScriptInv
    OBVIOUS
  <2>1. ProgramInv
    BY InitProgram
  <2>2. file = <<>> /\ Start /\ phase = "unopened" /\ Len(file) \in Nat
    BY DEF RunInit
  <2>3. ReadInv /\ ReportInv
    BY <2>2, StartKeeps
  <2> QED
    BY <2>1, <2>2, <2>3 DEF ScriptInv
<1>2. ProgramInv /\ ScriptInv /\ [RunNext]_runVars => (ProgramInv /\ ScriptInv)'
  <2> SUFFICES ASSUME ProgramInv, ScriptInv, [RunNext]_runVars
               PROVE  ProgramInv' /\ ScriptInv'
    OBVIOUS
  <2>1. CASE Trace
    BY <2>1, TraceKeeps
  <2>2. CASE Script
    BY <2>2, ScriptKeeps
  <2>3. CASE UNCHANGED runVars
    <3>1. UNCHANGED <<log, phase, recorded, program, script>>
      BY <2>3 DEF runVars
    <3>2. phase \in {"unopened", "open", "sealed", "lost"}
      BY DEF ProgramInv, TypeInv
    <3>3. ProgramInv'
      BY <3>1, <3>2, SameLogKeeps
    <3>4. CASE phase \in {"unopened", "open"}
      BY <3>1, <3>3, <3>4, QuietKeeps
    <3>5. CASE phase \in {"sealed", "lost"}
      <4>1. ReadInv' /\ ReportInv'
        BY <3>1, SameScript DEF ScriptInv, script, vars
      <4>2. file' = file /\ log' = log /\ recorded' = recorded /\ phase' = phase
        BY <3>1 DEF script
      <4>3. FileInv'
        BY <3>5, <4>2 DEF ScriptInv, FileInv, Ran
      <4> QED
        BY <3>3, <3>5, <4>1, <4>2, <4>3 DEF ScriptInv
    <3> QED
      BY <3>2, <3>4, <3>5
  <2> QED
    BY <2>1, <2>2, <2>3 DEF RunNext
<1> QED
  BY <1>1, <1>2, PTL DEF RunSpec

-----------------------------------------------------------------------------
(* What the report shows *)

LEMMA GroupIsTrue ==
  ASSUME ProgramInv, ScriptInv
  PROVE  GroupHasTwoThreads
<1> SUFFICES ASSUME NEW i \in 1 .. Len(report), report[i].addr \in Addrs
             PROVE  \E j, k \in 1 .. Len(recorded) :
                      /\ recorded[j].addr = report[i].addr /\ recorded[k].addr = report[i].addr
                      /\ recorded[j].thread # recorded[k].thread
                      /\ \/ recorded[j].var = recorded[k].var
                         \/ {recorded[j].var, recorded[k].var} \cap freed # {}
  BY DEF GroupHasTwoThreads
<1> DEFINE a == report[i].addr
           arr == dic[a]
<1>1. a \in Addrs /\ a \in DOMAIN dic /\ Shared(arr)
  BY DEF ScriptInv, ReportInv
<1> HIDE DEF a
<1>2. report # <<>>
  BY EmptyAny
<1>3. FileInv
  <2>1. ~Start
    BY <1>2 DEF Start
  <2>2. phase \in {"sealed", "lost"}
    BY <2>1 DEF ScriptInv, ProgramInv, TypeInv
  <2> QED
    BY <2>2 DEF ScriptInv
<1>4. GroupInv(a) /\ read \in 0 .. Len(file) /\ Len(file) \in Nat
  BY <1>1 DEF ScriptInv, ReadInv
<1>5. \A fields \in Ran(arr) : \E e \in Ran(recorded) : e.addr = a /\ fields[1] = e.tid
  <2> SUFFICES ASSUME NEW fields \in Ran(arr)
               PROVE  \E e \in Ran(recorded) : e.addr = a /\ fields[1] = e.tid
    OBVIOUS
  <2>1. 4 \in DOMAIN fields /\ fields[4] = a
    BY <1>4 DEF GroupInv
  <2>2. PICK l \in 1 .. read : fields = Split(file[l])
    BY <1>4 DEF GroupInv
  <2>3. PICK e \in Ran(recorded) : FromEvent(fields, e)
    BY <1>3, <1>4, <2>2 DEF FileInv
  <2>4. fields[1] = e.tid /\ fields[4] \in {e.addr, "part"}
    BY <2>1, <2>3 DEF FromEvent
  <2>5. a # "part"
    BY <1>1, TextAssumption
  <2> QED
    BY <2>1, <2>4, <2>5
<1>6. PICK p \in 1 .. Len(arr) : arr[p][1] # arr[1][1]
  BY <1>1 DEF Shared
<1>7. Len(arr) \in Nat /\ 1 \in 1 .. Len(arr)
  <2>1. Len(arr) \in Nat
    BY <1>4, AppendAny DEF GroupInv
  <2> QED
    BY <1>6, <2>1
<1>8. arr[1] \in Ran(arr) /\ arr[p] \in Ran(arr)
  BY <1>7 DEF Ran
<1>9. PICK e \in Ran(recorded), f \in Ran(recorded) :
        e.addr = a /\ f.addr = a /\ e.tid # f.tid
  BY <1>5, <1>6, <1>8
<1>10. e.thread # f.thread
  BY <1>9 DEF ProgramInv, IdInv
<1>11. PICK j \in 1 .. Len(recorded), k \in 1 .. Len(recorded) :
         e = recorded[j] /\ f = recorded[k]
  BY DEF Ran
<1>12. e.var = f.var \/ e.var \in freed \/ f.var \in freed
  <2> SUFFICES ASSUME e.var \notin freed, f.var \notin freed PROVE e.var = f.var
    OBVIOUS
  <2>1. addr[e.var] # None /\ addr[e.var] = a /\ addr[f.var] = a
    BY <1>9 DEF ProgramInv, AddrInv
  <2>2. e.var \in Vars /\ f.var \in Vars
    BY RecordedNamed DEF ProgramInv
  <2> QED
    BY <2>1, <2>2 DEF ProgramInv, AddrInv
<1> QED
  BY <1>9, <1>10, <1>11, <1>12 DEF a

\* Both threads of two lines that met at a variable are in the report.
LEMMA MetReported ==
  ASSUME ProgramInv, ScriptInv, status = "done",
         NEW e \in Ran(log), NEW f \in Ran(log), e.var = f.var, {e.thread, f.thread} \in met
  PROVE  e.addr = f.addr /\ {e.tid, f.tid} \subseteq Reported(e.addr)
<1>1. /\ e \in Ran(recorded) /\ f \in Ran(recorded)
      /\ e.addr = f.addr /\ e.tid # f.tid
  <2>1. e \in Ran(recorded) /\ f \in Ran(recorded)
    BY DEF ProgramInv, LogInv
  <2> QED
    BY <2>1 DEF ProgramInv, IdInv, AddrInv
<1> DEFINE a == e.addr
<1>2. phase \in {"sealed", "lost"} /\ read = Len(file) /\ Len(file) \in Nat
  BY DEF ScriptInv, Start, ProgramInv, TypeInv, ReadInv
<1>3. FileInv
  BY <1>2 DEF ScriptInv
<1>4. \A g \in Ran(log) :
        g.addr \in DOMAIN dic /\ Fields(g) \in Ran(dic[g.addr])
  <2> SUFFICES ASSUME NEW g \in Ran(log)
               PROVE  g.addr \in DOMAIN dic /\ Fields(g) \in Ran(dic[g.addr])
    OBVIOUS
  <2>1. PICK i \in 1 .. Len(log) : g = log[i]
    BY DEF Ran
  <2>2. i <= Len(file) /\ Split(file[i]) = Fields(g)
    BY <1>3, <2>1 DEF FileInv
  <2>3. log \in Seq(Named)
    BY DEF ProgramInv, TypeInv
  <2>4. i \in 1 .. read
    <3>1. Len(log) \in Nat
      BY <2>3, LenProperties
    <3> QED
      BY <1>2, <2>2, <3>1
  <2>5. Filed(i)
    BY <2>4 DEF ScriptInv, ReadInv
  <2>6. Fields(g)[4] \in DOMAIN dic /\ Fields(g) \in Ran(dic[Fields(g)[4]])
    BY <2>2, <2>5 DEF Filed
  <2> QED
    BY <2>6, FieldsProperties
<1>5. /\ a \in DOMAIN dic /\ Fields(e) \in Ran(dic[a]) /\ Fields(f) \in Ran(dic[a])
      /\ Fields(e)[1] = e.tid /\ Fields(f)[1] = f.tid
  BY <1>1, <1>4, FieldsProperties
<1> HIDE DEF a
<1>6. Shared(dic[a])
  <2>1. PICK i \in 1 .. Len(dic[a]), j \in 1 .. Len(dic[a]) :
          dic[a][i] = Fields(e) /\ dic[a][j] = Fields(f)
    BY <1>5 DEF Ran
  <2>2. dic[a][i][1] # dic[a][j][1]
    BY <1>1, <1>5, <2>1
  <2> QED
    BY <2>2 DEF Shared
<1>7. PICK k \in 1 .. Len(order) : order[k] = a
  BY <1>5 DEF ScriptInv, ReadInv, Ran
<1>8. k < next
  <2>1. IsSeq(order) /\ next \in Nat /\ next > Len(order)
    BY DEF ScriptInv, ReadInv, ReportInv
  <2>2. Len(order) \in Nat
    BY <2>1, AppendAny
  <2> QED
    BY <2>1, <2>2
<1>9. Printed(a, dic[a], report)
  BY <1>6, <1>7, <1>8 DEF ScriptInv, ReportInv
<1>10. PICK i \in 1 .. Len(report) :
         /\ report[i].addr = a
         /\ \A fields \in Ran(dic[a]) : fields[1] \in ThreadsOf(report[i].rows)
  BY <1>9 DEF Printed
<1>11. e.tid \in ThreadsOf(report[i].rows) /\ f.tid \in ThreadsOf(report[i].rows)
  BY <1>5, <1>10
<1>12. ThreadsOf(report[i].rows) \subseteq Reported(a)
  BY <1>10 DEF Reported
<1> QED
  BY <1>1, <1>11, <1>12 DEF a

LEMMA RecordedRan == Log!Recorded = Ran(log)
BY DEF Log!Recorded, Ran

(***************************************************************************)
(* Behind every group of an address in the report there are two threads    *)
(* that used the address, whatever of the log was lost and wherever the    *)
(* script stopped: the thread id of a line is that of one thread only.     *)
(* Unless an address was used again, they used the same variable.          *)
(***************************************************************************)
THEOREM NoFalseGroup == RunSpec => []GroupHasTwoThreads
<1>1. ProgramInv /\ ScriptInv => GroupHasTwoThreads
  BY GroupIsTrue
<1> QED
  BY <1>1, RunInvariant, PTL

(***************************************************************************)
(* Two threads that lived at the same time and have lines for the same     *)
(* variable in the log that was kept are both in the report, though ids    *)
(* and addresses are given away again.                                     *)
(***************************************************************************)
THEOREM NoKeptMissed == RunSpec => []KeptReported
<1>1. ProgramInv /\ ScriptInv => KeptReported
  BY MetReported, RecordedRan DEF KeptReported
<1> QED
  BY <1>1, RunInvariant, PTL

(***************************************************************************)
(* When the process ended by itself and no access was under way, this      *)
(* holds of what the threads did: two threads that lived at the same time  *)
(* and accessed the same variable are both reported at its address.        *)
(***************************************************************************)
THEOREM NoneMissed == RunSpec => []ConcurrentReported
<1>1. ProgramInv /\ ScriptInv => ConcurrentReported
  <2> SUFFICES ASSUME ProgramInv, ScriptInv, status = "done", phase = "sealed",
                      \A t \in Threads : at[t] = None,
                      NEW x \in performed, NEW y \in performed,
                      x[2] = y[2], {x[1], y[1]} \in met
               PROVE  \E e, f \in Log!Recorded :
                        /\ <<e.thread, e.var>> = x /\ <<f.thread, f.var>> = y
                        /\ e.addr = f.addr /\ {e.tid, f.tid} \subseteq Reported(e.addr)
    BY DEF ConcurrentReported
  <2>1. /\ x[1] \in Threads /\ x[2] \in Vars /\ x = <<x[1], x[2]>>
        /\ y[1] \in Threads /\ y[2] \in Vars /\ y = <<y[1], y[2]>>
    BY DEF ProgramInv, TypeInv
  <2>2. HasEvent(Ran(recorded), x[1], x[2]) /\ HasEvent(Ran(recorded), y[1], y[2])
    BY <2>1 DEF ProgramInv, PerformedInv, Loading
  <2>3. Ran(recorded) = Ran(log)
    BY DEF ProgramInv, LogInv
  <2>4. PICK e \in Ran(log) : e.thread = x[1] /\ e.var = x[2]
    BY <2>2, <2>3 DEF HasEvent
  <2>5. PICK f \in Ran(log) : f.thread = y[1] /\ f.var = y[2]
    BY <2>2, <2>3 DEF HasEvent
  <2>6. e.addr = f.addr /\ {e.tid, f.tid} \subseteq Reported(e.addr)
    BY <2>4, <2>5, MetReported
  <2>7. <<e.thread, e.var>> = x /\ <<f.thread, f.var>> = y
    BY <2>1, <2>4, <2>5
  <2> QED
    BY <2>6, <2>7, RecordedRan
<1> QED
  BY <1>1, RunInvariant, PTL
=============================================================================
