---------------------------- MODULE PeersProofs ----------------------------
(***************************************************************************)
(* Proofs about the list of peers, for any number of threads, peers,       *)
(* values and calls, and any capacity of the channels.                     *)
(***************************************************************************)
EXTENDS Peers, SequenceTheorems, TLAPS

-----------------------------------------------------------------------------
(* The elements of sequences *)

LEMMA EmptyElements == ToSet(<<>>) = {}
BY EmptySeq, LenProperties DEF ToSet

\* The first element and the rest of a sequence.
LEMMA HeadTailElements ==
  ASSUME NEW S, NEW s \in Seq(S), s # <<>>
  PROVE  /\ Head(s) \in S /\ Tail(s) \in Seq(S) /\ Head(s) = s[1]
         /\ ToSet(s) = {Head(s)} \cup ToSet(Tail(s))
         /\ IsInjective(s) => IsInjective(Tail(s)) /\ Head(s) \notin ToSet(Tail(s))
<1>1. /\ Head(s) \in S /\ Tail(s) \in Seq(S) /\ Len(s) \in Nat \ {0}
      /\ DOMAIN s = 1 .. Len(s) /\ DOMAIN Tail(s) = 1 .. Len(s) - 1
      /\ \A i \in 1 .. Len(s) - 1 : Tail(s)[i] = s[i + 1]
      /\ Head(s) = s[1]
  BY HeadTailProperties, LenProperties, EmptySeq
<1>2. ToSet(s) = {Head(s)} \cup ToSet(Tail(s))
  <2>1. ASSUME NEW x \in ToSet(s) PROVE x = Head(s) \/ x \in ToSet(Tail(s))
    <3>1. PICK i \in 1 .. Len(s) : x = s[i]
      BY <1>1 DEF ToSet
    <3>2. i = 1 \/ (i - 1 \in 1 .. Len(s) - 1 /\ Tail(s)[i - 1] = s[i])
      BY <1>1
    <3> QED
      BY <1>1, <3>1, <3>2 DEF ToSet
  <2>2. ASSUME NEW x \in ToSet(Tail(s)) PROVE x \in ToSet(s)
    <3>1. PICK i \in 1 .. Len(s) - 1 : x = Tail(s)[i]
      BY <1>1 DEF ToSet
    <3>2. x = s[i + 1] /\ i + 1 \in 1 .. Len(s)
      BY <1>1, <3>1
    <3> QED
      BY <1>1, <3>2 DEF ToSet
  <2>3. Head(s) \in ToSet(s)
    BY <1>1 DEF ToSet
  <2> QED
    BY <2>1, <2>2, <2>3
<1>3. ASSUME IsInjective(s) PROVE IsInjective(Tail(s)) /\ Head(s) \notin ToSet(Tail(s))
  <2>1. \A i, j \in 1 .. Len(s) : s[i] = s[j] => i = j
    BY <1>1, <1>3 DEF IsInjective
  <2>2. \A i \in 1 .. Len(s) - 1 : i + 1 \in 1 .. Len(s) /\ i + 1 # 1
    BY <1>1
  <2>3. IsInjective(Tail(s))
    <3>1. ASSUME NEW i \in 1 .. Len(s) - 1, NEW j \in 1 .. Len(s) - 1, Tail(s)[i] = Tail(s)[j]
          PROVE  i = j
      BY <1>1, <2>1, <2>2, <3>1
    <3> QED
      BY <1>1, <3>1 DEF IsInjective
  <2>4. Head(s) \notin ToSet(Tail(s))
    BY <1>1, <2>1, <2>2 DEF ToSet
  <2> QED
    BY <2>3, <2>4
<1> QED
  BY <1>1, <1>2, <1>3

\* A sequence with one more element.
LEMMA AppendElements ==
  ASSUME NEW S, NEW s \in Seq(S), NEW t \in Seq(S), Len(t) = 1, NEW u, u = s \o t
  PROVE  /\ ToSet(u) = ToSet(s) \cup {t[1]}
         /\ IsInjective(s) /\ t[1] \notin ToSet(s) => IsInjective(u)
<1>1. Len(s) \in Nat /\ u \in Seq(S) /\ Len(u) = Len(s) + 1
  BY ConcatProperties, LenProperties
<1>2. DOMAIN s = 1 .. Len(s) /\ DOMAIN u = 1 .. Len(s) + 1
  BY <1>1, LenProperties
<1>3. \A i \in 1 .. Len(s) + 1 : u[i] = IF i <= Len(s) THEN s[i] ELSE t[1]
  BY <1>1, ConcatProperties
<1>4. ToSet(u) = ToSet(s) \cup {t[1]}
  <2>1. \A i \in 1 .. Len(s) : u[i] = s[i] /\ i \in 1 .. Len(s) + 1
    BY <1>1, <1>3
  <2>2. u[Len(s) + 1] = t[1] /\ Len(s) + 1 \in 1 .. Len(s) + 1
    BY <1>1, <1>3
  <2>3. \A i \in 1 .. Len(s) + 1 : i \in 1 .. Len(s) \/ i = Len(s) + 1
    BY <1>1
  <2> QED
    BY <1>2, <2>1, <2>2, <2>3 DEF ToSet
<1>5. ASSUME IsInjective(s), t[1] \notin ToSet(s) PROVE IsInjective(u)
  BY <1>1, <1>2, <1>3, <1>5 DEF IsInjective, ToSet
<1> QED
  BY <1>4, <1>5

-----------------------------------------------------------------------------
(***************************************************************************)
(* The inductive invariant                                                 *)
(***************************************************************************)

\* The callers that hold the lock of the list.
Looping(c) == pc[c] \in {"broadcast", "close"}

Adding(c) == pc[c] \in {"add_push", "add_start"}

Broadcasting(c) == pc[c] \in {"broadcast_lock", "broadcast"}

\* The peers that are in the list, or that a caller has taken from there.
Listed == ToSet(list) \cup Ahead("broadcast") \cup Ahead("close")

\* The lock of the list has one holder, and none once it is poisoned.
LockInv ==
  /\ \A c, d \in Callers : Looping(c) /\ Looping(d) => c = d
  /\ poisoned => \A c \in Callers : ~Looping(c)
  /\ \A c \in Callers : pc[c] = "close" => list = <<>>

\* A call of add_peer has a peer of its own, which is not known before it is pushed.
AddInv ==
  /\ Listed \cup told \cup started \subseteq 1 .. made
  /\ \A c \in Callers : Adding(c) => \E p \in 1 .. made : todo[c] = <<p>>
  /\ \A c, d \in Callers : Adding(c) /\ Adding(d) /\ todo[c] = todo[d] => c = d
  /\ \A c \in Callers : pc[c] = "add_push" =>
       todo[c][1] \notin Listed \cup told \cup started

\* No peer is there twice.
Distinct ==
  /\ IsInjective(list)
  /\ \A c \in Callers : Looping(c) => IsInjective(todo[c])

\* A listed peer listens, or is in the hands of a call of add_peer.
Watched ==
  \A p \in Listed :
    /\ p \notin told
    /\ IF p \in started THEN listener[p] \in {"value", "close"}
       ELSE \E c \in Callers : pc[c] = "add_start" /\ todo[c] = <<p>>

\* Broadcasts that are under way have values of their own.
ValueInv ==
  /\ \A c \in Callers : Broadcasting(c) => value[c] \in 1 .. values
  /\ \A c, d \in Callers :
       Broadcasting(c) /\ Broadcasting(d) /\ value[c] = value[d] => c = d

\* A value that is being broadcast is not in a channel yet, or is the last one there.
LatestInv ==
  \A p \in PeerIds : \A k \in 1 .. Len(sent[p]) :
    /\ sent[p][k] \in 1 .. values
    /\ \A c \in Callers : pc[c] = "broadcast_lock" => sent[p][k] # value[c]
    /\ \A c \in Callers : pc[c] = "broadcast" /\ sent[p][k] = value[c] =>
         k = Len(sent[p]) /\ p \notin ToSet(todo[c])

OrderInv == ValueInv /\ LatestInv /\ SameOrder

PeersInv == LockInv /\ AddInv /\ Distinct /\ Watched

-----------------------------------------------------------------------------
(* Type correctness *)

PCs == {"idle", "add_push", "add_start", "broadcast_lock", "broadcast",
        "close_lock", "close", "panicked"}

\* Moving caller c, with what is left to do.
LEMMA GotoType ==
  ASSUME TypeOK, NEW c \in Callers, NEW x \in PCs, NEW s \in Seq(PeerIds),
         pc' = [pc EXCEPT ![c] = x],
         todo' = todo \/ todo' = [todo EXCEPT ![c] = s]
  PROVE  pc' \in [Callers -> PCs] /\ todo' \in [Callers -> Seq(PeerIds)]
BY DEF TypeOK, PCs

LEMMA TrySendType ==
  ASSUME TypeOK, NEW p \in PeerIds, NEW v \in ValueIds, TrySend(p, v)
  PROVE  /\ sent' \in [PeerIds -> Seq(ValueIds)]
         /\ \A q \in PeerIds : Len(sent'[q]) - received[q] \in 0 .. Capacity
<1>1. sent \in [PeerIds -> Seq(ValueIds)] /\ sent[p] \in Seq(ValueIds) /\ received[p] \in Nat
  BY DEF TypeOK
<1>2. CASE UNCHANGED sent
  BY <1>2 DEF TypeOK
<1>3. CASE ~Full(p) /\ sent' = [sent EXCEPT ![p] = Append(@, v)]
  <2>1. Append(sent[p], v) \in Seq(ValueIds) /\ Len(Append(sent[p], v)) = Len(sent[p]) + 1
    BY <1>1, AppendProperties
  <2>2. Len(sent[p]) \in Nat /\ Len(sent[p]) - received[p] < Capacity
    BY <1>1, <1>3, CapacityAssumption DEF Full, TypeOK
  <2>3. Len(sent'[p]) - received[p] \in 0 .. Capacity
    BY <1>1, <1>3, <2>1, <2>2, CapacityAssumption DEF TypeOK
  <2>4. \A q \in PeerIds : q # p => sent'[q] = sent[q]
    BY <1>1, <1>3
  <2> QED
    BY <1>1, <1>3, <2>1, <2>3, <2>4 DEF TypeOK
<1> QED
  BY <1>2, <1>3 DEF TrySend

LEMMA PanicType ==
  ASSUME TypeOK, NEW c \in Callers, Panic(c)
  PROVE  TypeOK'
<1>1. <<>> \in Seq(PeerIds)
  BY EmptySeq
<1>2. pc' \in [Callers -> PCs] /\ todo' \in [Callers -> Seq(PeerIds)]
  BY <1>1, GotoType DEF Panic, PCs
<1> QED
  BY <1>2 DEF Panic, TypeOK, PCs, counters, channels

LEMMA TypeStep ==
  ASSUME TypeOK, AddInv, OrderInv, [Next]_vars
  PROVE  TypeOK'
<1> USE DEF PCs, channels, counters
<1>1. ASSUME NEW c \in Callers, Call(c) PROVE TypeOK'
  <2>1. CASE AddPeer(c)
    <3>1. made + 1 \in PeerIds /\ made + 1 \in 0 .. MaxPeers
      BY <2>1, BoundsAssumption DEF AddPeer, TypeOK, PeerIds
    <3>2. <<made + 1>> \in Seq(PeerIds)
      BY <3>1
    <3>3. pc' \in [Callers -> PCs] /\ todo' \in [Callers -> Seq(PeerIds)]
      BY <2>1, <3>2, GotoType DEF AddPeer, Goto
    <3> QED
      BY <2>1, <3>1, <3>3 DEF AddPeer, TypeOK
  <2>2. CASE Broadcast(c)
    <3>1. values + 1 \in ValueIds /\ values + 1 \in 0 .. MaxValues
      BY <2>2, BoundsAssumption DEF Broadcast, TypeOK, ValueIds
    <3> QED
      BY <2>2, <3>1 DEF Broadcast, Goto, TypeOK
  <2>3. CASE ClosePeers(c)
    <3>1. closes + 1 \in 0 .. MaxCloses
      BY <2>3, BoundsAssumption DEF ClosePeers, TypeOK
    <3> QED
      BY <2>3, <3>1 DEF ClosePeers, Goto, TypeOK
  <2> QED
    BY <1>1, <2>1, <2>2, <2>3 DEF Call
<1>2. ASSUME NEW c \in Callers, CallStep(c) PROVE TypeOK'
  <2> DEFINE rest == Tail(todo[c])
  <2>1. todo[c] \in Seq(PeerIds) /\ <<>> \in Seq(PeerIds)
    BY EmptySeq DEF TypeOK
  <2>2. todo[c] # <<>> => Head(todo[c]) \in PeerIds /\ rest \in Seq(PeerIds)
    BY <2>1, HeadTailElements
  <2>3. CASE LockPoisoned(c) \/ BroadcastPanics(c) \/ ClosePanics(c)
    BY <2>3, PanicType DEF LockPoisoned, BroadcastPanics, ClosePanics
  <2>4. CASE AddPush(c)
    <3>1. list \o todo[c] \in Seq(PeerIds)
      BY <2>1, ConcatProperties DEF TypeOK
    <3> QED
      BY <2>4, <3>1 DEF AddPush, Goto, TypeOK
  <2>5. CASE AddStart(c)
    <3>1. PICK p \in 1 .. made : todo[c] = <<p>>
      BY <2>5 DEF AddStart, Start, Goto, AddInv, Adding
    <3>2. todo[c][1] \in PeerIds
      BY <3>1, <2>1 DEF TypeOK, PeerIds
    <3>3. pc' \in [Callers -> PCs] /\ todo' \in [Callers -> Seq(PeerIds)]
      BY <2>1, <2>5, GotoType DEF AddStart, Start, Goto
    <3> QED
      BY <2>5, <3>2, <3>3 DEF AddStart, Start, TypeOK
  <2>6. CASE BroadcastLock(c) \/ CloseLock(c)
    <3>1. list \in Seq(PeerIds)
      BY DEF TypeOK
    <3>2. pc' \in [Callers -> PCs] /\ todo' \in [Callers -> Seq(PeerIds)]
      BY <2>6, <3>1, GotoType DEF BroadcastLock, CloseLock, Iterate, Goto
    <3>3. list' \in Seq(PeerIds)
      BY <2>1, <2>6, <3>1 DEF BroadcastLock, CloseLock, Iterate
    <3> QED
      BY <2>6, <3>2, <3>3 DEF BroadcastLock, CloseLock, Iterate, TypeOK
  <2>7. CASE BroadcastSend(c)
    <3>1. value[c] \in ValueIds
      BY <2>7 DEF BroadcastSend, OrderInv, ValueInv, Broadcasting, TypeOK, ValueIds
    <3>2. /\ sent' \in [PeerIds -> Seq(ValueIds)]
          /\ \A q \in PeerIds : Len(sent'[q]) - received[q] \in 0 .. Capacity
      BY <2>2, <2>7, <3>1, TrySendType DEF BroadcastSend
    <3>3. todo' \in [Callers -> Seq(PeerIds)]
      BY <2>2, <2>7 DEF BroadcastSend, TypeOK
    <3> QED
      BY <2>7, <3>2, <3>3 DEF BroadcastSend, TypeOK
  <2>8. CASE Close(c)
    <3>1. todo' \in [Callers -> Seq(PeerIds)] /\ told' \subseteq PeerIds
      BY <2>2, <2>8 DEF Close, TypeOK
    <3> QED
      BY <2>8, <3>1 DEF Close, TypeOK
  <2>9. CASE BroadcastEnd(c) \/ CloseEnd(c)
    BY <2>9 DEF BroadcastEnd, CloseEnd, Goto, TypeOK
  <2> QED
    BY <1>2, <2>3, <2>4, <2>5, <2>6, <2>7, <2>8, <2>9 DEF CallStep
<1>3. ASSUME NEW p \in PeerIds, PollValue(p) PROVE TypeOK'
  <2>1. Len(sent[p]) \in Nat /\ received[p] \in Nat
    BY LenProperties DEF TypeOK
  <2>2. /\ received'[p] \in Nat
        /\ Len(sent[p]) - received'[p] \in 0 .. Capacity
        /\ \A q \in PeerIds : q # p => received'[q] = received[q]
        /\ received' \in [PeerIds -> Nat]
    BY <1>3, <2>1, CapacityAssumption DEF PollValue, TypeOK
  <2> QED
    BY <1>3, <2>2 DEF PollValue, TypeOK
<1>4. ASSUME NEW p \in PeerIds, PollClose(p) PROVE TypeOK'
  BY <1>4 DEF PollClose, TypeOK
<1>5. ASSUME Quiet \/ UNCHANGED vars PROVE TypeOK'
  BY <1>5 DEF Quiet, vars, TypeOK
<1> QED
  BY <1>1, <1>2, <1>3, <1>4, <1>5 DEF Next, Poll

-----------------------------------------------------------------------------
(* The steps preserve PeersInv *)

LEMMA MadePeers ==
  ASSUME TypeOK
  PROVE  1 .. made \subseteq PeerIds
BY BoundsAssumption DEF TypeOK, PeerIds

LEMMA InListed ==
  /\ \A p : p \in Listed <=>
       p \in ToSet(list) \/ \E c \in Callers : Looping(c) /\ p \in ToSet(todo[c])
  /\ \A p : p \in Listed' <=>
       p \in ToSet(list') \/ \E c \in Callers : Looping(c)' /\ p \in ToSet(todo'[c])
BY DEF Listed, Ahead, Looping

\* A step of caller c that adds no peer, tells and starts none.
LEMMA ShrinkStep ==
  ASSUME AddInv, Watched, NEW c \in Callers,
         UNCHANGED <<made, started, told, listener>>,
         Listed' \subseteq Listed,
         pc[c] # "add_start", pc'[c] \notin {"add_push", "add_start"},
         \A d \in Callers \ {c} : pc'[d] = pc[d] /\ todo'[d] = todo[d]
  PROVE  AddInv' /\ Watched'
<1>1. AddInv'
  BY DEF AddInv, Adding
<1>2. Watched'
  <2> SUFFICES ASSUME NEW p \in Listed'
               PROVE  /\ p \notin told'
                      /\ IF p \in started' THEN listener'[p] \in {"value", "close"}
                         ELSE \E d \in Callers : pc'[d] = "add_start" /\ todo'[d] = <<p>>
    BY DEF Watched
  <2>1. /\ p \notin told
        /\ IF p \in started THEN listener[p] \in {"value", "close"}
           ELSE \E d \in Callers : pc[d] = "add_start" /\ todo[d] = <<p>>
    BY DEF Watched
  <2> QED
    BY <2>1
<1> QED
  BY <1>1, <1>2

\* A step outside the loops leaves the listed peers as they are.
LEMMA ListedSame ==
  ASSUME NEW c \in Callers, UNCHANGED list,
         ~Looping(c), ~Looping(c)',
         \A d \in Callers \ {c} : pc'[d] = pc[d] /\ todo'[d] = todo[d]
  PROVE  Listed' = Listed
<1>1. \A d \in Callers : Looping(d)' <=> Looping(d)
  BY DEF Looping
<1>2. \A d \in Callers : Looping(d) => todo'[d] = todo[d]
  OBVIOUS
<1>3. \A p : p \in Listed' <=> p \in Listed
  BY <1>1, <1>2, InListed
<1> QED
  BY <1>3

LEMMA CallPeersInv ==
  ASSUME TypeOK, PeersInv, NEW c \in Callers, Call(c)
  PROVE  PeersInv'
<1> USE DEF PeersInv, channels, counters
<1>1. /\ pc[c] = "idle" /\ UNCHANGED <<list, poisoned, started, told, listener>>
      /\ \A d \in Callers \ {c} : pc'[d] = pc[d] /\ todo'[d] = todo[d]
      /\ pc'[c] \in {"add_push", "broadcast_lock", "close_lock"}
  BY DEF Call, AddPeer, Broadcast, ClosePeers, Goto, TypeOK
<1>2. Listed' = Listed
  BY <1>1, ListedSame DEF Looping
<1>3. LockInv' /\ Distinct'
  BY <1>1 DEF LockInv, Distinct, Looping
<1>4. CASE AddPeer(c)
  <2>1. /\ made' = made + 1 /\ made \in Nat /\ todo'[c] = <<made + 1>>
        /\ pc'[c] = "add_push"
    BY <1>4 DEF AddPeer, Goto, TypeOK
  <2>2. \A d \in Callers \ {c} : Adding(d) => todo[d] # <<made + 1>>
    <3> SUFFICES ASSUME NEW d \in Callers, Adding(d) PROVE todo[d] # <<made + 1>>
      OBVIOUS
    <3>1. PICK p \in 1 .. made : todo[d] = <<p>>
      BY DEF AddInv
    <3>2. p # made + 1
      BY <2>1
    <3> QED
      BY <3>1, <3>2
  <2>3. AddInv'
    <3>1. Listed' \cup told' \cup started' \subseteq 1 .. made'
      BY <1>1, <1>2, <2>1 DEF AddInv
    <3>2. \A d \in Callers : Adding(d)' => \E p \in 1 .. made' : todo'[d] = <<p>>
      <4>1. \A d \in Callers \ {c} : Adding(d)' => \E p \in 1 .. made' : todo'[d] = <<p>>
        BY <1>1, <2>1 DEF AddInv, Adding
      <4>2. made + 1 \in 1 .. made'
        BY <2>1
      <4> QED
        BY <2>1, <4>1, <4>2
    <3>3. \A d, e \in Callers : Adding(d)' /\ Adding(e)' /\ todo'[d] = todo'[e] => d = e
      BY <1>1, <2>1, <2>2 DEF AddInv, Adding
    <3>4. \A d \in Callers : pc'[d] = "add_push" =>
            todo'[d][1] \notin Listed' \cup told' \cup started'
      <4>1. made + 1 \notin Listed \cup told \cup started
        BY <2>1 DEF AddInv
      <4> QED
        BY <1>1, <1>2, <2>1, <4>1 DEF AddInv
    <3> QED
      BY <3>1, <3>2, <3>3, <3>4 DEF AddInv
  <2>4. Watched'
    <3>1. \A p \in Listed : \A d \in Callers :
            pc[d] = "add_start" /\ todo[d] = <<p>> => pc'[d] = "add_start" /\ todo'[d] = <<p>>
      BY <1>1
    <3> QED
      BY <1>1, <1>2, <3>1 DEF Watched
  <2> QED
    BY <1>3, <2>3, <2>4
<1>5. CASE Broadcast(c) \/ ClosePeers(c)
  <2>1. made' = made /\ pc'[c] \in {"broadcast_lock", "close_lock"}
    BY <1>5 DEF Broadcast, ClosePeers, Goto, TypeOK
  <2> QED
    BY <1>1, <1>2, <1>3, <2>1, ShrinkStep
<1> QED
  BY <1>4, <1>5 DEF Call

LEMMA PanicPeersInv ==
  ASSUME TypeOK, PeersInv, NEW c \in Callers, Panic(c), pc[c] # "add_start",
         \A d \in Callers : Looping(d) => d = c
  PROVE  PeersInv'
<1> USE DEF PeersInv, channels, counters
<1>1. /\ pc'[c] = "panicked" /\ poisoned'
      /\ UNCHANGED <<list, made, started, told, listener>>
      /\ \A d \in Callers \ {c} : pc'[d] = pc[d] /\ todo'[d] = todo[d]
  BY DEF Panic, TypeOK
<1>2. \A d \in Callers : ~Looping(d)'
  BY <1>1 DEF Looping
<1>3. Listed' \subseteq Listed
  BY <1>1, <1>2, InListed
<1>4. LockInv' /\ Distinct'
  BY <1>1, <1>2 DEF LockInv, Distinct, Looping
<1> QED
  BY <1>1, <1>3, <1>4, ShrinkStep

LEMMA AddPushPeersInv ==
  ASSUME TypeOK, PeersInv, NEW c \in Callers, AddPush(c)
  PROVE  PeersInv'
<1> USE DEF PeersInv, channels, counters
<1>1. /\ pc[c] = "add_push" /\ pc'[c] = "add_start" /\ ListFree /\ ~poisoned
      /\ list' = list \o todo[c]
      /\ UNCHANGED <<poisoned, todo, made, started, told, listener>>
      /\ \A d \in Callers \ {c} : pc'[d] = pc[d]
  BY DEF AddPush, Goto, TypeOK
<1>2. PICK p \in 1 .. made : todo[c] = <<p>>
  BY <1>1 DEF AddInv, Adding
<1>3. /\ Len(todo[c]) = 1 /\ todo[c][1] = p /\ p \in PeerIds
      /\ todo[c] \in Seq(PeerIds) /\ list \in Seq(PeerIds)
  BY <1>2, MadePeers DEF TypeOK
<1>4. p \notin Listed \cup told \cup started
  BY <1>1, <1>3 DEF AddInv
<1>5. /\ ToSet(list') = ToSet(list) \cup {p}
      /\ IsInjective(list')
  <2>1. p \notin ToSet(list) /\ IsInjective(list)
    BY <1>4, InListed DEF Distinct
  <2>2. list' = list \o todo[c]
    BY <1>1
  <2>3. \A u : u = list \o todo[c] =>
          /\ ToSet(u) = ToSet(list) \cup {todo[c][1]}
          /\ IsInjective(list) /\ todo[c][1] \notin ToSet(list) => IsInjective(u)
    BY <1>3, AppendElements, Zenon
  <2> QED
    BY <1>3, <2>1, <2>2, <2>3, Zenon
<1>6. \A d \in Callers : ~Looping(d) /\ ~Looping(d)'
  BY <1>1 DEF ListFree, Looping
<1>7. Listed' = Listed \cup {p}
  BY <1>5, <1>6, InListed
<1>8. LockInv' /\ Distinct'
  BY <1>1, <1>5, <1>6 DEF LockInv, Distinct, Looping
<1>9. AddInv'
  <2>1. \A d \in Callers : Adding(d)' <=> Adding(d)
    BY <1>1 DEF Adding
  <2>2. \A d \in Callers : pc'[d] = "add_push" =>
          todo'[d][1] \notin Listed' \cup told' \cup started'
    <3> SUFFICES ASSUME NEW d \in Callers, pc'[d] = "add_push"
                 PROVE  todo[d][1] \notin Listed' \cup told \cup started
      BY <1>1
    <3>1. d # c /\ pc[d] = "add_push"
      BY <1>1
    <3>2. PICK q \in 1 .. made : todo[d] = <<q>>
      BY <3>1 DEF AddInv, Adding
    <3>3. todo[d][1] # p
      BY <1>1, <1>2, <3>1, <3>2 DEF AddInv, Adding
    <3> QED
      BY <1>7, <3>1, <3>3 DEF AddInv
  <2> QED
    BY <1>1, <1>7, <2>1, <2>2 DEF AddInv
<1>10. Watched'
  <2> SUFFICES ASSUME NEW q \in Listed'
               PROVE  /\ q \notin told
                      /\ IF q \in started THEN listener[q] \in {"value", "close"}
                         ELSE \E d \in Callers : pc'[d] = "add_start" /\ todo[d] = <<q>>
    BY <1>1 DEF Watched
  <2>1. CASE q = p
    BY <1>1, <1>2, <1>4, <2>1
  <2>2. CASE q \in Listed
    BY <1>1, <2>2 DEF Watched
  <2> QED
    BY <1>7, <2>1, <2>2
<1> QED
  BY <1>8, <1>9, <1>10

LEMMA AddStartPeersInv ==
  ASSUME TypeOK, PeersInv, NEW c \in Callers, AddStart(c)
  PROVE  PeersInv'
<1> USE DEF PeersInv, channels, counters
<1>1. PICK p \in 1 .. made : todo[c] = <<p>>
  BY DEF AddStart, Start, Goto, AddInv, Adding
<1>2. /\ pc[c] = "add_start" /\ pc'[c] = "idle" /\ p \in PeerIds
      /\ started' = started \cup {p}
      /\ listener' = [listener EXCEPT ![p] = "value"]
      /\ UNCHANGED <<list, poisoned, made, told>>
      /\ \A d \in Callers \ {c} : pc'[d] = pc[d] /\ todo'[d] = todo[d]
  <2>1. p \in PeerIds /\ todo[c][1] = p
    BY <1>1, MadePeers
  <2> QED
    BY <2>1 DEF AddStart, Start, Goto, TypeOK
<1>3. Listed' = Listed
  BY <1>2, ListedSame DEF Looping
<1>4. LockInv' /\ Distinct'
  BY <1>2 DEF LockInv, Distinct, Looping
<1>5. AddInv'
  <2>1. \A d \in Callers : pc'[d] = "add_push" => todo'[d][1] # p
    <3> SUFFICES ASSUME NEW d \in Callers, pc'[d] = "add_push" PROVE todo'[d][1] # p
      OBVIOUS
    <3>1. d # c /\ pc[d] = "add_push" /\ todo'[d] = todo[d]
      BY <1>2
    <3>2. PICK q \in 1 .. made : todo[d] = <<q>>
      BY <3>1 DEF AddInv, Adding
    <3>3. q # p
      BY <1>1, <1>2, <3>1, <3>2 DEF AddInv, Adding
    <3> QED
      BY <3>1, <3>2, <3>3
  <2> QED
    BY <1>1, <1>2, <1>3, <2>1 DEF AddInv, Adding
<1>6. Watched'
  <2> SUFFICES ASSUME NEW q \in Listed
               PROVE  /\ q \notin told
                      /\ IF q \in started' THEN listener'[q] \in {"value", "close"}
                         ELSE \E d \in Callers : pc'[d] = "add_start" /\ todo'[d] = <<q>>
    BY <1>2, <1>3 DEF Watched
  <2>1. CASE q = p
    BY <1>2, <2>1 DEF TypeOK, Watched
  <2>2. CASE q # p
    <3>1. <<q>> # <<p>>
      BY <2>2
    <3> QED
      BY <1>1, <1>2, <2>2, <3>1 DEF TypeOK, Watched
  <2> QED
    BY <2>1, <2>2
<1> QED
  BY <1>4, <1>5, <1>6

\* A loop over the list begins.
LEMMA LockPeersInv ==
  ASSUME TypeOK, PeersInv, NEW c \in Callers, BroadcastLock(c) \/ CloseLock(c)
  PROVE  PeersInv'
<1> USE DEF PeersInv, channels, counters
<1>1. /\ pc[c] \in {"broadcast_lock", "close_lock"} /\ ListFree /\ ~poisoned
      /\ todo'[c] = list
      /\ \/ pc'[c] = "broadcast" /\ list' = list
         \/ pc'[c] = "close" /\ list' = <<>>
      /\ UNCHANGED <<poisoned, made, started, told, listener>>
      /\ \A d \in Callers \ {c} : pc'[d] = pc[d] /\ todo'[d] = todo[d]
  BY DEF BroadcastLock, CloseLock, Iterate, Goto, TypeOK
<1>2. \A d \in Callers : ~Looping(d) /\ (Looping(d)' <=> d = c)
  BY <1>1 DEF ListFree, Looping
<1>3. Listed' \subseteq Listed
  BY <1>1, <1>2, InListed, EmptyElements
<1>4. LockInv'
  BY <1>1, <1>2 DEF LockInv, Looping
<1>5. Distinct'
  <2>1. IsInjective(list')
    BY <1>1, EmptySeq, LenProperties DEF Distinct, IsInjective
  <2> QED
    BY <1>1, <1>2, <2>1 DEF Distinct
<1> QED
  BY <1>1, <1>3, <1>4, <1>5, ShrinkStep

\* A loop goes on to the next peer, or ends.
LEMMA LoopPeersInv ==
  ASSUME TypeOK, PeersInv, NEW c \in Callers,
         BroadcastSend(c) \/ BroadcastEnd(c) \/ CloseEnd(c)
  PROVE  PeersInv'
<1> USE DEF PeersInv, channels, counters
<1>1. /\ Looping(c) /\ UNCHANGED <<list, poisoned, made, started, told, listener>>
      /\ pc'[c] \in {pc[c], "idle"}
      /\ todo'[c] \in {todo[c], Tail(todo[c])}
      /\ todo[c] = <<>> => todo'[c] = todo[c]
      /\ \A d \in Callers \ {c} : pc'[d] = pc[d] /\ todo'[d] = todo[d]
  BY DEF BroadcastSend, BroadcastEnd, CloseEnd, Goto, TypeOK, Looping
<1>2. /\ ToSet(todo'[c]) \subseteq ToSet(todo[c])
      /\ IsInjective(todo[c]) => IsInjective(todo'[c])
  <2>1. todo[c] \in Seq(PeerIds)
    BY DEF TypeOK
  <2>2. CASE todo'[c] = todo[c]
    BY <2>2
  <2>3. CASE todo[c] # <<>> /\ todo'[c] = Tail(todo[c])
    BY <2>1, <2>3, HeadTailElements
  <2> QED
    BY <1>1, <2>2, <2>3
<1>3. \A d \in Callers : Looping(d)' => Looping(d)
  BY <1>1 DEF Looping
<1>4. Listed' \subseteq Listed
  BY <1>1, <1>2, <1>3, InListed
<1>5. LockInv' /\ Distinct'
  BY <1>1, <1>2, <1>3 DEF LockInv, Distinct, Looping
<1> QED
  BY <1>1, <1>4, <1>5, ShrinkStep DEF Looping

\* The peer that is told to close leaves the listed ones.
LEMMA ClosePeersInv ==
  ASSUME TypeOK, PeersInv, NEW c \in Callers, Close(c)
  PROVE  PeersInv'
<1> USE DEF PeersInv, channels, counters
<1> DEFINE p == Head(todo[c])
<1>1. /\ pc[c] = "close" /\ todo[c] # <<>> /\ todo'[c] = Tail(todo[c])
      /\ UNCHANGED <<pc, list, poisoned, made, started, listener>>
      /\ told' \subseteq told \cup {p} /\ told \subseteq told' /\ p \in started
      /\ \A d \in Callers \ {c} : todo'[d] = todo[d]
  BY DEF Close, TypeOK
<1>2. todo[c] \in Seq(PeerIds) /\ IsInjective(todo[c])
  BY <1>1 DEF TypeOK, Distinct, Looping
<1>3. /\ ToSet(todo[c]) = {p} \cup ToSet(todo'[c])
      /\ p \notin ToSet(todo'[c]) /\ IsInjective(todo'[c])
  BY <1>1, <1>2, HeadTailElements
<1>4. \A d \in Callers : (Looping(d)' <=> Looping(d)) /\ (Looping(d) <=> d = c)
  BY <1>1 DEF LockInv, Looping
<1>5. ToSet(list) = {} /\ ToSet(list') = {}
  BY <1>1, EmptyElements DEF LockInv
<1>6. Listed = {p} \cup Listed' /\ p \notin Listed'
  <2>1. \A q : q \in Listed <=> q \in ToSet(todo[c])
    BY <1>4, <1>5, InListed
  <2>2. \A q : q \in Listed' <=> q \in ToSet(todo'[c])
    BY <1>4, <1>5, InListed
  <2> QED
    BY <1>3, <2>1, <2>2
<1>7. LockInv' /\ Distinct'
  BY <1>1, <1>3, <1>4 DEF LockInv, Distinct, Looping
<1>8. AddInv'
  BY <1>1, <1>6 DEF AddInv, Adding
<1>9. Watched'
  <2> SUFFICES ASSUME NEW q \in Listed'
               PROVE  /\ q \notin told'
                      /\ IF q \in started THEN listener[q] \in {"value", "close"}
                         ELSE \E d \in Callers : pc[d] = "add_start" /\ todo'[d] = <<q>>
    BY <1>1 DEF Watched
  <2>1. q \in Listed /\ q # p
    BY <1>6
  <2> QED
    BY <1>1, <2>1 DEF Watched
<1> QED
  BY <1>7, <1>8, <1>9

LEMMA PollPeersInv ==
  ASSUME TypeOK, PeersInv, NEW p \in PeerIds, Poll(p)
  PROVE  PeersInv'
<1> USE DEF PeersInv, channels, counters
<1>1. UNCHANGED <<pc, todo, list, poisoned, made, started, told>>
  BY DEF Poll, PollValue, PollClose
<1>2. \A q \in PeerIds : listener[q] \in {"value", "close"} /\ q \notin told =>
        listener'[q] \in {"value", "close"}
  BY DEF Poll, PollValue, PollClose, TypeOK
<1>3. Listed' = Listed
  BY <1>1 DEF Listed, Ahead
<1>4. Listed \subseteq PeerIds
  BY MadePeers DEF AddInv
<1>5. LockInv' /\ AddInv' /\ Distinct'
  BY <1>1, <1>3 DEF LockInv, AddInv, Distinct, Looping, Adding
<1>6. Watched'
  BY <1>1, <1>2, <1>3, <1>4 DEF Watched
<1> QED
  BY <1>5, <1>6

LEMMA PeersStep ==
  ASSUME TypeOK, PeersInv, [Next]_vars
  PROVE  PeersInv'
<1>1. ASSUME NEW c \in Callers, Call(c) PROVE PeersInv'
  BY <1>1, CallPeersInv
<1>2. ASSUME NEW c \in Callers, CallStep(c) PROVE PeersInv'
  <2>1. CASE LockPoisoned(c) \/ BroadcastPanics(c) \/ ClosePanics(c)
    <3>1. Panic(c) /\ pc[c] # "add_start"
      BY <2>1 DEF LockPoisoned, BroadcastPanics, ClosePanics
    <3>2. \A d \in Callers : Looping(d) => d = c
      BY <2>1 DEF LockPoisoned, ListFree, BroadcastPanics, ClosePanics, Looping,
         PeersInv, LockInv
    <3> QED
      BY <3>1, <3>2, PanicPeersInv
  <2>2. CASE AddPush(c)
    BY <2>2, AddPushPeersInv
  <2>3. CASE AddStart(c)
    BY <2>3, AddStartPeersInv
  <2>4. CASE BroadcastLock(c) \/ CloseLock(c)
    BY <2>4, LockPeersInv
  <2>5. CASE BroadcastSend(c) \/ BroadcastEnd(c) \/ CloseEnd(c)
    BY <2>5, LoopPeersInv
  <2>6. CASE Close(c)
    BY <2>6, ClosePeersInv
  <2> QED
    BY <1>2, <2>1, <2>2, <2>3, <2>4, <2>5, <2>6 DEF CallStep
<1>3. ASSUME NEW p \in PeerIds, Poll(p) PROVE PeersInv'
  BY <1>3, PollPeersInv
<1>4. CASE Quiet \/ UNCHANGED vars
  BY <1>4 DEF Quiet, vars, PeersInv, LockInv, AddInv, Distinct, Watched, Listed, Ahead,
     Looping, Adding
<1> QED
  BY <1>1, <1>2, <1>3, <1>4 DEF Next

-----------------------------------------------------------------------------
(* The steps preserve OrderInv *)

LEMMA SameOrderKept ==
  ASSUME SameOrder, UNCHANGED sent
  PROVE  SameOrder'
<1>1. sent' = sent
  OBVIOUS
<1> QED
  BY <1>1 DEF SameOrder

\* A step of caller c, that is not broadcasting afterwards, sends nothing.
LEMMA OrderKeep ==
  ASSUME OrderInv, NEW c \in Callers, UNCHANGED <<value, values, sent>>,
         ~Broadcasting(c)',
         \A d \in Callers \ {c} : pc'[d] = pc[d] /\ todo'[d] = todo[d]
  PROVE  OrderInv'
<1>1. \A d \in Callers : Broadcasting(d)' => d # c /\ Broadcasting(d)
  BY DEF Broadcasting
<1>2. SameOrder'
  BY SameOrderKept DEF OrderInv
<1>3. \A d \in Callers : pc'[d] \in {"broadcast_lock", "broadcast"} =>
        pc'[d] = pc[d] /\ todo'[d] = todo[d]
  BY DEF Broadcasting
<1>4. ValueInv'
  BY <1>1 DEF OrderInv, ValueInv
<1>5. LatestInv'
  <2> SUFFICES ASSUME NEW p \in PeerIds, NEW k \in 1 .. Len(sent[p]), NEW d \in Callers
               PROVE  /\ sent[p][k] \in 1 .. values
                      /\ pc'[d] = "broadcast_lock" => sent[p][k] # value[d]
                      /\ pc'[d] = "broadcast" /\ sent[p][k] = value[d] =>
                           k = Len(sent[p]) /\ p \notin ToSet(todo'[d])
    BY DEF LatestInv
  <2> QED
    BY <1>3 DEF OrderInv, LatestInv
<1> QED
  BY <1>2, <1>4, <1>5 DEF OrderInv

LEMMA BroadcastOrder ==
  ASSUME TypeOK, OrderInv, NEW c \in Callers, Broadcast(c)
  PROVE  OrderInv'
<1>1. /\ pc'[c] = "broadcast_lock" /\ value'[c] = values + 1
      /\ values' = values + 1 /\ values \in Nat
      /\ UNCHANGED <<sent, todo>>
      /\ \A d \in Callers \ {c} : pc'[d] = pc[d] /\ value'[d] = value[d]
  BY DEF Broadcast, Goto, TypeOK, channels
<1>2. \A d \in Callers \ {c} : Broadcasting(d)' => Broadcasting(d)
  BY <1>1 DEF Broadcasting
<1>3. \A d \in Callers : Broadcasting(d)' => value'[d] \in 1 .. values'
  BY <1>1, <1>2 DEF OrderInv, ValueInv
<1>4. \A d, e \in Callers :
        Broadcasting(d)' /\ Broadcasting(e)' /\ value'[d] = value'[e] => d = e
  BY <1>1, <1>2 DEF OrderInv, ValueInv
<1>5. LatestInv'
  <2> SUFFICES ASSUME NEW p \in PeerIds, NEW k \in 1 .. Len(sent[p]), NEW d \in Callers
               PROVE  /\ sent[p][k] \in 1 .. values'
                      /\ pc'[d] = "broadcast_lock" => sent[p][k] # value'[d]
                      /\ pc'[d] = "broadcast" /\ sent[p][k] = value'[d] =>
                           k = Len(sent[p]) /\ p \notin ToSet(todo[d])
    BY <1>1 DEF LatestInv
  <2>1. sent[p][k] \in 1 .. values /\ sent[p][k] # values + 1
    BY <1>1 DEF OrderInv, LatestInv
  <2> QED
    BY <1>1, <2>1 DEF OrderInv, LatestInv
<1>6. SameOrder'
  BY <1>1, SameOrderKept DEF OrderInv
<1> QED
  BY <1>3, <1>4, <1>5, <1>6 DEF OrderInv, ValueInv

LEMMA BroadcastLockOrder ==
  ASSUME TypeOK, OrderInv, NEW c \in Callers, BroadcastLock(c)
  PROVE  OrderInv'
<1>1. /\ pc[c] = "broadcast_lock" /\ pc'[c] = "broadcast"
      /\ UNCHANGED <<value, values, sent>>
      /\ \A d \in Callers \ {c} : pc'[d] = pc[d] /\ todo'[d] = todo[d]
  BY DEF BroadcastLock, Iterate, Goto, TypeOK, channels, counters
<1>2. \A d \in Callers : Broadcasting(d)' <=> Broadcasting(d)
  BY <1>1 DEF Broadcasting
<1>3. SameOrder'
  BY <1>1, SameOrderKept DEF OrderInv
<1>4. ValueInv'
  BY <1>1, <1>2 DEF OrderInv, ValueInv
<1>5. LatestInv'
  <2> SUFFICES ASSUME NEW p \in PeerIds, NEW k \in 1 .. Len(sent[p]), NEW d \in Callers
               PROVE  /\ sent[p][k] \in 1 .. values
                      /\ pc'[d] = "broadcast_lock" => sent[p][k] # value[d]
                      /\ pc'[d] = "broadcast" /\ sent[p][k] = value[d] =>
                           k = Len(sent[p]) /\ p \notin ToSet(todo'[d])
    BY <1>1 DEF LatestInv
  <2> QED
    BY <1>1 DEF OrderInv, LatestInv
<1> QED
  BY <1>3, <1>4, <1>5 DEF OrderInv

(***************************************************************************)
(* The value of the one broadcast that sends is the last one of every      *)
(* channel that has it, so that one more channel that ends with it agrees  *)
(* with all others.                                                        *)
(***************************************************************************)
LEMMA BroadcastSendOrder ==
  ASSUME TypeOK, PeersInv, OrderInv, NEW c \in Callers, BroadcastSend(c)
  PROVE  OrderInv'
<1> DEFINE p == Head(todo[c])
           v == value[c]
           n == Len(sent[p])
<1>1. /\ pc[c] = "broadcast" /\ UNCHANGED <<pc, value, values>> /\ TrySend(p, v)
      /\ todo[c] # <<>> /\ todo'[c] = Tail(todo[c])
      /\ \A d \in Callers \ {c} : todo'[d] = todo[d]
  BY DEF BroadcastSend, TypeOK, counters
<1>2. todo[c] \in Seq(PeerIds) /\ IsInjective(todo[c])
  BY <1>1 DEF TypeOK, PeersInv, Distinct, Looping
<1>3. /\ p \in PeerIds /\ p \notin ToSet(todo'[c])
      /\ ToSet(todo[c]) = {p} \cup ToSet(todo'[c])
  BY <1>1, <1>2, HeadTailElements
<1>4. \A d \in Callers : Broadcasting(d)' <=> Broadcasting(d)
  BY <1>1 DEF Broadcasting
<1>5. \A d \in Callers : pc[d] = "broadcast" => d = c
  BY <1>1 DEF PeersInv, LockInv, Looping
<1>6. ValueInv'
  BY <1>1, <1>4 DEF OrderInv, ValueInv
<1>7. CASE UNCHANGED sent
  <2>1. SameOrder'
    BY <1>7, SameOrderKept DEF OrderInv
  <2>2. LatestInv'
    BY <1>1, <1>3, <1>5, <1>7 DEF OrderInv, LatestInv
  <2> QED
    BY <1>6, <2>1, <2>2 DEF OrderInv
<1>8. CASE sent' = [sent EXCEPT ![p] = Append(@, v)]
  <2>1. v \in ValueIds /\ v \in 1 .. values
    BY <1>1 DEF OrderInv, ValueInv, Broadcasting, TypeOK, ValueIds
  <2>2. /\ n \in Nat /\ Len(sent'[p]) = n + 1 /\ sent'[p][n + 1] = v
        /\ \A k \in 1 .. n : sent'[p][k] = sent[p][k]
        /\ \A q \in PeerIds : q # p => sent'[q] = sent[q]
    <3>1. sent[p] \in Seq(ValueIds) /\ sent'[p] = Append(sent[p], v)
      BY <1>3, <1>8 DEF TypeOK
    <3> QED
      BY <1>8, <2>1, <3>1, AppendProperties, LenProperties DEF TypeOK
  <2>3. \A k \in 1 .. n : sent[p][k] # v
    BY <1>1, <1>3 DEF OrderInv, LatestInv
  <2>4. \A q \in PeerIds : \A k \in 1 .. Len(sent'[q]) : sent'[q][k] = v => k = Len(sent'[q])
    <3>1. \A k \in 1 .. n + 1 : k \in 1 .. n \/ k = n + 1
      BY <2>2
    <3>2. \A k \in 1 .. n + 1 : sent'[p][k] = v => k = n + 1
      BY <2>2, <2>3, <3>1
    <3>3. \A q \in PeerIds : \A k \in 1 .. Len(sent[q]) : sent[q][k] = v => k = Len(sent[q])
      BY <1>1 DEF OrderInv, LatestInv
    <3> QED
      BY <2>2, <3>2, <3>3
  <2>5. \A q \in PeerIds : \A k \in 1 .. Len(sent'[q]) :
          (q = p /\ k = n + 1) \/ (k \in 1 .. Len(sent[q]) /\ sent'[q][k] = sent[q][k])
    <3>1. \A k \in 1 .. n + 1 : k \in 1 .. n \/ k = n + 1
      BY <2>2
    <3>2. \A k \in 1 .. n + 1 : k = n + 1 \/ (k \in 1 .. n /\ sent'[p][k] = sent[p][k])
      BY <2>2, <3>1
    <3> QED
      BY <2>2, <3>2
  <2>6. \A q \in PeerIds : \A k \in 1 .. Len(sent'[q]) :
          /\ sent'[q][k] \in 1 .. values
          /\ \A d \in Callers : pc[d] = "broadcast_lock" => sent'[q][k] # value[d]
    <3>1. \A d \in Callers : pc[d] = "broadcast_lock" => value[d] # v
      BY <1>1 DEF OrderInv, ValueInv, Broadcasting
    <3>2. \A q \in PeerIds : \A k \in 1 .. Len(sent[q]) :
            /\ sent[q][k] \in 1 .. values
            /\ \A d \in Callers : pc[d] = "broadcast_lock" => sent[q][k] # value[d]
      BY DEF OrderInv, LatestInv
    <3> SUFFICES ASSUME NEW q \in PeerIds, NEW k \in 1 .. Len(sent'[q])
                 PROVE  /\ sent'[q][k] \in 1 .. values
                        /\ \A d \in Callers : pc[d] = "broadcast_lock" => sent'[q][k] # value[d]
      OBVIOUS
    <3>3. CASE q = p /\ k = n + 1
      BY <2>1, <2>2, <3>1, <3>3
    <3>4. CASE k \in 1 .. Len(sent[q]) /\ sent'[q][k] = sent[q][k]
      BY <3>2, <3>4
    <3> QED
      BY <2>5, <3>3, <3>4
  <2>7. \A q \in PeerIds : \A k \in 1 .. Len(sent'[q]) :
          sent'[q][k] = v => k = Len(sent'[q]) /\ q \notin ToSet(todo'[c])
    <3>1. \A q \in PeerIds : \A k \in 1 .. Len(sent[q]) : sent[q][k] = v => q \notin ToSet(todo[c])
      BY <1>1 DEF OrderInv, LatestInv
    <3> SUFFICES ASSUME NEW q \in PeerIds, NEW k \in 1 .. Len(sent'[q]), sent'[q][k] = v
                 PROVE  k = Len(sent'[q]) /\ q \notin ToSet(todo'[c])
      OBVIOUS
    <3>2. k = Len(sent'[q])
      BY <2>4
    <3>3. CASE q = p
      BY <1>3, <3>2, <3>3
    <3>4. CASE k \in 1 .. Len(sent[q]) /\ sent'[q][k] = sent[q][k]
      BY <1>3, <3>1, <3>2, <3>4
    <3> QED
      BY <2>5, <3>3, <3>4
  <2>8. SameOrder'
    <3> SUFFICES ASSUME NEW q \in PeerIds, NEW r \in PeerIds,
                        NEW i \in 1 .. Len(sent'[q]), NEW j \in 1 .. Len(sent'[q]),
                        NEW k \in 1 .. Len(sent'[r]), NEW l \in 1 .. Len(sent'[r]),
                        i < j, k < l, sent'[q][i] = sent'[r][l], sent'[q][j] = sent'[r][k]
                 PROVE  FALSE
      BY SMTT(20) DEF SameOrder
    <3>1. Len(sent'[q]) \in Nat /\ Len(sent'[r]) \in Nat
      <4>1. Len(sent[q]) \in Nat /\ Len(sent[r]) \in Nat
        BY LenProperties DEF TypeOK
      <4> QED
        BY <2>2, <4>1
    <3>2. i # Len(sent'[q]) /\ k # Len(sent'[r])
      <4>1. i \in Int /\ j \in Int /\ k \in Int /\ l \in Int
        OBVIOUS
      <4>2. j <= Len(sent'[q]) /\ l <= Len(sent'[r])
        BY <3>1
      <4> QED
        BY <3>1, <4>1, <4>2
    <3>3. sent'[q][i] # v /\ sent'[r][k] # v
      BY <2>4, <3>2
    <3>4. ~(q = p /\ i = n + 1) /\ ~(q = p /\ j = n + 1)
      BY <2>2, <3>3
    <3>5. ~(r = p /\ k = n + 1) /\ ~(r = p /\ l = n + 1)
      BY <2>2, <3>3
    <3>6. /\ i \in 1 .. Len(sent[q]) /\ sent'[q][i] = sent[q][i]
          /\ j \in 1 .. Len(sent[q]) /\ sent'[q][j] = sent[q][j]
          /\ k \in 1 .. Len(sent[r]) /\ sent'[r][k] = sent[r][k]
          /\ l \in 1 .. Len(sent[r]) /\ sent'[r][l] = sent[r][l]
      BY <2>5, <3>4, <3>5
    <3>7. ~(sent[q][i] = sent[r][l] /\ sent[q][j] = sent[r][k])
      <4>1. SameOrder
        BY DEF OrderInv
      <4> QED
        BY <3>6, <4>1 DEF SameOrder
    <3> QED
      BY <3>6, <3>7
  <2>9. LatestInv'
    BY <1>1, <1>5, <2>6, <2>7 DEF LatestInv
  <2> QED
    BY <1>6, <2>8, <2>9 DEF OrderInv
<1> QED
  BY <1>1, <1>7, <1>8 DEF TrySend

LEMMA OrderStep ==
  ASSUME TypeOK, PeersInv, OrderInv, [Next]_vars
  PROVE  OrderInv'
<1> USE DEF channels, counters
<1>1. ASSUME NEW c \in Callers, Call(c) PROVE OrderInv'
  <2>1. CASE AddPeer(c) \/ ClosePeers(c)
    BY <2>1, OrderKeep DEF AddPeer, ClosePeers, Goto, Broadcasting, TypeOK
  <2> QED
    BY <1>1, <2>1, BroadcastOrder DEF Call
<1>2. ASSUME NEW c \in Callers, CallStep(c) PROVE OrderInv'
  <2>1. CASE LockPoisoned(c) \/ BroadcastPanics(c) \/ ClosePanics(c)
    BY <2>1, OrderKeep DEF LockPoisoned, BroadcastPanics, ClosePanics, Panic, Broadcasting, TypeOK
  <2>2. CASE AddPush(c) \/ AddStart(c)
    BY <2>2, OrderKeep DEF AddPush, AddStart, Start, Goto, Broadcasting, TypeOK
  <2>3. CASE BroadcastEnd(c) \/ CloseEnd(c)
    BY <2>3, OrderKeep DEF BroadcastEnd, CloseEnd, Goto, Broadcasting, TypeOK
  <2>4. CASE CloseLock(c)
    BY <2>4, OrderKeep DEF CloseLock, Iterate, Goto, Broadcasting, TypeOK
  <2>5. CASE Close(c)
    BY <2>5, OrderKeep DEF Close, Broadcasting, TypeOK
  <2> QED
    BY <1>2, <2>1, <2>2, <2>3, <2>4, <2>5, BroadcastLockOrder, BroadcastSendOrder DEF CallStep
<1>3. ASSUME UNCHANGED <<pc, todo, value, values, sent>> PROVE OrderInv'
  BY <1>3, SameOrderKept DEF OrderInv, ValueInv, LatestInv, Broadcasting
<1>4. ASSUME NEW p \in PeerIds, Poll(p) PROVE OrderInv'
  BY <1>3, <1>4 DEF Poll, PollValue, PollClose
<1>5. CASE Quiet \/ UNCHANGED vars
  BY <1>3, <1>5 DEF Quiet, vars
<1> QED
  BY <1>1, <1>2, <1>4, <1>5 DEF Next

-----------------------------------------------------------------------------
(* Theorems *)

LEMMA InitInv ==
  ASSUME Init
  PROVE  TypeOK /\ PeersInv /\ OrderInv
<1>1. /\ list = <<>> /\ todo = [c \in Callers |-> <<>>] /\ pc = [c \in Callers |-> "idle"]
      /\ <<>> \in Seq(PeerIds) /\ <<>> \in Seq(ValueIds) /\ Len(<<>>) = 0
  BY EmptySeq DEF Init
<1>2. TypeOK
  <2>1. 0 \in 0 .. MaxPeers /\ 0 \in 0 .. MaxValues /\ 0 \in 0 .. MaxCloses /\ 0 \in 0 .. Capacity
    BY BoundsAssumption, CapacityAssumption
  <2>2. \A p \in PeerIds : Len(sent[p]) - received[p] = 0
    BY <1>1 DEF Init
  <2>3. /\ sent \in [PeerIds -> Seq(ValueIds)] /\ received \in [PeerIds -> Nat]
        /\ todo \in [Callers -> Seq(PeerIds)]
    BY <1>1 DEF Init
  <2> QED
    BY <1>1, <2>1, <2>2, <2>3 DEF Init, TypeOK
<1>3. \A c \in Callers : ~Looping(c) /\ ~Adding(c) /\ ~Broadcasting(c)
  BY <1>1 DEF Looping, Adding, Broadcasting
<1>4. Listed = {}
  BY <1>1, <1>3, InListed, EmptyElements
<1>5. IsInjective(list)
  <2>1. DOMAIN list = {}
    BY <1>1, LenProperties
  <2> QED
    BY <2>1 DEF IsInjective
<1>6. PeersInv
  BY <1>3, <1>4, <1>5 DEF Init, PeersInv, LockInv, AddInv, Distinct, Watched, Looping, Adding
<1>7. OrderInv
  BY <1>1, <1>3 DEF Init, OrderInv, ValueInv, LatestInv, SameOrder
<1> QED
  BY <1>2, <1>6, <1>7

\* The inductive invariant of all that follows: who has the lock of the list, whose
\* hands each peer is in, and which value each channel has last.
THEOREM Invariant == Spec => [](TypeOK /\ PeersInv /\ OrderInv)
<1>1. Init => TypeOK /\ PeersInv /\ OrderInv
  BY InitInv
<1>2. TypeOK /\ PeersInv /\ OrderInv /\ [Next]_vars => (TypeOK /\ PeersInv /\ OrderInv)'
  BY TypeStep, PeersStep, OrderStep DEF PeersInv
<1> QED
  BY <1>1, <1>2, PTL DEF Spec

\* Peers!TypeOK: no channel holds more values than it has room for.
THEOREM TypeInvariant == Spec => []TypeOK
BY Invariant, PTL

\* Peers!SameOrder: concurrent broadcasts reach all peers in one order.
THEOREM BroadcastsOrdered == Spec => []SameOrder
<1>1. OrderInv => SameOrder
  BY DEF OrderInv
<1> QED
  BY <1>1, Invariant, PTL

\* Peers!ListedListens: who is in the list has not been told to close, and listens once started.
THEOREM ListedAreListening == Spec => []ListedListens
<1>1. PeersInv => ListedListens
  BY DEF PeersInv, Watched, ListedListens, Listed
<1> QED
  BY <1>1, Invariant, PTL

(***************************************************************************)
(* Peers!PanicIsFinal: a poisoned list is never locked again, so nothing   *)
(* is sent or closed any more.                                             *)
(***************************************************************************)
THEOREM NothingAfterPanic == Spec => PanicIsFinal
<1>1. TypeOK /\ PeersInv /\ [Next]_vars /\ poisoned => UNCHANGED <<list, sent, told>>
  <2> SUFFICES ASSUME PeersInv, [Next]_vars, poisoned
               PROVE  UNCHANGED <<list, sent, told>>
    OBVIOUS
  <2> USE DEF channels, counters
  <2>1. \A c \in Callers : ~Looping(c)
    BY DEF PeersInv, LockInv
  <2>2. ASSUME NEW c \in Callers, Call(c) PROVE UNCHANGED <<list, sent, told>>
    BY <2>2 DEF Call, AddPeer, Broadcast, ClosePeers
  <2>3. ASSUME NEW c \in Callers, CallStep(c) PROVE UNCHANGED <<list, sent, told>>
    <3>1. pc[c] \notin {"broadcast", "close"}
      BY <2>1 DEF Looping
    <3> QED
      BY <2>3, <3>1 DEF CallStep, LockPoisoned, Panic, AddPush, AddStart, Start, BroadcastLock,
         BroadcastSend, BroadcastPanics, BroadcastEnd, CloseLock, Close, ClosePanics, CloseEnd, Goto
  <2>4. ASSUME NEW p \in PeerIds, Poll(p) PROVE UNCHANGED <<list, sent, told>>
    BY <2>4 DEF Poll, PollValue, PollClose
  <2> QED
    BY <2>2, <2>3, <2>4 DEF Next, Quiet, vars
<1>2. TypeOK /\ PeersInv /\ [Next]_vars => [poisoned => UNCHANGED <<list, sent, told>>]_vars
  BY <1>1
<1> QED
  BY <1>2, Invariant, PTL DEF Spec, PanicIsFinal

(***************************************************************************)
(* Peers!PanicsOnlyInGap: the peer at which a loop panics first is in the  *)
(* hands of a call of add_peer that has pushed it and not started it.      *)
(***************************************************************************)
THEOREM FirstPanic == Spec => PanicsOnlyInGap
<1> DEFINE Gap ==
      \E c, d \in Callers :
        /\ pc[c] \in {"broadcast", "close"} /\ pc'[c] = "panicked"
        /\ pc[d] = "add_start" /\ todo[d] = <<Head(todo[c])>>
<1>1. TypeOK /\ PeersInv /\ [Next]_vars /\ ~poisoned /\ poisoned' => Gap
  <2> SUFFICES ASSUME TypeOK, PeersInv, [Next]_vars, ~poisoned, poisoned'
               PROVE  Gap
    OBVIOUS
  <2> USE DEF channels, counters
  <2>1. PICK c \in Callers : BroadcastPanics(c) \/ ClosePanics(c)
    <3>1. ASSUME NEW c \in Callers, Call(c) PROVE FALSE
      BY <3>1 DEF Call, AddPeer, Broadcast, ClosePeers
    <3>2. ASSUME NEW c \in Callers, CallStep(c) PROVE BroadcastPanics(c) \/ ClosePanics(c)
      BY <3>2 DEF CallStep, LockPoisoned, AddPush, AddStart, Start, BroadcastLock, Iterate,
         BroadcastSend, BroadcastEnd, CloseLock, Close, CloseEnd
    <3>3. ASSUME NEW p \in PeerIds, Poll(p) PROVE FALSE
      BY <3>3 DEF Poll, PollValue, PollClose
    <3> QED
      BY <3>1, <3>2, <3>3 DEF Next, Quiet, vars
  <2>2. /\ Looping(c) /\ pc'[c] = "panicked" /\ todo[c] # <<>>
        /\ Head(todo[c]) \notin started
    BY <2>1 DEF BroadcastPanics, ClosePanics, Panic, Looping, TypeOK
  <2>3. Head(todo[c]) \in ToSet(todo[c])
    <3>1. todo[c] \in Seq(PeerIds)
      BY DEF TypeOK
    <3> QED
      BY <2>2, <3>1, HeadTailElements
  <2>4. Head(todo[c]) \in Listed
    BY <2>2, <2>3, InListed
  <2>5. \E d \in Callers : pc[d] = "add_start" /\ todo[d] = <<Head(todo[c])>>
    BY <2>2, <2>4 DEF PeersInv, Watched
  <2> QED
    BY <2>2, <2>5 DEF Looping
<1>2. TypeOK /\ PeersInv /\ [Next]_vars => [~poisoned /\ poisoned' => Gap]_vars
  BY <1>1
<1> QED
  BY <1>2, Invariant, PTL DEF Spec, PanicsOnlyInGap

-----------------------------------------------------------------------------
(* Nobody is forgotten *)

Kept == ToSet(list) \cup Ahead("close") \cup told

LEMMA InAhead ==
  /\ \A x, p : p \in Ahead(x) <=> \E c \in Callers : pc[c] = x /\ p \in ToSet(todo[c])
  /\ \A p : p \in Ahead("close")' <=> \E c \in Callers : pc'[c] = "close" /\ p \in ToSet(todo'[c])
  /\ \A p : p \in Ahead("add_push")' <=>
       \E c \in Callers : pc'[c] = "add_push" /\ p \in ToSet(todo'[c])
BY DEF Ahead

\* A step of caller c, which neither pushes a peer nor closes one.
LEMMA KeptStep ==
  ASSUME NEW c \in Callers, UNCHANGED <<list, made, told>>,
         pc[c] \notin {"add_push", "close"}, pc'[c] # "add_push",
         \A d \in Callers \ {c} : pc'[d] = pc[d] /\ todo'[d] = todo[d]
  PROVE  Pushed' \subseteq Pushed /\ Kept \subseteq Kept'
<1>1. \A d \in Callers : pc[d] \in {"add_push", "close"} => pc'[d] = pc[d] /\ todo'[d] = todo[d]
  OBVIOUS
<1>2. \A d \in Callers : pc'[d] = "add_push" => pc[d] = "add_push" /\ todo'[d] = todo[d]
  OBVIOUS
<1>3. Ahead("add_push") \subseteq Ahead("add_push")' /\ Ahead("close") \subseteq Ahead("close")'
  BY <1>1, InAhead
<1> QED
  BY <1>3 DEF Pushed, Kept

LEMMA ForgottenStep ==
  ASSUME TypeOK, PeersInv, NobodyForgotten, [Next]_vars
  PROVE  NobodyForgotten'
<1> USE DEF channels, counters
<1> SUFFICES ASSUME ~poisoned' PROVE Pushed' \subseteq Kept'
  BY DEF NobodyForgotten, Kept
<1>1. ASSUME ~poisoned, Pushed' \subseteq Pushed, Kept \subseteq Kept'
      PROVE  Pushed' \subseteq Kept'
  BY <1>1 DEF NobodyForgotten, Kept
<1>2. ASSUME NEW c \in Callers, Call(c) PROVE Pushed' \subseteq Kept'
  <2>1. CASE AddPeer(c)
    <3>1. /\ pc[c] = "idle" /\ pc'[c] = "add_push" /\ made' = made + 1 /\ made \in Nat
          /\ todo'[c] = <<made + 1>> /\ UNCHANGED <<list, told, poisoned>>
          /\ \A d \in Callers \ {c} : pc'[d] = pc[d] /\ todo'[d] = todo[d]
      BY <2>1 DEF AddPeer, Goto, TypeOK
    <3>2. made + 1 \in ToSet(todo'[c])
      BY <3>1 DEF ToSet
    <3>3. \A d \in Callers : pc[d] \in {"add_push", "close"} => pc'[d] = pc[d] /\ todo'[d] = todo[d]
      BY <3>1
    <3>4. Ahead("add_push") \cup {made + 1} \subseteq Ahead("add_push")'
      BY <3>1, <3>2, <3>3, InAhead
    <3>5. Ahead("close") \subseteq Ahead("close")'
      BY <3>3, InAhead
    <3>6. Pushed' \subseteq Pushed
      BY <3>1, <3>4 DEF Pushed
    <3> QED
      BY <1>1, <3>1, <3>5, <3>6 DEF Kept
  <2>2. CASE Broadcast(c) \/ ClosePeers(c)
    BY <1>1, <2>2, KeptStep DEF Broadcast, ClosePeers, Goto, TypeOK
  <2> QED
    BY <1>2, <2>1, <2>2 DEF Call
<1>3. ASSUME NEW c \in Callers, CallStep(c) PROVE Pushed' \subseteq Kept'
  <2>1. ~(LockPoisoned(c) \/ BroadcastPanics(c) \/ ClosePanics(c))
    BY DEF LockPoisoned, BroadcastPanics, ClosePanics, Panic
  <2>2. CASE AddPush(c)
    <3>1. /\ pc[c] = "add_push" /\ pc'[c] = "add_start" /\ list' = list \o todo[c]
          /\ UNCHANGED <<todo, made, told, poisoned>>
          /\ \A d \in Callers \ {c} : pc'[d] = pc[d]
      BY <2>2 DEF AddPush, Goto, TypeOK
    <3>2. PICK p \in 1 .. made : todo[c] = <<p>>
      BY <3>1 DEF PeersInv, AddInv, Adding
    <3>3. list \in Seq(PeerIds) /\ todo[c] \in Seq(PeerIds) /\ Len(todo[c]) = 1
      BY <3>2 DEF TypeOK
    <3>4. ToSet(list') = ToSet(list) \cup {todo[c][1]}
      <4>1. \A u : u = list \o todo[c] => ToSet(u) = ToSet(list) \cup {todo[c][1]}
        BY <3>3, AppendElements, Zenon
      <4> QED
        BY <3>1, <4>1, Zenon
    <3>5. ToSet(todo[c]) = {todo[c][1]}
      BY <3>2 DEF ToSet
    <3>6. Ahead("add_push") \subseteq Ahead("add_push")' \cup {todo[c][1]}
      <4>1. \A d \in Callers : pc[d] = "add_push" => d = c \/ pc'[d] = "add_push"
        BY <3>1
      <4> QED
        BY <3>1, <3>5, <4>1, InAhead
    <3>7. Ahead("close") \subseteq Ahead("close")'
      <4>1. \A d \in Callers : pc[d] = "close" => pc'[d] = "close"
        BY <3>1
      <4> QED
        BY <3>1, <4>1, InAhead
    <3>8. Pushed' \subseteq Pushed \cup {todo[c][1]}
      BY <3>1, <3>6 DEF Pushed
    <3>9. Pushed \subseteq Kept
      BY <3>1 DEF NobodyForgotten, Kept
    <3> QED
      BY <3>1, <3>4, <3>7, <3>8, <3>9 DEF Kept
  <2>3. CASE AddStart(c) \/ BroadcastLock(c) \/ BroadcastSend(c) \/ BroadcastEnd(c)
    BY <1>1, <2>3, KeptStep
       DEF AddStart, Start, BroadcastLock, Iterate, BroadcastSend, BroadcastEnd, Goto, TypeOK
  <2>4. ASSUME UNCHANGED <<made, poisoned>>, pc[c] # "add_push",
               \A d \in Callers \ {c} : pc'[d] = pc[d] /\ todo'[d] = todo[d],
               Kept \subseteq Kept'
        PROVE  Pushed' \subseteq Kept'
    <3>1. \A d \in Callers : pc[d] = "add_push" => pc'[d] = pc[d] /\ todo'[d] = todo[d]
      BY <2>4
    <3>2. Ahead("add_push") \subseteq Ahead("add_push")'
      BY <3>1, InAhead
    <3>3. Pushed' \subseteq Pushed
      BY <2>4, <3>2 DEF Pushed
    <3> QED
      BY <1>1, <2>4, <3>3
  <2>5. CASE CloseLock(c)
    <3>1. /\ pc[c] = "close_lock" /\ pc'[c] = "close" /\ todo'[c] = list
          /\ UNCHANGED <<made, told, poisoned>>
          /\ \A d \in Callers \ {c} : pc'[d] = pc[d] /\ todo'[d] = todo[d]
      BY <2>5 DEF CloseLock, Iterate, Goto, TypeOK
    <3>2. \A d \in Callers : pc[d] = "close" => pc'[d] = "close" /\ todo'[d] = todo[d]
      BY <3>1
    <3>3. Ahead("close") \cup ToSet(list) \subseteq Ahead("close")'
      BY <3>1, <3>2, InAhead
    <3>4. Kept \subseteq Kept'
      BY <3>1, <3>3 DEF Kept
    <3> QED
      BY <2>4, <3>1, <3>4
  <2>6. CASE CloseEnd(c)
    <3>1. /\ pc[c] = "close" /\ todo[c] = <<>>
          /\ UNCHANGED <<todo, list, made, told, poisoned>>
          /\ \A d \in Callers \ {c} : pc'[d] = pc[d]
      BY <2>6 DEF CloseEnd, Goto, TypeOK
    <3>2. Ahead("close") \subseteq Ahead("close")'
      BY <3>1, EmptyElements, InAhead
    <3> QED
      BY <2>4, <3>1, <3>2 DEF Kept
  <2>7. CASE Close(c)
    <3> DEFINE p == Head(todo[c])
    <3>1. /\ pc[c] = "close" /\ todo[c] # <<>> /\ p \in started
          /\ todo'[c] = Tail(todo[c])
          /\ told' = IF Deaf(p) THEN told ELSE told \cup {p}
          /\ UNCHANGED <<pc, list, made, poisoned>>
          /\ \A d \in Callers \ {c} : todo'[d] = todo[d]
      BY <2>7 DEF Close, TypeOK
    <3>2. todo[c] \in Seq(PeerIds)
      BY DEF TypeOK
    <3>3. ToSet(todo[c]) = {p} \cup ToSet(todo'[c])
      BY <3>1, <3>2, HeadTailElements
    <3>4. p \in Listed
      BY <3>1, <3>3, InListed DEF Looping
    <3>5. ~Deaf(p)
      BY <3>1, <3>4 DEF PeersInv, Watched, Deaf
    <3>6. told' = told \cup {p}
      BY <3>1, <3>5
    <3>7. Ahead("close") \subseteq Ahead("close")' \cup {p}
      BY <3>1, <3>3, InAhead
    <3>8. Kept \subseteq Kept'
      BY <3>1, <3>6, <3>7 DEF Kept
    <3> QED
      BY <2>4, <3>1, <3>8
  <2> QED
    BY <1>3, <2>1, <2>2, <2>3, <2>5, <2>6, <2>7 DEF CallStep
<1>4. ASSUME UNCHANGED <<pc, todo, list, made, told, poisoned>> PROVE Pushed' \subseteq Kept'
  BY <1>1, <1>4 DEF Pushed, Kept, Ahead
<1>5. ASSUME NEW p \in PeerIds, Poll(p) PROVE Pushed' \subseteq Kept'
  BY <1>4, <1>5 DEF Poll, PollValue, PollClose
<1>6. CASE Quiet \/ UNCHANGED vars
  BY <1>4, <1>6 DEF Quiet, vars
<1> QED
  BY <1>2, <1>3, <1>5, <1>6 DEF Next

(***************************************************************************)
(* Peers!NobodyForgotten: until a call panics, every peer that was pushed  *)
(* is in the list, about to be told to close, or has been told.            *)
(***************************************************************************)
THEOREM AllKept == Spec => []NobodyForgotten
<1>1. Init => NobodyForgotten
  <2> SUFFICES ASSUME Init PROVE NobodyForgotten
    OBVIOUS
  <2>1. Pushed = {}
    BY DEF Init, Pushed
  <2> QED
    BY <2>1 DEF NobodyForgotten
<1>2. TypeOK /\ PeersInv /\ NobodyForgotten /\ [Next]_vars => NobodyForgotten'
  BY ForgottenStep
<1> QED
  BY <1>1, <1>2, Invariant, PTL DEF Spec
=============================================================================
