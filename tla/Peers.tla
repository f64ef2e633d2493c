------------------------------- MODULE Peers -------------------------------
(***************************************************************************)
(* The sample program grin_24i0013: a list of peers, each with a thread    *)
(* that listens to two channels, one for values and one to be told to      *)
(* close.                                                                  *)
(*                                                                         *)
(* add_peer puts a peer into the list in one critical section and starts   *)
(* it in another one, five seconds later.  In between the peer has no      *)
(* channels, and broadcast and close_peers, which unwrap them, panic.  The *)
(* panic poisons the lock of the list, so that every later call panics.    *)
(*                                                                         *)
(* Any number of threads call add_peer, broadcast and close_peers, as the  *)
(* interface of Peers allows; a panic ends the calling thread.  Peers are  *)
(* numbered as they are made, values as they are broadcast.  The lock of a *)
(* peer is held for one statement in which no other lock is taken, so such *)
(* a statement is one step.  It is never poisoned: only read() holds it    *)
(* where a panic can happen, and start() does not panic.                   *)
(***************************************************************************)
EXTENDS Naturals, Sequences, SequencesExt

CONSTANTS
  Callers,    \* the threads that use the list
  MaxPeers,   \* bound: peers made
  MaxValues,  \* bound: values broadcast
  MaxCloses,  \* bound: calls of close_peers
  Capacity    \* of a channel for values: 10 in the code

ASSUME BoundsAssumption == {MaxPeers, MaxValues, MaxCloses} \subseteq Nat
ASSUME CapacityAssumption == Capacity \in Nat \ {0}

VARIABLES
  pc,        \* pc[c]: where caller c is
  todo,      \* todo[c]: the peers its call has still to see to
  value,     \* value[c]: the value it is broadcasting
  list,      \* peers.peers
  poisoned,  \* the lock of the list is poisoned
  made,      \* peers made so far
  values,    \* values broadcast so far
  closes,    \* calls of close_peers so far
  started,   \* the peers that have their channels
  sent,      \* sent[p]: the values put into the channel of p
  received,  \* received[p]: how many of them its listener has taken out
  told,      \* the peers whose listener has been sent the message to close
  listener   \* listener[p]: where the listener of p is

vars == <<pc, todo, value, list, poisoned, made, values, closes, started,
          sent, received, told, listener>>

channels == <<started, sent, received, told, listener>>
counters == <<made, values, closes>>

-----------------------------------------------------------------------------
PeerIds == 1 .. MaxPeers
ValueIds == 1 .. MaxValues

Goto(c, from, to) == pc[c] = from /\ pc' = [pc EXCEPT ![c] = to]

\* The list is locked by write() in all calls; add_peer's section is one step.
ListFree == \A c \in Callers : pc[c] \notin {"broadcast", "close"}

\* Caller c panics; the lock of the list, which it holds, is poisoned.
Panic(c) ==
  /\ pc' = [pc EXCEPT ![c] = "panicked"]
  /\ todo' = [todo EXCEPT ![c] = <<>>]
  /\ poisoned' = TRUE
  /\ UNCHANGED <<value, list, counters, channels>>

\* write().unwrap() on the poisoned lock of the list.
LockPoisoned(c) ==
  /\ pc[c] \in {"add_push", "broadcast_lock", "close_lock"}
  /\ ListFree /\ poisoned
  /\ Panic(c)

-----------------------------------------------------------------------------
(* add_peer *)

AddPeer(c) ==
  /\ Goto(c, "idle", "add_push")
  /\ made < MaxPeers
  /\ made' = made + 1
  /\ todo' = [todo EXCEPT ![c] = <<made + 1>>]
  /\ UNCHANGED <<value, list, poisoned, values, closes, channels>>

\* The first critical section.
AddPush(c) ==
  /\ Goto(c, "add_push", "add_start")
  /\ ListFree /\ ~poisoned
  /\ list' = list \o todo[c]
  /\ UNCHANGED <<todo, value, poisoned, counters, channels>>

\* start() makes the channels of the peers in S and spawns the listener of p.
Start(c, p, S) ==
  /\ Goto(c, "add_start", "idle")
  /\ started' = started \cup S
  /\ listener' = [listener EXCEPT ![p] = "value"]
  /\ todo' = [todo EXCEPT ![c] = <<>>]
  /\ UNCHANGED <<value, list, poisoned, counters, sent, received, told>>

\* Mutant: a copy of the peer is started, not the one in the list.
AddStartCopy(c) == Start(c, todo[c][1], {})

\* The second one.
AddStart(c) == Start(c, todo[c][1], {todo[c][1]})

-----------------------------------------------------------------------------
(* broadcast *)

Broadcast(c) ==
  /\ Goto(c, "idle", "broadcast_lock")
  /\ values < MaxValues
  /\ values' = values + 1
  /\ value' = [value EXCEPT ![c] = values + 1]
  /\ UNCHANGED <<todo, list, poisoned, made, closes, channels>>

\* With the lock of the list, the iteration over it begins; rest stays in the list.
Iterate(c, from, to, rest) ==
  /\ Goto(c, from, to)
  /\ todo' = [todo EXCEPT ![c] = list]
  /\ list' = rest
  /\ UNCHANGED <<value, poisoned, counters, channels>>

\* Mutant: the list is locked by read(), several broadcasts go on at a time.
BroadcastLockShared(c) ==
  /\ ~poisoned /\ \A d \in Callers : pc[d] # "close"
  /\ Iterate(c, "broadcast_lock", "broadcast", list)

BroadcastLock(c) ==
  /\ ~poisoned /\ ListFree
  /\ Iterate(c, "broadcast_lock", "broadcast", list)

Full(p) == Len(sent[p]) - received[p] >= Capacity

\* The receiver of p has been dropped.
Deaf(p) == listener[p] = "ended"

\* Mutant: the channel has no capacity.
TrySendUnbounded(p, v) ==
  IF Deaf(p) THEN UNCHANGED sent ELSE sent' = [sent EXCEPT ![p] = Append(@, v)]

\* try_send: a full or closed channel refuses the value, "broadcast err!".
TrySend(p, v) ==
  IF Full(p) \/ Deaf(p) THEN UNCHANGED sent ELSE sent' = [sent EXCEPT ![p] = Append(@, v)]

BroadcastSend(c) ==
  /\ pc[c] = "broadcast" /\ todo[c] # <<>>
  /\ LET p == Head(todo[c]) IN
       /\ p \in started
       /\ TrySend(p, value[c])
  /\ todo' = [todo EXCEPT ![c] = Tail(@)]
  /\ UNCHANGED <<pc, value, list, poisoned, counters, started, received, told, listener>>

\* send_channel.as_ref().unwrap() of a peer that is not started.
BroadcastPanics(c) ==
  /\ pc[c] = "broadcast" /\ todo[c] # <<>>
  /\ Head(todo[c]) \notin started
  /\ Panic(c)

BroadcastEnd(c) ==
  /\ todo[c] = <<>>
  /\ Goto(c, "broadcast", "idle")
  /\ UNCHANGED <<todo, value, list, poisoned, counters, channels>>

-----------------------------------------------------------------------------
(* close_peers *)

ClosePeers(c) ==
  /\ Goto(c, "idle", "close_lock")
  /\ closes < MaxCloses
  /\ closes' = closes + 1
  /\ UNCHANGED <<todo, value, list, poisoned, made, values, channels>>

\* Mutant: iter() for drain(..), the closed peers stay in the list.
CloseLockKeeps(c) == ~poisoned /\ ListFree /\ Iterate(c, "close_lock", "close", list)

\* Mutant: the poisoned lock is taken all the same (into_inner).
CloseLockRecovers(c) == ListFree /\ Iterate(c, "close_lock", "close", <<>>)

\* drain(..) takes all peers out of the list, whether or not the loop ends.
CloseLock(c) ==
  /\ ~poisoned /\ ListFree
  /\ Iterate(c, "close_lock", "close", <<>>)

\* The message goes into a channel without bound; nobody may be there to get it.
Close(c) ==
  /\ pc[c] = "close" /\ todo[c] # <<>>
  /\ LET p == Head(todo[c]) IN
       /\ p \in started
       /\ told' = IF Deaf(p) THEN told ELSE told \cup {p}
  /\ todo' = [todo EXCEPT ![c] = Tail(@)]
  /\ UNCHANGED <<pc, value, list, poisoned, counters, started, sent, received, listener>>

\* Mutant: a peer that is not started is passed over.
CloseSkips(c) ==
  /\ pc[c] = "close" /\ todo[c] # <<>>
  /\ Head(todo[c]) \notin started
  /\ todo' = [todo EXCEPT ![c] = Tail(@)]
  /\ UNCHANGED <<pc, value, list, poisoned, counters, channels>>

\* close_channel.as_ref().unwrap() of a peer that is not started.
ClosePanics(c) ==
  /\ pc[c] = "close" /\ todo[c] # <<>>
  /\ Head(todo[c]) \notin started
  /\ Panic(c)

CloseEnd(c) ==
  /\ todo[c] = <<>>
  /\ Goto(c, "close", "idle")
  /\ UNCHANGED <<todo, value, list, poisoned, counters, channels>>

-----------------------------------------------------------------------------
(* poll, the loop of a listener *)

\* Mutant: the loop starts over when there is no value.
PollValueContinues(p) ==
  /\ listener[p] = "value"
  /\ IF received[p] < Len(sent[p])
       THEN /\ received' = [received EXCEPT ![p] = @ + 1]
            /\ listener' = [listener EXCEPT ![p] = "close"]
       ELSE UNCHANGED <<received, listener>>
  /\ UNCHANGED <<pc, todo, value, list, poisoned, counters, started, sent, told>>

\* send_rx.try_recv(): at most one value each time.
PollValue(p) ==
  /\ listener[p] = "value"
  /\ received' = [received EXCEPT ![p] = IF @ < Len(sent[p]) THEN @ + 1 ELSE @]
  /\ listener' = [listener EXCEPT ![p] = "close"]
  /\ UNCHANGED <<pc, todo, value, list, poisoned, counters, started, sent, told>>

\* close_rx.try_recv(): only a message ends the loop, not a closed channel.
PollClose(p) ==
  /\ listener[p] = "close"
  /\ listener' = [listener EXCEPT ![p] = IF p \in told THEN "ended" ELSE "value"]
  /\ UNCHANGED <<pc, todo, value, list, poisoned, counters, started, sent, received, told>>

-----------------------------------------------------------------------------
Init ==
  /\ pc = [c \in Callers |-> "idle"]
  /\ todo = [c \in Callers |-> <<>>]
  /\ value = [c \in Callers |-> 0]
  /\ list = <<>>
  /\ poisoned = FALSE
  /\ made = 0 /\ values = 0 /\ closes = 0
  /\ started = {}
  /\ sent = [p \in PeerIds |-> <<>>]
  /\ received = [p \in PeerIds |-> 0]
  /\ told = {}
  /\ listener = [p \in PeerIds |-> "none"]

Call(c) == AddPeer(c) \/ Broadcast(c) \/ ClosePeers(c)

\* The steps of a call, which go on until it returns or panics.
CallStep(c) ==
  \/ LockPoisoned(c)
  \/ AddPush(c) \/ AddStart(c)
  \/ BroadcastLock(c) \/ BroadcastSend(c) \/ BroadcastPanics(c) \/ BroadcastEnd(c)
  \/ CloseLock(c) \/ Close(c) \/ ClosePanics(c) \/ CloseEnd(c)

Poll(p) == PollValue(p) \/ PollClose(p)

\* No call is going on, and none need ever be made again.
Quiet ==
  /\ \A c \in Callers : pc[c] \in {"idle", "panicked"}
  /\ UNCHANGED vars

Next ==
  \/ \E c \in Callers : Call(c) \/ CallStep(c)
  \/ \E p \in PeerIds : Poll(p)
  \/ Quiet

Spec == Init /\ [][Next]_vars

(***************************************************************************)
(* Threads that can run do.  The lock of the list is not fair, but there   *)
(* are finitely many calls, so that weak fairness is enough to get it.     *)
(***************************************************************************)
FairSpec ==
  /\ Spec
  /\ \A c \in Callers : WF_vars(CallStep(c))
  /\ \A p \in PeerIds : WF_vars(Poll(p))

-----------------------------------------------------------------------------
TypeOK ==
  /\ pc \in [Callers -> {"idle", "add_push", "add_start", "broadcast_lock", "broadcast",
                         "close_lock", "close", "panicked"}]
  /\ todo \in [Callers -> Seq(PeerIds)]
  /\ value \in [Callers -> ValueIds \cup {0}]
  /\ list \in Seq(PeerIds)
  /\ poisoned \in BOOLEAN
  /\ made \in 0 .. MaxPeers /\ values \in 0 .. MaxValues /\ closes \in 0 .. MaxCloses
  /\ started \subseteq PeerIds
  /\ sent \in [PeerIds -> Seq(ValueIds)]
  /\ received \in [PeerIds -> Nat]
  /\ \A p \in PeerIds : Len(sent[p]) - received[p] \in 0 .. Capacity
  /\ told \subseteq PeerIds
  /\ listener \in [PeerIds -> {"none", "value", "close", "ended"}]

(***************************************************************************)
(* All peers get the values in one order: no two of them get two values in *)
(* different orders, whatever threads broadcast them.  This is what the    *)
(* lock of the list is held for throughout broadcast.                      *)
(***************************************************************************)
SameOrder ==
  \A p, q \in PeerIds :
    \A i, j \in 1 .. Len(sent[p]) : \A k, l \in 1 .. Len(sent[q]) :
      i < j /\ k < l => ~(sent[p][i] = sent[q][l] /\ sent[p][j] = sent[q][k])

\* The peers that broadcasts and closes under way have still to see to.
Ahead(state) == UNION {ToSet(todo[c]) : c \in {d \in Callers : pc[d] = state}}

(***************************************************************************)
(* A peer in the list, or that a call under way has still to see to, has   *)
(* not been told to close, and once it is started it listens.  So a value  *)
(* is refused ("broadcast err!") only because a channel is full, and that  *)
(* closing fails ("close_peers err!") cannot happen.                       *)
(***************************************************************************)
ListedListens ==
  \A p \in ToSet(list) \cup Ahead("broadcast") \cup Ahead("close") :
    /\ p \notin told
    /\ p \in started => listener[p] \in {"value", "close"}

\* The peers add_peer has put into the list.
Pushed == (1 .. made) \ Ahead("add_push")

(***************************************************************************)
(* As long as no call has panicked, no peer gets lost: it is in the list,  *)
(* or about to be told to close, or has been told.                         *)
(***************************************************************************)
NobodyForgotten ==
  ~poisoned => Pushed \subseteq ToSet(list) \cup Ahead("close") \cup told

(***************************************************************************)
(* The first panic needs three things at once: a call of broadcast or      *)
(* close_peers that has come to a peer, and the call of add_peer for that  *)
(* very peer between its two critical sections.                            *)
(***************************************************************************)
PanicsOnlyInGap ==
  [][ ~poisoned /\ poisoned' =>
        \E c, d \in Callers :
          /\ pc[c] \in {"broadcast", "close"} /\ pc'[c] = "panicked"
          /\ pc[d] = "add_start" /\ todo[d] = <<Head(todo[c])>> ]_vars

(***************************************************************************)
(* After a panic nobody is ever told to close any more, so listeners that  *)
(* are running then, or that add_peer starts later, run for ever.          *)
(***************************************************************************)
PanicIsFinal == [][ poisoned => UNCHANGED <<list, sent, told>> ]_vars

(***************************************************************************)
(* close_peers does its work: the listeners of all peers it has taken out  *)
(* of the list come to their end, unless some call panics first.           *)
(***************************************************************************)
ClosedEnds ==
  \A p \in PeerIds : p \in Ahead("close") ~> listener[p] = "ended" \/ poisoned
=============================================================================
