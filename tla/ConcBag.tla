------------------------------- MODULE ConcBag -------------------------------
(***************************************************************************)
(* inputs/crossbeam_10c0012: a program to be traced.  A bag as a linked    *)
(* stack with an atomic head.  insert pushes a node with compare_and_swap; *)
(* collect loads the head, empties the stack by a store, and frees the     *)
(* nodes it finds from the head it has loaded.  Between its load and its   *)
(* store it sleeps: this is the window in which a push is lost.            *)
(*                                                                         *)
(* Any number of threads insert; one thread collects, again and again.  A  *)
(* node that has been freed may be allocated again at the same address.    *)
(***************************************************************************)
EXTENDS Naturals, Sequences

CONSTANTS
  Inserters,  \* threads that insert
  Addrs,      \* addresses at which nodes are allocated
  Null,
  MaxItems,   \* bound: items each thread inserts
  MaxCollects \* bound: calls of collect

Items == Inserters \X (1 .. MaxItems)

ASSUME NullAssumption == Null \notin Addrs \cup Items
ASSUME BoundsAssumption == MaxItems \in Nat /\ MaxCollects \in Nat

VARIABLES
  head,       \* the head of the stack
  item,       \* item[a]: the data of the node at a, Null if a is free
  next,       \* next[a]: the next field of the node at a
  pc,         \* pc[t]: the statement of insert that thread t is at
  count,      \* count[t]: how many items t has started to insert
  new,        \* new[t]: the node that t inserts
  seen,       \* seen[t]: the head that t has loaded
  collector,  \* the statement of collect the collecting thread is at
  calls,      \* calls of collect so far
  walk,       \* collect's variable head
  collected,  \* items collected so far, in order
  pushed,     \* items that compare_and_swap has put on the stack  (history)
  missed      \* items pushed between collect's load and its store (history)

vars == <<head, item, next, pc, count, new, seen, collector, calls, walk,
          collected, pushed, missed>>

nodes   == <<item, next>>
inserts == <<pc, count, new, seen>>
collect == <<collector, calls, walk, collected>>

Free(a) == item[a] = Null

Init ==
  /\ head = Null
  /\ item = [a \in Addrs |-> Null]
  /\ next = [a \in Addrs |-> Null]
  /\ pc = [t \in Inserters |-> "idle"]
  /\ count = [t \in Inserters |-> 0]
  /\ new = [t \in Inserters |-> Null]
  /\ seen = [t \in Inserters |-> Null]
  /\ collector = "idle"
  /\ calls = 0
  /\ walk = Null
  /\ collected = <<>>
  /\ pushed = {}
  /\ missed = {}

-----------------------------------------------------------------------------
(* insert *)

InsertNew(t) ==
  /\ pc[t] = "idle" /\ count[t] < MaxItems
  /\ \E a \in Addrs :
       /\ Free(a)
       /\ new' = [new EXCEPT ![t] = a]
       /\ item' = [item EXCEPT ![a] = <<t, count[t] + 1>>]
       /\ next' = [next EXCEPT ![a] = Null]
  /\ count' = [count EXCEPT ![t] = @ + 1]
  /\ pc' = [pc EXCEPT ![t] = "load"]
  /\ UNCHANGED <<head, seen, pushed, missed, collect>>

InsertLoad(t) ==
  /\ pc[t] = "load"
  /\ seen' = [seen EXCEPT ![t] = head]
  /\ pc' = [pc EXCEPT ![t] = "link"]
  /\ UNCHANGED <<head, nodes, count, new, pushed, missed, collect>>

\* Mutant: the node is linked to what is in the head, not to the head.
InsertLinkItem(t) ==
  /\ pc[t] = "link"
  /\ next' = [next EXCEPT ![new[t]] = IF seen[t] = Null THEN Null ELSE item[seen[t]]]
  /\ pc' = [pc EXCEPT ![t] = "cas"]
  /\ UNCHANGED <<head, item, count, new, seen, pushed, missed, collect>>

InsertLink(t) ==
  /\ pc[t] = "link"
  /\ next' = [next EXCEPT ![new[t]] = seen[t]]
  /\ pc' = [pc EXCEPT ![t] = "cas"]
  /\ UNCHANGED <<head, item, count, new, seen, pushed, missed, collect>>

\* The node is on the stack.
Push(t) ==
  /\ head' = new[t]
  /\ pushed' = pushed \cup {item[new[t]]}
  /\ missed' = IF collector = "store" THEN missed \cup {item[new[t]]} ELSE missed

\* Mutant: the head is stored without a comparison.
InsertCasBlind(t) ==
  /\ pc[t] = "cas"
  /\ Push(t)
  /\ pc' = [pc EXCEPT ![t] = "idle"]
  /\ UNCHANGED <<nodes, count, new, seen, collect>>

\* Mutant: after a failure the head is loaded again but not linked again.
InsertCasKeepsLink(t) ==
  /\ pc[t] = "cas"
  /\ IF head = seen[t]
       THEN /\ Push(t)
            /\ pc' = [pc EXCEPT ![t] = "idle"]
            /\ UNCHANGED seen
       ELSE /\ seen' = [seen EXCEPT ![t] = head]
            /\ UNCHANGED <<head, pushed, missed, pc>>
  /\ UNCHANGED <<nodes, count, new, collect>>

\* Mutant: after a failure compare_and_swap is repeated with the old head.
InsertCasAgain(t) ==
  /\ pc[t] = "cas"
  /\ IF head = seen[t]
       THEN Push(t) /\ pc' = [pc EXCEPT ![t] = "idle"]
       ELSE UNCHANGED <<head, pushed, missed, pc>>
  /\ UNCHANGED <<nodes, count, new, seen, collect>>

\* compare_and_swap; if the head is another one, from the start.
InsertCas(t) ==
  /\ pc[t] = "cas"
  /\ IF head = seen[t]
       THEN Push(t) /\ pc' = [pc EXCEPT ![t] = "idle"]
       ELSE pc' = [pc EXCEPT ![t] = "load"] /\ UNCHANGED <<head, pushed, missed>>
  /\ UNCHANGED <<nodes, count, new, seen, collect>>

-----------------------------------------------------------------------------
(* collect *)

CollectLoad ==
  /\ collector = "idle" /\ calls < MaxCollects
  /\ calls' = calls + 1
  /\ walk' = head
  /\ collector' = "store"
  /\ UNCHANGED <<head, nodes, inserts, collected, pushed, missed>>

CollectStore ==
  /\ collector = "store"
  /\ head' = Null
  /\ collector' = "walk"
  /\ UNCHANGED <<nodes, inserts, calls, walk, collected, pushed, missed>>

\* One turn of the loop: the node at walk is printed, left, and dropped.
CollectNode ==
  /\ collector = "walk" /\ walk # Null
  /\ collected' = Append(collected, item[walk])
  /\ walk' = next[walk]
  /\ item' = [item EXCEPT ![walk] = Null]
  /\ UNCHANGED <<head, next, inserts, collector, calls, pushed, missed>>

CollectEnd ==
  /\ collector = "walk" /\ walk = Null
  /\ collector' = "idle"
  /\ UNCHANGED <<head, nodes, inserts, calls, walk, collected, pushed, missed>>

\* Nothing more to do within the bounds.
Finished ==
  /\ collector = "idle" /\ calls = MaxCollects
  /\ \A t \in Inserters : pc[t] = "idle" /\ count[t] = MaxItems
  /\ UNCHANGED vars

\* Nodes that were missed are never freed, so that Addrs, a bound, may run out.
OutOfMemory ==
  /\ \A a \in Addrs : ~Free(a)
  /\ UNCHANGED vars

-----------------------------------------------------------------------------
Insert(t) == InsertNew(t) \/ InsertLoad(t) \/ InsertLink(t) \/ InsertCas(t)

Collect == CollectLoad \/ CollectStore \/ CollectNode \/ CollectEnd

Next == (\E t \in Inserters : Insert(t)) \/ Collect \/ Finished \/ OutOfMemory

Spec == Init /\ [][Next]_vars

\* A thread that has begun to insert is scheduled again, as is the collector.
FairSpec ==
  /\ Spec
  /\ \A t \in Inserters : WF_vars(InsertLoad(t) \/ InsertLink(t) \/ InsertCas(t))
  /\ WF_vars(CollectStore \/ CollectNode \/ CollectEnd)

-----------------------------------------------------------------------------
TypeOK ==
  /\ head \in Addrs \cup {Null}
  /\ item \in [Addrs -> Items \cup {Null}]
  /\ next \in [Addrs -> Addrs \cup {Null}]
  /\ pc \in [Inserters -> {"idle", "load", "link", "cas"}]
  /\ count \in [Inserters -> 0 .. MaxItems]
  /\ new \in [Inserters -> Addrs \cup {Null}]
  /\ seen \in [Inserters -> Addrs \cup {Null}]
  /\ collector \in {"idle", "store", "walk"}
  /\ calls \in 0 .. MaxCollects
  /\ walk \in Addrs \cup {Null}
  /\ collected \in Seq(Items)
  /\ pushed \subseteq Items
  /\ missed \subseteq pushed

\* A set of nodes that has with each node the one that follows it.
Closed(S) == \A a \in S : next[a] \in S \cup {Null}

\* The nodes from a on: those that are in every closed set that a is in.
Chain(a) ==
  {b \in Addrs : \A S \in SUBSET Addrs : Closed(S) /\ a \in S \cup {Null} => b \in S}

(***************************************************************************)
(* No node that can still be reached has been freed, neither from the head *)
(* nor from where collect is: an insertion that has seen a head which was  *)
(* freed since, or freed and allocated again, does not push onto it, or    *)
(* pushes onto the node that is there now.                                 *)
(***************************************************************************)
ReachableLive ==
  /\ \A a \in Chain(head) : ~Free(a)
  /\ collector # "idle" => \A a \in Chain(walk) : ~Free(a)

\* The items that collect has yet to collect in this call.
Collecting == IF collector = "idle" THEN {} ELSE {item[a] : a \in Chain(walk)}

(***************************************************************************)
(* An item that was pushed is in the bag or collected, once, unless it was *)
(* pushed between a load and a store of collect: then it is in the bag at  *)
(* most until the store.  Nothing else is ever lost.                       *)
(***************************************************************************)
Accounted ==
  /\ pushed \ missed \subseteq
       {item[a] : a \in Chain(head)} \cup Collecting
         \cup {collected[i] : i \in 1 .. Len(collected)}
  /\ \A i, j \in 1 .. Len(collected) : collected[i] = collected[j] => i = j
  /\ missed \cap {collected[i] : i \in 1 .. Len(collected)} = {}

(***************************************************************************)
(* insert is lock-free: with finitely many competitors it ends.            *)
(***************************************************************************)
InsertReturns ==
  \A t \in Inserters : pc[t] # "idle" ~> pc[t] = "idle"
=============================================================================
