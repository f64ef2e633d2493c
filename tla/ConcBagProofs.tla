---------------------------- MODULE ConcBagProofs ----------------------------
(***************************************************************************)
(* Proofs about the bag, for any number of threads, addresses, items and   *)
(* collections: nothing reachable is ever freed, and nothing is lost but   *)
(* what the program is known to lose.                                      *)
(***************************************************************************)
EXTENDS ConcBag, SequenceTheorems, TLAPS

-----------------------------------------------------------------------------
(* Chains, as a function of the next fields nx *)

ClosedIn(nx, S) == \A a \in S : nx[a] \in S \cup {Null}

ChainIn(nx, a) ==
  {b \in Addrs : \A S \in SUBSET Addrs : ClosedIn(nx, S) /\ a \in S \cup {Null} => b \in S}

Nexts == [Addrs -> Addrs \cup {Null}]

LEMMA ChainIsChainIn ==
  ASSUME NEW a
  PROVE  Chain(a) = ChainIn(next, a)
BY DEF Chain, Closed, ChainIn, ClosedIn

\* The chain from a is closed, has a, and is the least such set.
LEMMA ChainClosed ==
  ASSUME NEW nx \in Nexts, NEW a \in Addrs \cup {Null}
  PROVE  /\ ChainIn(nx, a) \subseteq Addrs
         /\ ClosedIn(nx, ChainIn(nx, a))
         /\ a \in ChainIn(nx, a) \cup {Null}
<1>1. ChainIn(nx, a) \subseteq Addrs /\ a \in ChainIn(nx, a) \cup {Null}
  BY DEF ChainIn
<1>2. ASSUME NEW b \in ChainIn(nx, a), nx[b] # Null PROVE nx[b] \in ChainIn(nx, a)
  <2>1. b \in Addrs /\ nx[b] \in Addrs
    BY <1>1, <1>2 DEF Nexts
  <2>2. ASSUME NEW S \in SUBSET Addrs, ClosedIn(nx, S), a \in S \cup {Null}
        PROVE  nx[b] \in S
    BY <1>2, <2>2 DEF ChainIn, ClosedIn
  <2> QED
    BY <2>1, <2>2 DEF ChainIn
<1> QED
  BY <1>1, <1>2 DEF ClosedIn

LEMMA ChainLeast ==
  ASSUME NEW nx, NEW a, NEW S \in SUBSET Addrs, ClosedIn(nx, S), a \in S \cup {Null}
  PROVE  ChainIn(nx, a) \subseteq S
<1> SUFFICES ASSUME NEW b \in ChainIn(nx, a) PROVE b \in S
  OBVIOUS
<1>1. \A T \in SUBSET Addrs : ClosedIn(nx, T) /\ a \in T \cup {Null} => b \in T
  BY DEF ChainIn
<1> QED
  BY <1>1

LEMMA ChainNull ==
  ASSUME NEW nx
  PROVE  ChainIn(nx, Null) = {}
<1>1. {} \in SUBSET Addrs /\ ClosedIn(nx, {}) /\ Null \in {} \cup {Null}
  BY DEF ClosedIn
<1>2. ChainIn(nx, Null) \subseteq {}
  BY <1>1, ChainLeast
<1> QED
  BY <1>2

LEMMA ChainStep ==
  ASSUME NEW nx \in Nexts, NEW a \in Addrs
  PROVE  ChainIn(nx, a) = {a} \cup ChainIn(nx, nx[a])
<1> DEFINE C == ChainIn(nx, a)
           D == ChainIn(nx, nx[a])
<1>1. nx[a] \in Addrs \cup {Null} /\ a # Null
  BY NullAssumption DEF Nexts
<1>2. /\ C \subseteq Addrs /\ ClosedIn(nx, C) /\ a \in C
      /\ D \subseteq Addrs /\ ClosedIn(nx, D) /\ nx[a] \in D \cup {Null}
  BY <1>1, ChainClosed
<1>3. C \subseteq {a} \cup D
  <2>1. ClosedIn(nx, {a} \cup D) /\ {a} \cup D \in SUBSET Addrs
    BY <1>2 DEF ClosedIn
  <2> QED
    BY <2>1, ChainLeast
<1>4. D \subseteq C
  <2>1. nx[a] \in C \cup {Null}
    BY <1>2 DEF ClosedIn
  <2> QED
    BY <1>2, <2>1, ChainLeast
<1> QED
  BY <1>2, <1>3, <1>4

\* Changes elsewhere do not change a chain.
LEMMA ChainFrame ==
  ASSUME NEW nx \in Nexts, NEW ny \in Nexts, NEW a \in Addrs \cup {Null},
         \A c \in ChainIn(nx, a) : ny[c] = nx[c]
  PROVE  ChainIn(ny, a) = ChainIn(nx, a)
<1> DEFINE C == ChainIn(nx, a)
           D == ChainIn(ny, a)
<1>1. /\ C \subseteq Addrs /\ ClosedIn(nx, C) /\ a \in C \cup {Null}
      /\ D \subseteq Addrs /\ ClosedIn(ny, D) /\ a \in D \cup {Null}
  BY ChainClosed
<1>2. D \subseteq C
  <2>1. ClosedIn(ny, C)
    BY <1>1 DEF ClosedIn
  <2> QED
    BY <1>1, <2>1, ChainLeast
<1>3. C \subseteq D
  <2>1. ClosedIn(nx, D)
    BY <1>1, <1>2 DEF ClosedIn
  <2> QED
    BY <1>1, <2>1, ChainLeast
<1> QED
  BY <1>2, <1>3

-----------------------------------------------------------------------------
(* The inductive invariant *)

Stack == Chain(head)   \* the nodes on the stack
Walk  == Chain(walk)   \* the nodes collect has yet to free
Collected == {collected[i] : i \in 1 .. Len(collected)}

\* Nodes that can be reached are live, and on no cycle.
LiveInv ==
  \A a \in Stack \cup Walk : ~Free(a) /\ a \notin Chain(next[a])

\* A thread inside insert has a node of its own, which nobody can reach.
NewInv ==
  \A t \in Inserters : pc[t] # "idle" =>
    /\ count[t] \in 1 .. MaxItems
    /\ new[t] \in Addrs \ (Stack \cup Walk)
    /\ item[new[t]] = <<t, count[t]>>
    /\ pc[t] = "cas" => next[new[t]] = seen[t]

\* Once the head has been stored, what collect walks is not on the stack.
WalkInv ==
  /\ collector = "idle" => walk = Null
  /\ collector = "walk" => Stack \cap Walk = {}

BagInv == LiveInv /\ NewInv /\ WalkInv

\* Every item is in one place only.
ItemInv ==
  /\ \A a \in Addrs : ~Free(a) => item[a][2] <= count[item[a][1]] /\ item[a] \notin Collected
  /\ \A a, b \in Addrs : ~Free(a) /\ item[a] = item[b] => a = b
  /\ \A a \in Stack \cup Walk : item[a] \in pushed
  /\ \A t \in Inserters : pc[t] # "idle" => item[new[t]] \notin pushed
  /\ \A e \in pushed : e[2] <= count[e[1]]
  /\ Collected \subseteq pushed
  /\ \A i, j \in 1 .. Len(collected) : collected[i] = collected[j] => i = j

\* Where the items are that have been pushed.
PlaceInv ==
  /\ \A a \in Walk : item[a] \notin missed
  /\ collector # "store" => \A a \in Stack : item[a] \notin missed
  /\ missed \cap Collected = {}
  /\ \A e \in pushed \ missed :
       \/ e \in Collected
       \/ \E a \in Walk : item[a] = e
       \/ collector # "store" /\ \E a \in Stack : item[a] = e

Inv == TypeOK /\ BagInv /\ ItemInv /\ PlaceInv

-----------------------------------------------------------------------------
(* How a step changes the chains *)

LEMMA Chains ==
  ASSUME TypeOK
  PROVE  /\ Stack \subseteq Addrs /\ head \in Stack \cup {Null}
         /\ Walk \subseteq Addrs /\ walk \in Walk \cup {Null}
         /\ \A a \in Addrs \cup {Null} : Chain(a) \subseteq Addrs
         /\ \A a \in Addrs : Chain(a) = {a} \cup Chain(next[a])
         /\ \A a \in Stack : Chain(next[a]) \subseteq Stack
         /\ \A a \in Walk : Chain(next[a]) \subseteq Walk
         /\ Chain(Null) = {}
<1>1. next \in Nexts /\ head \in Addrs \cup {Null} /\ walk \in Addrs \cup {Null}
  BY DEF TypeOK, Nexts
<1>2. \A a \in Addrs \cup {Null} : ChainIn(next, a) \subseteq Addrs
                                   /\ ClosedIn(next, ChainIn(next, a))
                                   /\ a \in ChainIn(next, a) \cup {Null}
  BY <1>1, ChainClosed
<1>3. \A a \in Addrs \cup {Null} : \A b \in ChainIn(next, a) :
        ChainIn(next, next[b]) \subseteq ChainIn(next, a)
  <2> SUFFICES ASSUME NEW a \in Addrs \cup {Null}, NEW b \in ChainIn(next, a)
               PROVE  ChainIn(next, next[b]) \subseteq ChainIn(next, a)
    OBVIOUS
  <2>1. next[b] \in ChainIn(next, a) \cup {Null}
    BY <1>2 DEF ClosedIn
  <2> QED
    BY <1>2, <2>1, ChainLeast
<1>4. \A a : Chain(a) = ChainIn(next, a)
  BY ChainIsChainIn
<1>5. \A a \in Addrs : ChainIn(next, a) = {a} \cup ChainIn(next, next[a])
  BY <1>1, ChainStep
<1>6. ChainIn(next, Null) = {}
  BY ChainNull
<1> QED
  BY <1>1, <1>2, <1>3, <1>4, <1>5, <1>6 DEF Stack, Walk

\* No next field changes.
LEMMA ChainsSame ==
  ASSUME next' = next, NEW a, NEW b, b = a
  PROVE  Chain(a)' = Chain(a)
BY DEF Chain, Closed

\* A step that changes no node that can be reached.
LEMMA ChainsKept ==
  ASSUME TypeOK, TypeOK', head' = head, walk' = walk,
         \A a \in Stack \cup Walk : next'[a] = next[a]
  PROVE  /\ Stack' = Stack /\ Walk' = Walk
         /\ \A a \in Stack \cup Walk : Chain(next[a])' = Chain(next[a])
<1>1. /\ next \in Nexts /\ next' \in Nexts
      /\ head \in Addrs \cup {Null} /\ walk \in Addrs \cup {Null}
  BY DEF TypeOK, Nexts
<1>2. \A a : Chain(a) = ChainIn(next, a)
  BY ChainIsChainIn
<1>3. Stack' = ChainIn(next', head') /\ Walk' = ChainIn(next', walk')
  BY DEF Stack, Walk, Chain, Closed, ChainIn, ClosedIn
<1>4. Stack' = Stack /\ Walk' = Walk
  BY <1>1, <1>2, <1>3, ChainFrame DEF Stack, Walk
<1>5. ASSUME NEW a \in Stack \cup Walk PROVE Chain(next[a])' = Chain(next[a])
  <2>1. a \in Addrs /\ next[a] \in Addrs \cup {Null} /\ next'[a] = next[a]
    BY <1>1, Chains DEF Nexts
  <2>2. ChainIn(next, next[a]) \subseteq Stack \cup Walk
    BY <1>2, Chains
  <2>3. ChainIn(next', next[a]) = ChainIn(next, next[a])
    BY <1>1, <2>1, <2>2, ChainFrame
  <2>4. Chain(next[a])' = ChainIn(next', next'[a])
    BY DEF Chain, Closed, ChainIn, ClosedIn
  <2> QED
    BY <1>2, <2>1, <2>3, <2>4
<1> QED
  BY <1>4, <1>5

-----------------------------------------------------------------------------
(* Type correctness *)

LEMMA LiveItem ==
  ASSUME TypeOK, NEW a \in Addrs, ~Free(a)
  PROVE  item[a] \in Items /\ item[a][1] \in Inserters /\ item[a][2] \in 1 .. MaxItems
BY DEF TypeOK, Free, Items

LEMMA TypeStep ==
  ASSUME TypeOK, BagInv, [Next]_vars
  PROVE  TypeOK'
<1> USE BoundsAssumption, NullAssumption
<1>1. ASSUME NEW t \in Inserters, InsertNew(t) PROVE TypeOK'
  <2>1. PICK a \in Addrs :
          /\ new' = [new EXCEPT ![t] = a]
          /\ item' = [item EXCEPT ![a] = <<t, count[t] + 1>>]
          /\ next' = [next EXCEPT ![a] = Null]
    BY <1>1 DEF InsertNew
  <2>2. count[t] + 1 \in 1 .. MaxItems /\ <<t, count[t] + 1>> \in Items
    BY <1>1 DEF InsertNew, TypeOK, Items
  <2>3. /\ item' \in [Addrs -> Items \cup {Null}]
        /\ next' \in [Addrs -> Addrs \cup {Null}]
        /\ new' \in [Inserters -> Addrs \cup {Null}]
    BY <2>1, <2>2 DEF TypeOK
  <2>4. count' \in [Inserters -> 0 .. MaxItems]
    BY <1>1, <2>2 DEF InsertNew, TypeOK
  <2> QED
    BY <1>1, <2>3, <2>4 DEF InsertNew, TypeOK, collect
<1>2. ASSUME NEW t \in Inserters, InsertLoad(t) PROVE TypeOK'
  BY <1>2 DEF InsertLoad, TypeOK, collect, nodes
<1>3. ASSUME NEW t \in Inserters, InsertLink(t) PROVE TypeOK'
  BY <1>3 DEF InsertLink, TypeOK, collect
<1>4. ASSUME NEW t \in Inserters, InsertCas(t) PROVE TypeOK'
  <2>1. item[new[t]] \in Items
    <3>1. pc[t] # "idle"
      BY <1>4 DEF InsertCas
    <3>2. item[new[t]] = <<t, count[t]>> /\ count[t] \in 1 .. MaxItems
      BY <3>1 DEF BagInv, NewInv
    <3> QED
      BY <3>2 DEF Items
  <2> QED
    BY <1>4, <2>1 DEF InsertCas, Push, TypeOK, collect, nodes
<1>5. CASE CollectLoad
  BY <1>5 DEF CollectLoad, TypeOK, nodes, inserts
<1>6. CASE CollectStore
  BY <1>6 DEF CollectStore, TypeOK, nodes, inserts
<1>7. CASE CollectNode
  <2>1. walk \in Addrs /\ item[walk] \in Items
    BY <1>7, Chains, LiveItem DEF CollectNode, TypeOK, BagInv, LiveInv
  <2>2. collected' \in Seq(Items)
    BY <1>7, <2>1, AppendProperties DEF CollectNode, TypeOK
  <2> QED
    BY <1>7, <2>1, <2>2 DEF CollectNode, TypeOK, inserts
<1>8. CASE CollectEnd
  BY <1>8 DEF CollectEnd, TypeOK, nodes, inserts
<1>9. CASE Finished \/ OutOfMemory \/ UNCHANGED vars
  BY <1>9 DEF Finished, OutOfMemory, vars, TypeOK
<1> QED
  BY <1>1, <1>2, <1>3, <1>4, <1>5, <1>6, <1>7, <1>8, <1>9 DEF Next, Insert, Collect

-----------------------------------------------------------------------------
(* Steps of insert *)

LEMMA InsertNewInv ==
  ASSUME Inv, TypeOK', NEW t \in Inserters, InsertNew(t)
  PROVE  BagInv' /\ ItemInv' /\ PlaceInv'
<1> USE BoundsAssumption, NullAssumption DEF Inv
<1>1. PICK a \in Addrs :
        /\ Free(a)
        /\ new' = [new EXCEPT ![t] = a]
        /\ item' = [item EXCEPT ![a] = <<t, count[t] + 1>>]
        /\ next' = [next EXCEPT ![a] = Null]
  BY DEF InsertNew
<1>2. /\ pc[t] = "idle" /\ count[t] + 1 \in 1 .. MaxItems /\ count[t] \in Nat
      /\ pc' = [pc EXCEPT ![t] = "load"]
      /\ count' = [count EXCEPT ![t] = count[t] + 1]
      /\ UNCHANGED <<head, seen, pushed, missed, collector, calls, walk, collected>>
  BY DEF InsertNew, collect, TypeOK
<1>3. a \notin Stack \cup Walk
  BY <1>1 DEF BagInv, LiveInv
<1>4. \A c \in Stack \cup Walk : c \in Addrs /\ c # a /\ next'[c] = next[c] /\ item'[c] = item[c]
  BY <1>1, <1>3, Chains DEF TypeOK
<1>5. /\ Stack' = Stack /\ Walk' = Walk
      /\ \A c \in Stack \cup Walk : Chain(next[c])' = Chain(next[c])
  BY <1>2, <1>4, ChainsKept
<1>6. item'[a] = <<t, count[t] + 1>> /\ item'[a] \in Items
  BY <1>1, <1>2 DEF TypeOK, Items
<1>7. \A c \in Addrs \ {a} : item'[c] = item[c]
  BY <1>1 DEF TypeOK
<1>8. \A u \in Inserters \ {t} : pc'[u] = pc[u] /\ count'[u] = count[u] /\ new'[u] = new[u]
  BY <1>1, <1>2 DEF TypeOK
<1>9. /\ pc'[t] = "load" /\ count'[t] = count[t] + 1 /\ new'[t] = a
  BY <1>1, <1>2 DEF TypeOK
<1>10. LiveInv'
  BY <1>4, <1>5 DEF BagInv, LiveInv, Free
<1>11. NewInv'
  <2> SUFFICES ASSUME NEW u \in Inserters, pc'[u] # "idle"
               PROVE  /\ count'[u] \in 1 .. MaxItems
                      /\ new'[u] \in Addrs \ (Stack \cup Walk)
                      /\ item'[new'[u]] = <<u, count'[u]>>
                      /\ pc'[u] = "cas" => next'[new'[u]] = seen[u]
    BY <1>2, <1>5 DEF NewInv
  <2>1. CASE u = t
    BY <1>2, <1>3, <1>6, <1>9, <2>1
  <2>2. CASE u # t
    <3>1. /\ count[u] \in 1 .. MaxItems
          /\ new[u] \in Addrs \ (Stack \cup Walk)
          /\ item[new[u]] = <<u, count[u]>>
          /\ pc[u] = "cas" => next[new[u]] = seen[u]
      BY <1>8, <2>2 DEF BagInv, NewInv
    <3>2. new[u] # a
      <4>1. <<u, count[u]>> \in Items
        BY <3>1 DEF Items
      <4> QED
        BY <1>1, <3>1, <4>1 DEF Free
    <3> QED
      BY <1>1, <1>7, <1>8, <2>2, <3>1, <3>2 DEF TypeOK
  <2> QED
    BY <2>1, <2>2
<1>12. WalkInv'
  BY <1>2, <1>5 DEF BagInv, WalkInv
<1>13. ItemInv'
  <2>1. \A e \in Items : e[2] <= count[e[1]] => e[2] <= count'[e[1]] /\ e # item'[a]
    <3> SUFFICES ASSUME NEW e \in Items, e[2] <= count[e[1]]
                 PROVE  e[2] <= count'[e[1]] /\ e # item'[a]
      OBVIOUS
    <3>1. e[1] \in Inserters /\ e[2] \in Nat /\ count[e[1]] \in Nat
      BY DEF Items, TypeOK
    <3>2. CASE e[1] = t
      BY <1>2, <1>6, <1>9, <3>1, <3>2
    <3>3. CASE e[1] # t
      BY <1>6, <1>8, <3>1, <3>3
    <3> QED
      BY <3>2, <3>3
  <2>2. Collected' = Collected
    BY <1>2 DEF Collected
  <2>3. \A e \in pushed : e[2] <= count'[e[1]] /\ e # item'[a]
    BY <2>1 DEF ItemInv, TypeOK
  <2>4. \A c \in Addrs : item'[c] # Null =>
          item'[c][2] <= count'[item'[c][1]] /\ item'[c] \notin Collected
    <3>1. ASSUME NEW c \in Addrs \ {a}, item'[c] # Null
          PROVE  item'[c][2] <= count'[item'[c][1]] /\ item'[c] \notin Collected
      BY <1>7, <2>1, <3>1, LiveItem DEF ItemInv, Free
    <3>2. item'[a][2] <= count'[item'[a][1]]
      BY <1>2, <1>6, <1>9
    <3>3. item'[a] \notin Collected
      BY <2>3 DEF ItemInv
    <3> QED
      BY <3>1, <3>2, <3>3
  <2>5. \A c, d \in Addrs : item'[c] # Null /\ item'[c] = item'[d] => c = d
    <3>1. ASSUME NEW c \in Addrs \ {a}, item'[c] # Null PROVE item'[c] # item'[a]
      BY <1>7, <2>1, <3>1, LiveItem DEF ItemInv, Free
    <3>2. ASSUME NEW c \in Addrs \ {a}, NEW d \in Addrs \ {a}, item'[c] # Null, item'[c] = item'[d]
          PROVE  c = d
      BY <1>7, <3>2 DEF ItemInv, Free
    <3> QED
      BY <3>1, <3>2
  <2>6. \A u \in Inserters : pc'[u] # "idle" => item'[new'[u]] \notin pushed
    <3>1. item'[a] \notin pushed
      BY <2>3
    <3>2. ASSUME NEW u \in Inserters \ {t}, pc'[u] # "idle" PROVE item'[new'[u]] \notin pushed
      <4>1. item[new[u]] \notin pushed /\ new[u] \in Addrs
        BY <1>8, <3>2 DEF ItemInv, BagInv, NewInv
      <4> QED
        BY <1>7, <1>8, <3>1, <4>1
    <3> QED
      BY <1>9, <3>1, <3>2
  <2> QED
    BY <1>2, <1>4, <1>5, <2>2, <2>3, <2>4, <2>5, <2>6 DEF ItemInv, Free
<1>14. PlaceInv'
  <2>1. Collected' = Collected
    BY <1>2 DEF Collected
  <2> QED
    BY <1>2, <1>4, <1>5, <2>1 DEF PlaceInv
<1> QED
  BY <1>10, <1>11, <1>12, <1>13, <1>14 DEF BagInv

\* A step that leaves the stack, the items and the collector alone.
LEMMA SameChains ==
  ASSUME UNCHANGED <<head, next, walk>>
  PROVE  /\ Stack' = Stack /\ Walk' = Walk
         /\ \A a \in Stack \cup Walk : Chain(next[a])' = Chain(next[a])
BY DEF Stack, Walk, Chain, Closed

LEMMA InsertLoadInv ==
  ASSUME Inv, NEW t \in Inserters, InsertLoad(t)
  PROVE  BagInv' /\ ItemInv' /\ PlaceInv'
<1> USE DEF Inv
<1>1. /\ pc[t] = "load" /\ pc' = [pc EXCEPT ![t] = "link"]
      /\ UNCHANGED <<head, next, item, count, new, pushed, missed, collector, walk, collected>>
      /\ \A u \in Inserters \ {t} : seen'[u] = seen[u]
  BY DEF InsertLoad, nodes, collect, TypeOK
<1>2. /\ Stack' = Stack /\ Walk' = Walk
      /\ \A a \in Stack \cup Walk : Chain(next[a])' = Chain(next[a])
  BY <1>1, SameChains
<1>3. \A u \in Inserters : /\ pc'[u] # "idle" => pc[u] # "idle"
                           /\ pc'[u] = "cas" => pc[u] = "cas" /\ u # t
  BY <1>1 DEF TypeOK
<1>4. LiveInv' /\ WalkInv'
  BY <1>1, <1>2 DEF BagInv, LiveInv, WalkInv, Free
<1>5. NewInv'
  BY <1>1, <1>2, <1>3 DEF BagInv, NewInv
<1>6. ItemInv'
  BY <1>1, <1>2, <1>3 DEF ItemInv, Free, Collected
<1>7. PlaceInv'
  BY <1>1, <1>2 DEF PlaceInv, Collected
<1> QED
  BY <1>4, <1>5, <1>6, <1>7 DEF BagInv

LEMMA InsertLinkInv ==
  ASSUME Inv, TypeOK', NEW t \in Inserters, InsertLink(t)
  PROVE  BagInv' /\ ItemInv' /\ PlaceInv'
<1> USE DEF Inv
<1>1. /\ pc[t] = "link" /\ pc' = [pc EXCEPT ![t] = "cas"]
      /\ next' = [next EXCEPT ![new[t]] = seen[t]]
      /\ UNCHANGED <<head, item, count, new, seen, pushed, missed, collector, walk, collected>>
  BY DEF InsertLink, collect
<1>2. new[t] \in Addrs \ (Stack \cup Walk) /\ item[new[t]] = <<t, count[t]>>
  BY <1>1 DEF BagInv, NewInv
<1>3. /\ Stack' = Stack /\ Walk' = Walk
      /\ \A a \in Stack \cup Walk : Chain(next[a])' = Chain(next[a])
  <2>1. \A a \in Stack \cup Walk : next'[a] = next[a]
    BY <1>1, <1>2, Chains DEF TypeOK
  <2> QED
    BY <1>1, <2>1, ChainsKept
<1>4. LiveInv' /\ WalkInv'
  BY <1>1, <1>3 DEF BagInv, LiveInv, WalkInv, Free
<1>5. \A u \in Inserters : pc'[u] # "idle" => pc[u] # "idle"
  BY <1>1 DEF TypeOK
<1>6. NewInv'
  <2>1. ASSUME NEW u \in Inserters, pc'[u] = "cas" PROVE next'[new[u]] = seen[u]
    <3>1. CASE u = t
      BY <1>1, <1>2, <3>1 DEF TypeOK
    <3>2. CASE u # t
      <4>1. pc[u] = "cas" /\ new[u] \in Addrs
        BY <1>1, <2>1, <3>2 DEF TypeOK, BagInv, NewInv
      <4>2. next[new[u]] = seen[u] /\ item[new[u]] = <<u, count[u]>>
        BY <4>1 DEF BagInv, NewInv
      <4>3. new[u] # new[t]
        BY <1>2, <3>2, <4>2
      <4> QED
        BY <1>1, <4>1, <4>2, <4>3 DEF TypeOK
    <3> QED
      BY <3>1, <3>2
  <2> QED
    BY <1>1, <1>3, <1>5, <2>1 DEF BagInv, NewInv
<1>7. ItemInv'
  BY <1>1, <1>3, <1>5 DEF ItemInv, Free, Collected
<1>8. PlaceInv'
  BY <1>1, <1>3 DEF PlaceInv, Collected
<1> QED
  BY <1>4, <1>6, <1>7, <1>8 DEF BagInv

\* A push: the new node is live, and whatever the head was before (perhaps a
\* node at an address that had another node when t loaded it) comes next.
LEMMA InsertPushInv ==
  ASSUME Inv, TypeOK', NEW t \in Inserters, InsertCas(t), head = seen[t]
  PROVE  BagInv' /\ ItemInv' /\ PlaceInv'
<1> USE NullAssumption DEF Inv
<1> DEFINE n == new[t]
           e == item[n]
<1>1. /\ pc[t] = "cas" /\ pc' = [pc EXCEPT ![t] = "idle"]
      /\ head' = n /\ pushed' = pushed \cup {e}
      /\ missed' = IF collector = "store" THEN missed \cup {e} ELSE missed
      /\ UNCHANGED <<next, item, count, new, seen, collector, walk, collected>>
  BY DEF InsertCas, Push, collect, nodes
<1>2. /\ n \in Addrs \ (Stack \cup Walk) /\ next[n] = head
      /\ e = <<t, count[t]>> /\ count[t] \in 1 .. MaxItems
  BY <1>1 DEF BagInv, NewInv
<1>3. ~Free(n) /\ e \notin pushed
  <2>1. e \in Items
    BY <1>2 DEF Items
  <2> QED
    BY <1>1, <2>1 DEF Free, ItemInv
<1>4. /\ Stack' = {n} \cup Stack /\ Walk' = Walk
      /\ \A a : Chain(a)' = Chain(a)
  <2>1. \A a : Chain(a)' = Chain(a)
    BY <1>1 DEF Chain, Closed
  <2>2. Stack' = Chain(n) /\ Walk' = Walk
    BY <1>1 DEF Stack, Walk, Chain, Closed
  <2> QED
    BY <1>2, <2>1, <2>2, Chains DEF Stack
<1> HIDE DEF n, e
<1>5. LiveInv'
  <2>1. n \notin Chain(next[n])
    BY <1>2 DEF Stack
  <2>2. \A a \in Stack' \cup Walk' : ~Free(a) /\ a \notin Chain(next[a])
    BY <1>3, <1>4, <2>1 DEF BagInv, LiveInv
  <2>3. \A a : Free(a)' <=> Free(a)
    BY <1>1 DEF Free
  <2>4. \A a : Chain(next[a])' = Chain(next[a])
    BY <1>1 DEF Chain, Closed
  <2> QED
    BY <2>2, <2>3, <2>4 DEF LiveInv
<1>6. \A u \in Inserters : pc'[u] # "idle" => pc'[u] = pc[u] /\ u # t
  BY <1>1 DEF TypeOK
<1>7. \A u \in Inserters : pc'[u] # "idle" => new[u] # n /\ item[new[u]] # e
  <2> SUFFICES ASSUME NEW u \in Inserters, pc'[u] # "idle"
               PROVE  new[u] # n /\ item[new[u]] # e
    OBVIOUS
  <2>1. u # t /\ item[new[u]] = <<u, count[u]>>
    BY <1>6 DEF BagInv, NewInv
  <2> QED
    BY <1>2, <2>1 DEF e
<1>8. NewInv'
  BY <1>1, <1>4, <1>6, <1>7 DEF BagInv, NewInv
<1>9. WalkInv'
  BY <1>1, <1>2, <1>4 DEF BagInv, WalkInv
<1>10. ItemInv'
  <2>1. Collected' = Collected
    BY <1>1 DEF Collected
  <2>2. \A u \in Inserters : pc'[u] # "idle" => item[new[u]] \notin pushed \cup {e}
    BY <1>6, <1>7 DEF ItemInv
  <2>3. \A a \in Stack' \cup Walk' : item[a] \in pushed \cup {e}
    BY <1>4 DEF ItemInv, e
  <2>4. \A f \in pushed \cup {e} : f[2] <= count[f[1]]
    BY <1>2, <1>3 DEF ItemInv, e
  <2> QED
    BY <1>1, <2>1, <2>2, <2>3, <2>4 DEF ItemInv, Free
<1>11. PlaceInv'
  <2>1. Collected' = Collected /\ e \notin Collected
    BY <1>1, <1>3 DEF Collected, ItemInv
  <2>2. \A a \in Walk : item[a] # e
    BY <1>2, <1>3 DEF ItemInv
  <2>3. \A a \in Walk' : item'[a] \notin missed'
    BY <1>1, <1>4, <2>2 DEF PlaceInv
  <2>4. missed' \cap Collected' = {}
    BY <1>1, <2>1 DEF PlaceInv
  <2>5. collector' # "store" => \A a \in Stack' : item'[a] \notin missed'
    BY <1>1, <1>3, <1>4 DEF PlaceInv, TypeOK, e
  <2>6. \A f \in pushed' \ missed' :
          \/ f \in Collected'
          \/ \E a \in Walk' : item'[a] = f
          \/ collector' # "store" /\ \E a \in Stack' : item'[a] = f
    <3> SUFFICES ASSUME NEW f \in pushed' \ missed'
                 PROVE  \/ f \in Collected
                        \/ \E a \in Walk : item[a] = f
                        \/ collector # "store" /\ \E a \in {n} \cup Stack : item[a] = f
      BY <1>1, <1>4, <2>1
    <3>1. CASE f = e
      BY <1>1, <3>1 DEF e
    <3>2. CASE f # e
      BY <1>1, <3>2 DEF PlaceInv
    <3> QED
      BY <3>1, <3>2
  <2> QED
    BY <2>3, <2>4, <2>5, <2>6 DEF PlaceInv
<1> QED
  BY <1>5, <1>8, <1>9, <1>10, <1>11 DEF BagInv

LEMMA InsertAgainInv ==
  ASSUME Inv, NEW t \in Inserters, InsertCas(t), head # seen[t]
  PROVE  BagInv' /\ ItemInv' /\ PlaceInv'
<1> USE DEF Inv
<1>1. /\ pc[t] = "cas" /\ pc' = [pc EXCEPT ![t] = "load"]
      /\ UNCHANGED <<head, next, item, count, new, seen, pushed, missed, collector, walk,
                     collected>>
  BY DEF InsertCas, nodes, collect
<1>2. /\ Stack' = Stack /\ Walk' = Walk
      /\ \A a \in Stack \cup Walk : Chain(next[a])' = Chain(next[a])
  BY <1>1, SameChains
<1>3. \A u \in Inserters : /\ pc'[u] # "idle" => pc[u] # "idle"
                           /\ pc'[u] = "cas" => pc[u] = "cas"
  BY <1>1 DEF TypeOK
<1>4. LiveInv' /\ WalkInv'
  BY <1>1, <1>2 DEF BagInv, LiveInv, WalkInv, Free
<1>5. NewInv'
  BY <1>1, <1>2, <1>3 DEF BagInv, NewInv
<1>6. ItemInv'
  BY <1>1, <1>2, <1>3 DEF ItemInv, Free, Collected
<1>7. PlaceInv'
  BY <1>1, <1>2 DEF PlaceInv, Collected
<1> QED
  BY <1>4, <1>5, <1>6, <1>7 DEF BagInv

-----------------------------------------------------------------------------
(* Steps of collect *)

LEMMA CollectLoadInv ==
  ASSUME Inv, CollectLoad
  PROVE  BagInv' /\ ItemInv' /\ PlaceInv'
<1> USE DEF Inv
<1>1. /\ collector = "idle" /\ collector' = "store" /\ walk' = head
      /\ UNCHANGED <<head, next, item, pc, count, new, seen, pushed, missed, collected>>
  BY DEF CollectLoad, nodes, inserts
<1>2. /\ Stack' = Stack /\ Walk' = Stack /\ Walk = {}
      /\ \A a : Chain(next[a])' = Chain(next[a])
  <2>1. walk = Null
    BY <1>1 DEF BagInv, WalkInv
  <2>2. Walk = {}
    BY <2>1, Chains DEF Walk
  <2>3. Stack' = Stack /\ Walk' = Stack /\ \A a : Chain(next[a])' = Chain(next[a])
    BY <1>1 DEF Stack, Walk, Chain, Closed
  <2> QED
    BY <2>2, <2>3
<1>3. LiveInv' /\ WalkInv'
  BY <1>1, <1>2 DEF BagInv, LiveInv, WalkInv, Free
<1>4. NewInv'
  BY <1>1, <1>2 DEF BagInv, NewInv
<1>5. ItemInv'
  BY <1>1, <1>2 DEF ItemInv, Free, Collected
<1>6. PlaceInv'
  BY <1>1, <1>2 DEF PlaceInv, Collected
<1> QED
  BY <1>3, <1>4, <1>5, <1>6 DEF BagInv

LEMMA CollectStoreInv ==
  ASSUME Inv, TypeOK', CollectStore
  PROVE  BagInv' /\ ItemInv' /\ PlaceInv'
<1> USE DEF Inv
<1>1. /\ collector = "store" /\ collector' = "walk" /\ head' = Null
      /\ UNCHANGED <<walk, next, item, pc, count, new, seen, pushed, missed, collected>>
  BY DEF CollectStore, nodes, inserts
<1>2. /\ Stack' = {} /\ Walk' = Walk
      /\ \A a : Chain(next[a])' = Chain(next[a])
  <2>1. Stack' = Chain(Null) /\ Walk' = Walk /\ \A a : Chain(next[a])' = Chain(next[a])
    BY <1>1 DEF Stack, Walk, Chain, Closed
  <2> QED
    BY <2>1, Chains
<1>3. LiveInv' /\ WalkInv'
  BY <1>1, <1>2 DEF BagInv, LiveInv, WalkInv, Free
<1>4. NewInv'
  BY <1>1, <1>2 DEF BagInv, NewInv
<1>5. ItemInv'
  BY <1>1, <1>2 DEF ItemInv, Free, Collected
<1>6. PlaceInv'
  BY <1>1, <1>2 DEF PlaceInv, Collected
<1> QED
  BY <1>3, <1>4, <1>5, <1>6 DEF BagInv

LEMMA CollectEndInv ==
  ASSUME Inv, CollectEnd
  PROVE  BagInv' /\ ItemInv' /\ PlaceInv'
<1> USE DEF Inv
<1>1. /\ collector = "walk" /\ walk = Null /\ collector' = "idle"
      /\ UNCHANGED <<head, walk, next, item, pc, count, new, seen, pushed, missed, collected>>
  BY DEF CollectEnd, nodes, inserts
<1>2. /\ Stack' = Stack /\ Walk' = Walk
      /\ \A a \in Stack \cup Walk : Chain(next[a])' = Chain(next[a])
  BY <1>1, SameChains
<1>3. LiveInv' /\ WalkInv'
  BY <1>1, <1>2 DEF BagInv, LiveInv, WalkInv, Free
<1>4. NewInv'
  BY <1>1, <1>2 DEF BagInv, NewInv
<1>5. ItemInv'
  BY <1>1, <1>2 DEF ItemInv, Free, Collected
<1>6. PlaceInv'
  BY <1>1, <1>2 DEF PlaceInv, Collected
<1> QED
  BY <1>3, <1>4, <1>5, <1>6 DEF BagInv

\* The node that is freed can no longer be reached.
LEMMA CollectNodeInv ==
  ASSUME Inv, TypeOK', CollectNode
  PROVE  BagInv' /\ ItemInv' /\ PlaceInv'
<1> USE NullAssumption DEF Inv
<1> DEFINE w == walk
           e == item[w]
<1>1. /\ collector = "walk" /\ w # Null /\ collector' = "walk"
      /\ collected' = Append(collected, e) /\ walk' = next[w]
      /\ item' = [item EXCEPT ![w] = Null]
      /\ UNCHANGED <<head, next, pc, count, new, seen, pushed, missed>>
  BY DEF CollectNode, inserts
<1>2. w \in Addrs /\ w \in Walk /\ w \notin Stack /\ ~Free(w) /\ w \notin Chain(next[w])
  BY <1>1, Chains DEF TypeOK, BagInv, LiveInv, WalkInv
<1>3. /\ Stack' = Stack /\ Walk' = Chain(next[w]) /\ Walk = {w} \cup Walk'
      /\ \A a : Chain(next[a])' = Chain(next[a])
  <2>1. Stack' = Stack /\ Walk' = Chain(next[w]) /\ \A a : Chain(next[a])' = Chain(next[a])
    BY <1>1 DEF Stack, Walk, Chain, Closed
  <2> QED
    BY <1>2, <2>1, Chains DEF Walk
<1>4. Walk' = Walk \ {w} /\ Stack' = Stack
  BY <1>2, <1>3
<1>5. item'[w] = Null /\ \A a \in Addrs \ {w} : item'[a] = item[a]
  BY <1>1, <1>2 DEF TypeOK
<1>6. e \in Items /\ e # Null /\ e \in pushed /\ e \notin Collected
  BY <1>2, LiveItem DEF ItemInv
<1>7. Collected' = Collected \cup {e}
  <2>1. collected \in Seq(Items) /\ Len(collected) \in Nat
    BY DEF TypeOK
  <2>2. /\ Len(collected') = Len(collected) + 1
        /\ collected'[Len(collected) + 1] = e
        /\ \A i \in 1 .. Len(collected) : collected'[i] = collected[i]
    BY <1>1, <1>6, <2>1, AppendProperties
  <2> QED
    BY <2>1, <2>2 DEF Collected
<1>8. \A i, j \in 1 .. Len(collected') : collected'[i] = collected'[j] => i = j
  <2>1. collected \in Seq(Items) /\ Len(collected) \in Nat
    BY DEF TypeOK
  <2>2. /\ Len(collected') = Len(collected) + 1
        /\ collected'[Len(collected) + 1] = e
        /\ \A i \in 1 .. Len(collected) : collected'[i] = collected[i]
    BY <1>1, <1>6, <2>1, AppendProperties
  <2>3. \A i \in 1 .. Len(collected) : collected[i] # e
    BY <1>6 DEF Collected
  <2> QED
    BY <2>1, <2>2, <2>3 DEF ItemInv
<1>9. Stack \cup Walk \subseteq Addrs
  BY Chains
<1> HIDE DEF w, e
<1>10. \A a \in Stack' \cup Walk' : a \in Stack \cup Walk /\ a # w /\ item'[a] = item[a]
  BY <1>2, <1>4, <1>5, <1>9
<1>11. LiveInv'
  BY <1>3, <1>10 DEF BagInv, LiveInv, Free
<1>12. \A u \in Inserters : pc[u] # "idle" =>
         new[u] \in Addrs /\ new[u] # w /\ item'[new[u]] = item[new[u]]
  BY <1>2, <1>5 DEF BagInv, NewInv
<1>13. NewInv'
  BY <1>1, <1>4, <1>12 DEF BagInv, NewInv
<1>14. WalkInv'
  BY <1>1, <1>4 DEF BagInv, WalkInv
<1>15. ItemInv'
  <2>1. \A a \in Addrs : item'[a] # Null => a # w /\ item[a] # Null /\ item'[a] = item[a]
    BY <1>5
  <2>2. \A a \in Addrs : item'[a] # Null => item'[a] # e
    BY <1>2, <1>5, <2>1 DEF ItemInv, Free, e
  <2>3. \A a \in Addrs : item'[a] # Null =>
          item'[a][2] <= count'[item'[a][1]] /\ item'[a] \notin Collected'
    BY <1>1, <1>7, <2>1, <2>2 DEF ItemInv, Free
  <2>4. \A a, b \in Addrs : item'[a] # Null /\ item'[a] = item'[b] => a = b
    BY <2>1 DEF ItemInv, Free
  <2>5. \A a \in Stack' \cup Walk' : item'[a] \in pushed'
    BY <1>1, <1>10 DEF ItemInv
  <2>6. \A u \in Inserters : pc'[u] # "idle" => item'[new'[u]] \notin pushed'
    BY <1>1, <1>12 DEF ItemInv
  <2>7. (\A f \in pushed' : f[2] <= count'[f[1]]) /\ Collected' \subseteq pushed'
    BY <1>1, <1>6, <1>7 DEF ItemInv
  <2> QED
    BY <1>8, <2>3, <2>4, <2>5, <2>6, <2>7 DEF ItemInv, Free
<1>16. PlaceInv'
  <2>1. e \notin missed
    BY <1>2 DEF PlaceInv, e
  <2>2. /\ \A a \in Walk' : item'[a] \notin missed'
        /\ \A a \in Stack' : item'[a] \notin missed'
    BY <1>1, <1>4, <1>10 DEF PlaceInv
  <2>3. missed' \cap Collected' = {}
    BY <1>1, <1>7, <2>1 DEF PlaceInv
  <2>4. ASSUME NEW f \in pushed' \ missed'
        PROVE  \/ f \in Collected'
               \/ \E a \in Walk' : item'[a] = f
               \/ \E a \in Stack' : item'[a] = f
    <3>1. CASE f \in Collected
      BY <1>7, <3>1
    <3>2. ASSUME NEW a \in Walk, item[a] = f PROVE f \in Collected' \/ \E b \in Walk' : item'[b] = f
      BY <1>4, <1>7, <1>10, <3>2 DEF e
    <3>3. ASSUME NEW a \in Stack, item[a] = f PROVE \E b \in Stack' : item'[b] = f
      BY <1>4, <1>10, <3>3
    <3> QED
      BY <1>1, <3>1, <3>2, <3>3 DEF PlaceInv
  <2> QED
    BY <1>1, <2>2, <2>3, <2>4 DEF PlaceInv
<1> QED
  BY <1>11, <1>13, <1>14, <1>15, <1>16 DEF BagInv

-----------------------------------------------------------------------------
LEMMA InitInv ==
  ASSUME Init
  PROVE  Inv
<1> USE BoundsAssumption, NullAssumption
<1>1. TypeOK
  BY DEF Init, TypeOK
<1>2. Stack = {} /\ Walk = {}
  BY <1>1, Chains DEF Init, Stack, Walk
<1>3. collected = <<>> /\ Len(collected) = 0 /\ Collected = {}
  BY DEF Init, Collected
<1>4. BagInv
  BY <1>2 DEF Init, BagInv, LiveInv, NewInv, WalkInv
<1>5. ItemInv
  BY <1>2, <1>3 DEF Init, ItemInv, Free
<1>6. PlaceInv
  BY <1>2, <1>3 DEF Init, PlaceInv
<1> QED
  BY <1>1, <1>4, <1>5, <1>6 DEF Inv

LEMMA StepInv ==
  ASSUME Inv, [Next]_vars
  PROVE  Inv'
<1>1. TypeOK'
  BY TypeStep DEF Inv
<1>2. CASE UNCHANGED vars
  <2>1. UNCHANGED <<head, next, walk, item, pc, count, new, seen, pushed, missed, collector,
                    collected>>
    BY <1>2 DEF vars
  <2>2. /\ Stack' = Stack /\ Walk' = Walk
        /\ \A a \in Stack \cup Walk : Chain(next[a])' = Chain(next[a])
    BY <2>1, SameChains
  <2>3. Collected' = Collected
    BY <2>1 DEF Collected
  <2>4. BagInv'
    BY <2>1, <2>2 DEF Inv, BagInv, LiveInv, NewInv, WalkInv, Free
  <2>5. ItemInv'
    BY <2>1, <2>2, <2>3 DEF Inv, ItemInv, Free
  <2>6. PlaceInv'
    BY <2>1, <2>2, <2>3 DEF Inv, PlaceInv
  <2> QED
    BY <1>1, <2>4, <2>5, <2>6 DEF Inv
<1>3. ASSUME NEW t \in Inserters, Insert(t) PROVE Inv'
  <2>1. CASE InsertNew(t)
    BY <1>1, <2>1, InsertNewInv DEF Inv
  <2>2. CASE InsertLoad(t)
    BY <1>1, <2>2, InsertLoadInv DEF Inv
  <2>3. CASE InsertLink(t)
    BY <1>1, <2>3, InsertLinkInv DEF Inv
  <2>4. CASE InsertCas(t)
    BY <1>1, <2>4, InsertPushInv, InsertAgainInv DEF Inv
  <2> QED
    BY <1>3, <2>1, <2>2, <2>3, <2>4 DEF Insert
<1>4. CASE Collect
  BY <1>1, <1>4, CollectLoadInv, CollectStoreInv, CollectNodeInv, CollectEndInv DEF Inv, Collect
<1> QED
  BY <1>2, <1>3, <1>4 DEF Next, Finished, OutOfMemory

\* The inductive invariant of the theorems below.
THEOREM Invariant == Spec => []Inv
<1>1. Init => Inv
  BY InitInv
<1>2. Inv /\ [Next]_vars => Inv'
  BY StepInv
<1> QED
  BY <1>1, <1>2, PTL DEF Spec

\* ConcBag!TypeOK: no stale or freed value is ever used as a node or an item.
THEOREM TypeInvariant == Spec => []TypeOK
<1>1. Inv => TypeOK
  BY DEF Inv
<1> QED
  BY <1>1, Invariant, PTL

(***************************************************************************)
(* ConcBag!ReachableLive: collect frees only nodes that nobody reaches any *)
(* more, although insert compares addresses that may have been used again. *)
(***************************************************************************)
THEOREM NothingFreedIsReached == Spec => []ReachableLive
<1>1. Inv => ReachableLive
  BY DEF Inv, BagInv, LiveInv, ReachableLive, Stack, Walk
<1> QED
  BY <1>1, Invariant, PTL

(***************************************************************************)
(* ConcBag!Accounted: an item that was pushed is on the stack or collected *)
(* once, except in the window between collect's load and its store.        *)
(***************************************************************************)
THEOREM NothingElseIsLost == Spec => []Accounted
<1>1. Inv => Accounted
  <2> SUFFICES ASSUME Inv PROVE Accounted
    OBVIOUS
  <2> USE DEF Inv
  <2>1. ASSUME NEW e \in pushed \ missed
        PROVE  e \in {item[a] : a \in Chain(head)} \cup Collecting
                       \cup {collected[i] : i \in 1 .. Len(collected)}
    <3>1. CASE e \in Collected
      BY <3>1 DEF Collected
    <3>2. ASSUME NEW a \in Walk, item[a] = e PROVE e \in Collecting
      <4>1. collector # "idle"
        BY Chains DEF BagInv, WalkInv, Walk
      <4> QED
        BY <3>2, <4>1 DEF Collecting, Walk
    <3>3. ASSUME NEW a \in Stack, item[a] = e PROVE e \in {item[b] : b \in Chain(head)}
      BY <3>3 DEF Stack
    <3> QED
      BY <3>1, <3>2, <3>3 DEF PlaceInv
  <2>2. /\ \A i, j \in 1 .. Len(collected) : collected[i] = collected[j] => i = j
        /\ missed \cap {collected[i] : i \in 1 .. Len(collected)} = {}
    BY DEF ItemInv, PlaceInv, Collected
  <2> QED
    BY <2>1, <2>2 DEF Accounted
<1> QED
  BY <1>1, Invariant, PTL
=============================================================================
