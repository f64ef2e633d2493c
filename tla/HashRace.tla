------------------------------ MODULE HashRace ------------------------------
(***************************************************************************)
(* inputs/grin_24c0017: a program to be traced.  Two threads share a hash  *)
(* map behind a RwLock.  Every statement takes the lock for itself, so     *)
(* clear-and-insert is two critical sections and not one.                  *)
(***************************************************************************)
EXTENDS FiniteSets

VARIABLES
  hash,    \* the keys of the map
  main,    \* the statement main is at
  thread,  \* the statement the spawned thread is at
  shown    \* the keys whose values main has printed at its end

vars == <<hash, main, thread, shown>>

Init ==
  /\ hash = {1}
  /\ main = "clear" /\ thread = "clear"
  /\ shown = {}

ThreadClear ==
  /\ thread = "clear" /\ thread' = "insert"
  /\ hash' = {}
  /\ UNCHANGED <<main, shown>>

ThreadInsert ==
  /\ thread = "insert" /\ thread' = "done"
  /\ hash' = hash \cup {2}
  /\ UNCHANGED <<main, shown>>

MainClear ==
  /\ main = "clear" /\ main' = "join"
  /\ hash' = {}
  /\ UNCHANGED <<thread, shown>>

MainJoin ==
  /\ main = "join" /\ main' = "insert"
  /\ thread = "done"
  /\ UNCHANGED <<hash, thread, shown>>

MainInsert ==
  /\ main = "insert" /\ main' = "print"
  /\ hash' = hash \cup {3}
  /\ UNCHANGED <<thread, shown>>

MainPrint ==
  /\ main = "print" /\ main' = "done"
  /\ shown' = hash
  /\ UNCHANGED <<hash, thread>>

Done == main = "done" /\ UNCHANGED vars

Next ==
  \/ ThreadClear \/ ThreadInsert
  \/ MainClear \/ MainJoin \/ MainInsert \/ MainPrint
  \/ Done

Spec == Init /\ [][Next]_vars

-----------------------------------------------------------------------------
(***************************************************************************)
(* "There should be only one value in the hashmap": what main announces    *)
(* before it starts.                                                       *)
(***************************************************************************)
OnlyOneValue == main = "done" => Cardinality(shown) = 1
=============================================================================
