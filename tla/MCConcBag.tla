------------------------------ MODULE MCConcBag ------------------------------
(***************************************************************************)
(* Constants of ConcBag for TLC: two threads that insert, and one address  *)
(* less than they insert items, so that addresses are used again.          *)
(***************************************************************************)
EXTENDS ConcBag

CONSTANTS t1, t2, a1, a2, a3

TwoInserters == {t1, t2}
ThreeAddrs == {a1, a2, a3}
=============================================================================
