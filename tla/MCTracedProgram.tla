-------------------------- MODULE MCTracedProgram --------------------------
(***************************************************************************)
(* Constants of TracedProgram for TLC: two threads that share an address   *)
(* and a lock.                                                             *)
(***************************************************************************)
EXTENDS TracedProgram, TLC

CONSTANTS t1, t2

TwoThreads == {t1, t2}
ThreadSymmetry == Permutations(TwoThreads)
=============================================================================
