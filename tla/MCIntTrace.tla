----------------------------- MODULE MCIntTrace -----------------------------
(***************************************************************************)
(* Constants of IntTrace for TLC: the main thread and two workers.  The    *)
(* buffer holds 7 fields, so that it fills up in the middle of a line.     *)
(***************************************************************************)
EXTENDS IntTrace, TLC

CONSTANTS main, w1, w2

Workers == {w1, w2}
AllThreads == {main} \cup Workers

\* The workers do the same things: runs without liveness may exchange them.
WorkerSymmetry == Permutations(Workers)
=============================================================================
