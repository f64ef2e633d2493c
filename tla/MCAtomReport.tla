---------------------------- MODULE MCAtomReport ----------------------------
(***************************************************************************)
(* Constants of AtomReport for TLC.                                        *)
(***************************************************************************)
EXTENDS AtomReport, TLC

CONSTANTS t1, t2, t3, a1, a2

TwoTids == {t1, t2}
ThreeTids == {t1, t2, t3}
TwoAddrs == {a1, a2}

\* Threads and addresses are only compared for equality.
TidAddrSymmetry == Permutations(TwoTids) \cup Permutations(TwoAddrs)
=============================================================================
