----------------------------- MODULE MCTraceRun -----------------------------
(***************************************************************************)
(* Constants of TraceRun for TLC: three threads and three ids, of which    *)
(* the second worker may get the one that the first has had, and two       *)
(* variables, of which the second may get the address of the first.        *)
(***************************************************************************)
EXTENDS TraceRun, TLC

CONSTANTS main, w1, w2, i1, i2, i3, v1, v2, a1, a2

AllThreads == {main, w1, w2}
ThreeIds == {i1, i2, i3}
TwoVars == {v1, v2}
TwoAddrs == {a1, a2}

\* None of them is told from another but by being the same.
Symmetry ==
  Permutations({w1, w2}) \cup Permutations(ThreeIds) \cup Permutations(TwoVars)
    \cup Permutations(TwoAddrs)
=============================================================================
