--------------------------- MODULE ProbePassProofs ---------------------------
(***************************************************************************)
(* Proofs about the pass, for any program of any number of modules,        *)
(* functions, blocks and instructions.                                     *)
(***************************************************************************)
EXTENDS ProbePass, SequenceTheorems, TLAPS

-----------------------------------------------------------------------------
(* The inductive invariant *)

\* Two programs with the same modules and functions, and as many blocks.
SameFrame(p, q) ==
  /\ Len(q) = Len(p)
  /\ \A m \in 1 .. Len(p) :
       /\ q[m].hashed = p[m].hashed
       /\ Len(q[m].funs) = Len(p[m].funs)
       /\ \A f \in 1 .. Len(p[m].funs) :
            /\ q[m].funs[f].main = p[m].funs[f].main
            /\ q[m].funs[f].own = p[m].funs[f].own
            /\ q[m].funs[f].foreign = p[m].funs[f].foreign
            /\ q[m].funs[f].dir = p[m].funs[f].dir
            /\ Len(q[m].funs[f].blocks) = Len(p[m].funs[f].blocks)

Added == {"_init_", "_probe_", "_probe_lock_"}

\* Whatever is in a block was there before, or was put there by the pass.
FromSource(block, src) ==
  \A j \in 1 .. Len(block) :
    block[j].callee \in Added \cup {"none"} \/ \E k \in 1 .. Len(src) : block[j] = src[k]

\* _init_ is called by the first instruction of main only.
InitFirst(block, first) ==
  \A j \in 1 .. Len(block) : block[j].callee = "_init_" => block[j].op = "call" /\ first /\ j = 1

\* A load is never the last instruction.
Terminated(block) == Len(block) > 0 /\ block[Len(block)].op \in {"invoke", "other"}

BlockInv(block, src, first) ==
  FromSource(block, src) /\ InitFirst(block, first) /\ Terminated(block)

BlocksInv(p, src) ==
  \A m \in 1 .. Len(src) : \A f \in 1 .. Len(src[m].funs) :
    \A b \in 1 .. Len(src[m].funs[f].blocks) :
      BlockInv(BlockOf(p, m, f, b), BlockOf(src, m, f, b), src[m].funs[f].main /\ b = 1)

\* main of module m calls _init_.
Opened(p, src, m) ==
  \A f \in 1 .. Len(src[m].funs) :
    src[m].funs[f].main => BlockOf(p, m, f, 1)[1].callee = "_init_"

\* A module is as it was until it is initialized; now is the module of the pass.
OpenedInv(p, src, now, init) ==
  \A m \in 1 .. Len(src) :
    /\ p[m] = src[m] \/ Opened(p, src, m)
    /\ m > now \/ (m = now /\ ~init) => p[m] = src[m]
    /\ m = now /\ init => Opened(p, src, m)

\* The pass is in a block of a function that it has selected.
PositionInv ==
  /\ ins > 0
  /\ blk > 0 =>
       /\ initial /\ mod <= Len(source) /\ fun <= Len(source[mod].funs)
       /\ Selects(source[mod], source[mod].funs[fun])

PassInv ==
  /\ TypeOK /\ Compiled(source) /\ SameFrame(source, program)
  /\ BlocksInv(program, source) /\ OpenedInv(program, source, mod, initial)
  /\ PositionInv /\ fun > 0

-----------------------------------------------------------------------------
(* Weaving instructions into a block *)

Woven(s, i, before, after) ==
  SubSeq(s, 1, i - 1) \o before \o <<s[i]>> \o after \o SubSeq(s, i + 1, Len(s))

\* u is s followed by t.
Joined(S, u, s, t) ==
  /\ u \in Seq(S) /\ Len(s) \in Nat /\ Len(t) \in Nat /\ Len(u) = Len(s) + Len(t)
  /\ \A j \in 1 .. Len(s) : u[j] = s[j]
  /\ \A j \in 1 .. Len(t) : u[Len(s) + j] = t[j]

LEMMA Concatenation ==
  ASSUME NEW S, NEW s \in Seq(S), NEW t \in Seq(S), NEW u, u = s \o t
  PROVE  Joined(S, u, s, t)
<1>1. /\ u \in Seq(S) /\ Len(u) = Len(s) + Len(t)
      /\ \A j \in 1 .. Len(s) + Len(t) : u[j] = IF j <= Len(s) THEN s[j] ELSE t[j - Len(s)]
  BY ConcatProperties
<1>2. Len(s) \in Nat /\ Len(t) \in Nat
  BY LenProperties
<1>3. \A j \in 1 .. Len(s) : u[j] = s[j]
  BY <1>1, <1>2
<1>4. \A j \in 1 .. Len(t) : u[Len(s) + j] = t[j]
  <2> SUFFICES ASSUME NEW j \in 1 .. Len(t) PROVE u[Len(s) + j] = t[j]
    OBVIOUS
  <2>1. Len(s) + j \in 1 .. Len(s) + Len(t) /\ ~(Len(s) + j <= Len(s)) /\ (Len(s) + j) - Len(s) = j
    BY <1>2
  <2> QED
    BY <1>1, <2>1
<1> QED
  BY <1>1, <1>2, <1>3, <1>4 DEF Joined

\* Where everything is in the block w.
Weft(S, s, i, before, after, w) ==
  LET n == Len(before)
      m == Len(after)
  IN  /\ w \in Seq(S) /\ n \in Nat /\ m \in Nat /\ Len(s) \in Nat
      /\ Len(w) = Len(s) + n + m
      /\ \A j \in 1 .. i - 1 : w[j] = s[j]
      /\ \A j \in 1 .. n : w[i - 1 + j] = before[j]
      /\ w[i + n] = s[i]
      /\ \A j \in 1 .. m : w[i + n + j] = after[j]
      /\ \A j \in 1 .. Len(s) - i : w[i + n + m + j] = s[i + j]

LEMMA WovenProperties ==
  ASSUME NEW S, NEW s \in Seq(S), NEW i \in 1 .. Len(s),
         NEW before \in Seq(S), NEW after \in Seq(S),
         NEW w, w = Woven(s, i, before, after)
  PROVE  Weft(S, s, i, before, after, w)
<1> DEFINE n == Len(before)
           m == Len(after)
           k == Len(s)
           p == SubSeq(s, 1, i - 1)
           r == SubSeq(s, i + 1, k)
           x == <<s[i]>>
<1>1. n \in Nat /\ m \in Nat /\ k \in Nat
  BY LenProperties
<1>2. i \in Nat /\ 1 <= i /\ i <= k
  BY <1>1
<1>3. /\ p \in Seq(S) /\ Len(p) = i - 1
      /\ \A j \in 1 .. i - 1 : p[j] = s[j]
  <2>1. /\ p \in Seq(S)
        /\ Len(p) = IF 1 <= i - 1 THEN i - 1 - 1 + 1 ELSE 0
        /\ \A j \in 1 .. i - 1 - 1 + 1 : p[j] = s[1 + j - 1]
    BY <1>1, SubSeqProperties
  <2> QED
    BY <1>1, <2>1
<1>4. /\ r \in Seq(S) /\ Len(r) = k - i
      /\ \A j \in 1 .. k - i : r[j] = s[i + j]
  <2>1. /\ r \in Seq(S)
        /\ Len(r) = IF i + 1 <= k THEN k - (i + 1) + 1 ELSE 0
        /\ \A j \in 1 .. k - (i + 1) + 1 : r[j] = s[i + 1 + j - 1]
    BY <1>1, SubSeqProperties
  <2> QED
    BY <1>1, <2>1
<1>5. x \in Seq(S) /\ Len(x) = 1 /\ x[1] = s[i]
  BY ElementOfSeq
<1> DEFINE a == p \o before
           b == a \o x
           c == b \o after
<1>6. w = c \o r
  BY DEF Woven
<1> HIDE DEF p, r, x, k, n, m
<1>7. /\ a \in Seq(S) /\ Len(a) = Len(p) + Len(before)
      /\ \A j \in 1 .. Len(p) : a[j] = p[j]
      /\ \A j \in 1 .. Len(before) : a[Len(p) + j] = before[j]
  <2>1. Joined(S, a, p, before)
    BY <1>3, Concatenation
  <2> QED
    BY <2>1 DEF Joined
<1> HIDE DEF a
<1>8. /\ b \in Seq(S) /\ Len(b) = Len(a) + Len(x)
      /\ \A j \in 1 .. Len(a) : b[j] = a[j]
      /\ \A j \in 1 .. Len(x) : b[Len(a) + j] = x[j]
  <2>1. Joined(S, b, a, x)
    BY <1>5, <1>7, Concatenation
  <2> QED
    BY <2>1 DEF Joined
<1> HIDE DEF b
<1>9. /\ c \in Seq(S) /\ Len(c) = Len(b) + Len(after)
      /\ \A j \in 1 .. Len(b) : c[j] = b[j]
      /\ \A j \in 1 .. Len(after) : c[Len(b) + j] = after[j]
  <2>1. Joined(S, c, b, after)
    BY <1>8, Concatenation
  <2> QED
    BY <2>1 DEF Joined
<1> HIDE DEF c
<1>10. /\ w \in Seq(S) /\ Len(w) = Len(c) + Len(r)
       /\ \A j \in 1 .. Len(c) : w[j] = c[j]
       /\ \A j \in 1 .. Len(r) : w[Len(c) + j] = r[j]
  <2>1. Joined(S, w, c, r)
    BY <1>4, <1>6, <1>9, Concatenation
  <2> QED
    BY <2>1 DEF Joined
<1>11. Len(a) = i - 1 + n /\ Len(b) = i + n /\ Len(c) = i + n + m /\ Len(w) = k + n + m
  BY <1>1, <1>2, <1>3, <1>4, <1>5, <1>7, <1>8, <1>9, <1>10 DEF n, m
<1>12. ASSUME NEW j \in 1 .. i - 1 PROVE w[j] = s[j]
  <2>1. j \in 1 .. Len(p) /\ j \in 1 .. Len(a) /\ j \in 1 .. Len(b) /\ j \in 1 .. Len(c)
    BY <1>1, <1>2, <1>3, <1>11
  <2> QED
    BY <1>3, <1>7, <1>8, <1>9, <1>10, <2>1
<1>13. ASSUME NEW j \in 1 .. n PROVE w[i - 1 + j] = before[j]
  <2>1. /\ i - 1 + j \in 1 .. Len(a) /\ i - 1 + j \in 1 .. Len(b) /\ i - 1 + j \in 1 .. Len(c)
        /\ i - 1 + j = Len(p) + j
    BY <1>1, <1>2, <1>3, <1>11
  <2>2. w[i - 1 + j] = b[i - 1 + j]
    BY <1>9, <1>10, <2>1
  <2>3. b[i - 1 + j] = a[Len(p) + j]
    BY <1>8, <2>1
  <2>4. a[Len(p) + j] = before[j]
    BY <1>7 DEF n
  <2> QED
    BY <2>2, <2>3, <2>4
<1>14. w[i + n] = s[i]
  <2>1. i + n \in 1 .. Len(b) /\ i + n \in 1 .. Len(c) /\ i + n = Len(a) + 1 /\ 1 \in 1 .. Len(x)
    BY <1>1, <1>2, <1>5, <1>11
  <2> QED
    BY <1>5, <1>8, <1>9, <1>10, <2>1
<1>15. ASSUME NEW j \in 1 .. m PROVE w[i + n + j] = after[j]
  <2>1. i + n + j \in 1 .. Len(c) /\ i + n + j = Len(b) + j
    BY <1>1, <1>2, <1>11
  <2> QED
    BY <1>9, <1>10, <2>1 DEF m
<1>16. ASSUME NEW j \in 1 .. k - i PROVE w[i + n + m + j] = s[i + j]
  <2>1. i + n + m + j = Len(c) + j /\ j \in 1 .. Len(r)
    BY <1>1, <1>2, <1>4, <1>11
  <2> QED
    BY <1>4, <1>10, <2>1
<1> QED
  BY <1>1, <1>10, <1>11, <1>12, <1>13, <1>14, <1>15, <1>16 DEF k, n, m, Weft

\* Where instruction j of the new block w comes from.
Origin(s, i, before, after, w, j) ==
  \/ j < i /\ w[j] = s[j]
  \/ \E k \in 1 .. Len(before) : w[j] = before[k]
  \/ j = i + Len(before) /\ w[j] = s[i]
  \/ \E k \in 1 .. Len(after) : w[j] = after[k]
  \/ \E k \in 1 .. Len(s) : k > i /\ w[j] = s[k]

LEMMA WovenCases ==
  ASSUME NEW S, NEW s \in Seq(S), NEW i \in 1 .. Len(s),
         NEW before \in Seq(S), NEW after \in Seq(S),
         NEW w, w = Woven(s, i, before, after),
         NEW j \in 1 .. Len(w)
  PROVE  Origin(s, i, before, after, w, j)
<1> DEFINE n == Len(before)
           m == Len(after)
<1>1. /\ w \in Seq(S) /\ n \in Nat /\ m \in Nat /\ Len(s) \in Nat
      /\ Len(w) = Len(s) + n + m
      /\ \A l \in 1 .. i - 1 : w[l] = s[l]
      /\ \A l \in 1 .. n : w[i - 1 + l] = before[l]
      /\ w[i + n] = s[i]
      /\ \A l \in 1 .. m : w[i + n + l] = after[l]
      /\ \A l \in 1 .. Len(s) - i : w[i + n + m + l] = s[i + l]
  <2>1. Weft(S, s, i, before, after, w)
    BY WovenProperties
  <2> QED
    BY <2>1 DEF Weft
<1>2. /\ j \in Nat /\ 1 <= j /\ j <= Len(s) + n + m
      /\ i \in Nat /\ 1 <= i /\ i <= Len(s)
  BY <1>1
<1> HIDE DEF n, m
<1>3. CASE j < i
  BY <1>1, <1>2, <1>3 DEF Origin
<1>4. CASE j >= i /\ j < i + n
  <2>1. j - i + 1 \in 1 .. n /\ j = i - 1 + (j - i + 1)
    BY <1>1, <1>2, <1>4
  <2>2. w[j] = before[j - i + 1]
    BY <1>1, <2>1
  <2> QED
    BY <2>1, <2>2 DEF n, Origin
<1>5. CASE j = i + n
  BY <1>1, <1>5 DEF n, Origin
<1>6. CASE j > i + n /\ j <= i + n + m
  <2>1. j - i - n \in 1 .. m /\ j = i + n + (j - i - n)
    BY <1>1, <1>2, <1>6
  <2>2. w[j] = after[j - i - n]
    BY <1>1, <2>1
  <2> QED
    BY <2>1, <2>2 DEF m, Origin
<1>7. CASE j > i + n + m
  <2>1. j - i - n - m \in 1 .. Len(s) - i /\ j = i + n + m + (j - i - n - m)
    BY <1>1, <1>2, <1>7
  <2>2. w[j] = s[i + (j - i - n - m)]
    BY <1>1, <2>1
  <2>3. i + (j - i - n - m) \in 1 .. Len(s) /\ i + (j - i - n - m) > i
    BY <1>1, <2>1
  <2> QED
    BY <2>2, <2>3 DEF Origin
<1> QED
  BY <1>1, <1>2, <1>3, <1>4, <1>5, <1>6, <1>7

-----------------------------------------------------------------------------
(* Changing a block of a program *)

WithBlock(q, m, f, b, w) == [q EXCEPT ![m].funs[f].blocks[b] = w]

\* r is q but for block b of function f of module m, which is w.
OneBlock(q, r, m, f, b, w) ==
  /\ r \in Seq(Modules) /\ SameFrame(q, r)
  /\ BlockOf(r, m, f, b) = w
  /\ \A n \in 1 .. Len(q) : n # m => r[n] = q[n]
  /\ \A g \in 1 .. Len(q[m].funs) : \A c \in 1 .. Len(q[m].funs[g].blocks) :
       g # f \/ c # b => BlockOf(r, m, g, c) = BlockOf(q, m, g, c)

LEMMA SetBlock ==
  ASSUME NEW q \in Seq(Modules), NEW m \in 1 .. Len(q), NEW f \in 1 .. Len(q[m].funs),
         NEW b \in 1 .. Len(q[m].funs[f].blocks), NEW w \in Seq(Instructions),
         NEW r, r = WithBlock(q, m, f, b, w)
  PROVE  OneBlock(q, r, m, f, b, w)
<1> DEFINE M == q[m]
           F0 == M.funs[f]
           B2 == [F0.blocks EXCEPT ![b] = w]
           F2 == [F0 EXCEPT !.blocks = B2]
           G2 == [M.funs EXCEPT ![f] = F2]
           M2 == [M EXCEPT !.funs = G2]
<1>1. r = [q EXCEPT ![m] = M2]
  BY DEF WithBlock
<1>2. M \in Modules /\ M.funs \in Seq(Functions)
  <2>1. M \in Modules
    BY ElementOfSeq
  <2> QED
    BY <2>1 DEF Modules
<1>3. F0 \in Functions /\ F0.blocks \in Seq(Seq(Instructions))
  <2>1. F0 \in Functions
    BY <1>2, ElementOfSeq
  <2> QED
    BY <2>1 DEF Functions
<1>4. /\ B2 \in Seq(Seq(Instructions)) /\ Len(B2) = Len(F0.blocks) /\ B2[b] = w
      /\ \A c \in 1 .. Len(F0.blocks) : c # b => B2[c] = F0.blocks[c]
  BY <1>3, ExceptSeq
<1> HIDE DEF B2
<1>5. /\ F2 \in Functions /\ F2.blocks = B2
      /\ F2.main = F0.main /\ F2.own = F0.own /\ F2.foreign = F0.foreign /\ F2.dir = F0.dir
  BY <1>3, <1>4 DEF Functions
<1> HIDE DEF F2
<1>6. /\ G2 \in Seq(Functions) /\ Len(G2) = Len(M.funs) /\ G2[f] = F2
      /\ \A g \in 1 .. Len(M.funs) : g # f => G2[g] = M.funs[g]
  BY <1>2, <1>5, ExceptSeq
<1> HIDE DEF G2
<1>7. M2 \in Modules /\ M2.funs = G2 /\ M2.hashed = M.hashed
  BY <1>2, <1>6 DEF Modules
<1> HIDE DEF M2
<1>8. /\ r \in Seq(Modules) /\ Len(r) = Len(q) /\ r[m] = M2
      /\ \A n \in 1 .. Len(q) : n # m => r[n] = q[n]
  <2>1. /\ [q EXCEPT ![m] = M2] \in Seq(Modules)
        /\ Len([q EXCEPT ![m] = M2]) = Len(q)
        /\ \A n \in 1 .. Len(q) : [q EXCEPT ![m] = M2][n] = IF n = m THEN M2 ELSE q[n]
    BY <1>7, ExceptSeq
  <2> QED
    BY <1>1, <2>1
<1>9. SameFrame(q, r)
  <2> SUFFICES ASSUME NEW n \in 1 .. Len(q)
               PROVE  /\ r[n].hashed = q[n].hashed
                      /\ Len(r[n].funs) = Len(q[n].funs)
                      /\ \A g \in 1 .. Len(q[n].funs) :
                           /\ r[n].funs[g].main = q[n].funs[g].main
                           /\ r[n].funs[g].own = q[n].funs[g].own
                           /\ r[n].funs[g].foreign = q[n].funs[g].foreign
                           /\ r[n].funs[g].dir = q[n].funs[g].dir
                           /\ Len(r[n].funs[g].blocks) = Len(q[n].funs[g].blocks)
    BY <1>8 DEF SameFrame
  <2>1. CASE n # m
    BY <1>8, <2>1
  <2>2. CASE n = m
    <3>1. r[n].hashed = q[n].hashed /\ r[n].funs = G2 /\ Len(r[n].funs) = Len(q[n].funs)
      BY <1>6, <1>7, <1>8, <2>2
    <3>2. ASSUME NEW g \in 1 .. Len(q[n].funs), g # f PROVE r[n].funs[g] = q[n].funs[g]
      BY <1>6, <2>2, <3>1, <3>2
    <3>3. /\ r[n].funs[f].main = q[n].funs[f].main
          /\ r[n].funs[f].own = q[n].funs[f].own
          /\ r[n].funs[f].foreign = q[n].funs[f].foreign
          /\ r[n].funs[f].dir = q[n].funs[f].dir
          /\ Len(r[n].funs[f].blocks) = Len(q[n].funs[f].blocks)
      BY <1>4, <1>5, <1>6, <2>2, <3>1
    <3> QED
      BY <3>1, <3>2, <3>3
  <2> QED
    BY <2>1, <2>2
<1>10. BlockOf(r, m, f, b) = w
  BY <1>4, <1>5, <1>6, <1>7, <1>8 DEF BlockOf
<1>11. \A g \in 1 .. Len(q[m].funs) : \A c \in 1 .. Len(q[m].funs[g].blocks) :
         g # f \/ c # b => BlockOf(r, m, g, c) = BlockOf(q, m, g, c)
  <2> SUFFICES ASSUME NEW g \in 1 .. Len(q[m].funs), NEW c \in 1 .. Len(q[m].funs[g].blocks),
                      g # f \/ c # b
               PROVE  BlockOf(r, m, g, c) = BlockOf(q, m, g, c)
    OBVIOUS
  <2>1. r[m].funs[g] = G2[g]
    BY <1>7, <1>8
  <2>2. CASE g # f
    BY <1>6, <2>1, <2>2 DEF BlockOf
  <2>3. CASE g = f
    <3>1. r[m].funs[g].blocks = B2
      BY <1>5, <1>6, <2>1, <2>3
    <3>2. B2[c] = F0.blocks[c]
      BY <1>4, <2>3
    <3> QED
      BY <2>3, <3>1, <3>2 DEF BlockOf
  <2> QED
    BY <2>2, <2>3
<1> QED
  BY <1>8, <1>9, <1>10, <1>11 DEF OneBlock

-----------------------------------------------------------------------------
(* What the pass does to a block keeps its invariant *)

Harmless(s) == \A k \in 1 .. Len(s) : s[k].callee \in {"_probe_", "_probe_lock_", "none"}

\* w is what has become of the block s.
BlockKept(w, s, src, first) ==
  /\ w \in Seq(Instructions) /\ BlockInv(w, src, first)
  /\ s[1].callee = "_init_" => w[1].callee = "_init_"

LEMMA WovenBlock ==
  ASSUME NEW s \in Seq(Instructions), NEW src, NEW first \in BOOLEAN,
         BlockInv(s, src, first),
         NEW i \in 1 .. Len(s),
         NEW before \in Seq(Instructions), Harmless(before),
         NEW after \in Seq(Instructions), Harmless(after),
         s[i].callee = "_init_" => before = <<>>,
         after = <<>> \/ s[i].op = "load",
         NEW w, w = Woven(s, i, before, after)
  PROVE  BlockKept(w, s, src, first)
<1>1. Weft(Instructions, s, i, before, after, w)
  BY WovenProperties
<1> DEFINE n == Len(before)
           m == Len(after)
           k == Len(s)
<1>2. /\ w \in Seq(Instructions) /\ n \in Nat /\ m \in Nat /\ k \in Nat
      /\ Len(w) = k + n + m /\ w[i + n] = s[i]
      /\ \A j \in 1 .. i - 1 : w[j] = s[j]
      /\ \A j \in 1 .. k - i : w[i + n + m + j] = s[i + j]
      /\ i \in 1 .. k
  BY <1>1 DEF Weft
<1>3. (before = <<>> => n = 0) /\ (after = <<>> => m = 0)
  OBVIOUS
<1>4. ASSUME NEW j \in 1 .. Len(w)
      PROVE  \/ j < i /\ w[j] = s[j]
             \/ w[j].callee \in {"_probe_", "_probe_lock_", "none"}
             \/ j = i + n /\ w[j] = s[i]
             \/ \E l \in 1 .. k : l > i /\ w[j] = s[l]
  <2>1. Origin(s, i, before, after, w, j)
    BY WovenCases
  <2> QED
    BY <2>1 DEF Origin, Harmless
<1> HIDE DEF n, m, k
<1>5. FromSource(w, src)
  <2> SUFFICES ASSUME NEW j \in 1 .. Len(w)
               PROVE  w[j].callee \in Added \cup {"none"} \/ \E l \in 1 .. Len(src) : w[j] = src[l]
    BY DEF FromSource
  <2>1. \A l \in 1 .. k :
          s[l].callee \in Added \cup {"none"} \/ \E h \in 1 .. Len(src) : s[l] = src[h]
    BY DEF BlockInv, FromSource, k
  <2>2. j < i => j \in 1 .. k
    BY <1>2
  <2>3. CASE j < i /\ w[j] = s[j]
    BY <2>1, <2>2, <2>3
  <2>4. CASE w[j].callee \in {"_probe_", "_probe_lock_", "none"}
    BY <2>4 DEF Added
  <2>5. CASE w[j] = s[i]
    BY <1>2, <2>1, <2>5
  <2>6. CASE \E l \in 1 .. k : l > i /\ w[j] = s[l]
    BY <2>1, <2>6
  <2> QED
    BY <1>4, <2>3, <2>4, <2>5, <2>6
<1>6. \A l \in 1 .. k : s[l].callee = "_init_" => s[l].op = "call" /\ first /\ l = 1
  BY DEF BlockInv, InitFirst, k
<1>7. InitFirst(w, first)
  <2> SUFFICES ASSUME NEW j \in 1 .. Len(w), w[j].callee = "_init_"
               PROVE  w[j].op = "call" /\ first /\ j = 1
    BY DEF InitFirst
  <2>1. CASE j < i /\ w[j] = s[j]
    <3>1. j \in 1 .. k
      BY <1>2, <2>1
    <3> QED
      BY <1>6, <2>1, <3>1
  <2>2. CASE j = i + n /\ w[j] = s[i]
    BY <1>2, <1>3, <1>6, <2>2
  <2>3. ASSUME NEW l \in 1 .. k, l > i, w[j] = s[l] PROVE FALSE
    BY <1>2, <1>6, <2>3
  <2> QED
    BY <1>4, <2>1, <2>2, <2>3
<1>8. k > 0 /\ s[k].op \in {"invoke", "other"}
  BY DEF BlockInv, Terminated, k
<1>9. Terminated(w)
  <2>1. Len(w) > 0
    BY <1>2
  <2>2. CASE i < k
    <3>1. k - i \in 1 .. k - i /\ i + n + m + (k - i) = Len(w) /\ i + (k - i) = k
      BY <1>2, <2>2
    <3>2. w[i + n + m + (k - i)] = s[i + (k - i)]
      BY <1>2, <3>1
    <3> QED
      BY <1>8, <2>1, <3>1, <3>2 DEF Terminated
  <2>3. CASE i = k
    <3>1. m = 0
      BY <1>3, <1>8, <2>3
    <3>2. i + n = Len(w)
      BY <1>2, <2>3, <3>1
    <3> QED
      BY <1>2, <1>8, <2>1, <2>3, <3>2 DEF Terminated
  <2> QED
    BY <1>2, <2>2, <2>3
<1>10. s[1].callee = "_init_" => w[1].callee = "_init_"
  <2>1. CASE i = 1
    BY <1>2, <1>3, <2>1
  <2>2. CASE i > 1
    <3>1. 1 \in 1 .. i - 1
      BY <1>2, <2>2
    <3> QED
      BY <1>2, <3>1
  <2> QED
    BY <1>2, <2>1, <2>2
<1> QED
  BY <1>2, <1>5, <1>7, <1>9, <1>10 DEF BlockInv, BlockKept

\* A block as the compiler makes it.
Plain(s) ==
  /\ Len(s) > 0 /\ s[Len(s)].op \in {"invoke", "other"}
  /\ \A k \in 1 .. Len(s) : s[k].callee \notin Added

LEMMA PlainBlock ==
  ASSUME NEW s, Plain(s), NEW first
  PROVE  BlockInv(s, s, first)
BY DEF Plain, BlockInv, FromSource, InitFirst, Terminated, Added

LEMMA InitializedBlock ==
  ASSUME NEW s \in Seq(Instructions), Plain(s), NEW loc \in BOOLEAN,
         NEW w, w = <<Inserted("call", "_init_", loc)>> \o s
  PROVE  w \in Seq(Instructions) /\ BlockInv(w, s, TRUE) /\ w[1].callee = "_init_"
<1> DEFINE x == Inserted("call", "_init_", loc)
<1>1. x \in Instructions /\ x.callee = "_init_" /\ x.op = "call"
  BY DEF Inserted, Instructions, Opcodes, Callees
<1> HIDE DEF x
<1>2. <<x>> \in Seq(Instructions) /\ Len(<<x>>) = 1 /\ <<x>>[1] = x
  BY <1>1
<1>3. Joined(Instructions, w, <<x>>, s)
  BY <1>2, Concatenation DEF x
<1>4. /\ w \in Seq(Instructions) /\ Len(s) \in Nat /\ Len(w) = 1 + Len(s)
      /\ w[1] = x /\ \A j \in 1 .. Len(s) : w[1 + j] = s[j]
  BY <1>2, <1>3 DEF Joined
<1>5. \A j \in 1 .. Len(w) : w[j] = x \/ \E k \in 1 .. Len(s) : w[j] = s[k]
  <2> SUFFICES ASSUME NEW j \in 1 .. Len(w), j # 1
               PROVE  \E k \in 1 .. Len(s) : w[j] = s[k]
    BY <1>4
  <2>1. j - 1 \in 1 .. Len(s) /\ 1 + (j - 1) = j
    BY <1>4
  <2> QED
    BY <1>4, <2>1
<1>6. FromSource(w, s)
  BY <1>1, <1>5 DEF FromSource, Added
<1>7. InitFirst(w, TRUE)
  <2> SUFFICES ASSUME NEW j \in 1 .. Len(w), j # 1 PROVE w[j].callee # "_init_"
    BY <1>1, <1>4 DEF InitFirst
  <2>1. j - 1 \in 1 .. Len(s) /\ 1 + (j - 1) = j
    BY <1>4
  <2>2. w[j] = s[j - 1]
    BY <1>4, <2>1
  <2> QED
    BY <2>1, <2>2 DEF Plain, Added
<1>8. Terminated(w)
  <2>1. Len(s) \in 1 .. Len(s) /\ Len(s) > 0
    BY <1>4 DEF Plain
  <2>2. w[1 + Len(s)] = s[Len(s)]
    BY <1>4, <2>1
  <2> QED
    BY <1>4, <2>1, <2>2 DEF Terminated, Plain
<1> QED
  BY <1>1, <1>4, <1>6, <1>7, <1>8 DEF BlockInv

-----------------------------------------------------------------------------
(* Initializing a module of a program *)

LEMMA Parts ==
  ASSUME NEW p \in Seq(Modules), NEW m \in 1 .. Len(p), NEW f \in 1 .. Len(p[m].funs)
  PROVE  /\ p[m] \in Modules /\ p[m].funs[f] \in Functions
         /\ p[m].funs[f].main \in BOOLEAN
         /\ p[m].funs[f].blocks \in Seq(Seq(Instructions))
         /\ \A b \in 1 .. Len(p[m].funs[f].blocks) : BlockOf(p, m, f, b) \in Seq(Instructions)
<1>1. p[m] \in Modules
  BY ElementOfSeq
<1>2. p[m].funs \in Seq(Functions)
  BY <1>1 DEF Modules
<1>3. p[m].funs[f] \in Functions
  BY <1>2, ElementOfSeq
<1>4. p[m].funs[f].main \in BOOLEAN /\ p[m].funs[f].blocks \in Seq(Seq(Instructions))
  BY <1>3 DEF Functions
<1>5. ASSUME NEW b \in 1 .. Len(p[m].funs[f].blocks)
      PROVE  BlockOf(p, m, f, b) \in Seq(Instructions)
  <2>1. p[m].funs[f].blocks[b] \in Seq(Instructions)
    BY <1>4, ElementOfSeq
  <2> QED
    BY <2>1 DEF BlockOf
<1> QED
  BY <1>1, <1>3, <1>4, <1>5

LEMMA InitializedFunction ==
  ASSUME NEW fn \in Functions, Len(fn.blocks) > 0, Len(fn.blocks[1]) > 0,
         NEW g, g = CallingInit(fn)
  PROVE  /\ g \in Functions
         /\ g.main = fn.main /\ g.own = fn.own /\ g.foreign = fn.foreign /\ g.dir = fn.dir
         /\ Len(g.blocks) = Len(fn.blocks)
         /\ fn.main => \E loc \in BOOLEAN :
              g.blocks[1] = <<Inserted("call", "_init_", loc)>> \o fn.blocks[1]
         /\ \A c \in 1 .. Len(fn.blocks) : ~fn.main \/ c # 1 => g.blocks[c] = fn.blocks[c]
<1>1. fn.blocks \in Seq(Seq(Instructions)) /\ fn.main \in BOOLEAN
  BY DEF Functions
<1>2. CASE ~fn.main
  BY <1>1, <1>2 DEF CallingInit
<1>3. CASE fn.main
  <2> DEFINE loc == fn.blocks[1][1].loc
             w == <<Inserted("call", "_init_", loc)>> \o fn.blocks[1]
             B2 == [fn.blocks EXCEPT ![1] = w]
  <2>1. 1 \in 1 .. Len(fn.blocks) /\ fn.blocks[1] \in Seq(Instructions)
    <3>1. 1 \in 1 .. Len(fn.blocks)
      BY <1>1, LenProperties
    <3> QED
      BY <1>1, <3>1, ElementOfSeq
  <2>2. loc \in BOOLEAN
    <3>1. 1 \in 1 .. Len(fn.blocks[1])
      BY <2>1, LenProperties
    <3>2. fn.blocks[1][1] \in Instructions
      BY <2>1, <3>1, ElementOfSeq
    <3> QED
      BY <3>2 DEF Instructions
  <2> HIDE DEF loc
  <2>3. w \in Seq(Instructions)
    <3>1. Inserted("call", "_init_", loc) \in Instructions
      BY <2>2 DEF Inserted, Instructions, Opcodes, Callees
    <3>2. <<Inserted("call", "_init_", loc)>> \in Seq(Instructions)
      BY <3>1
    <3>3. Joined(Instructions, w, <<Inserted("call", "_init_", loc)>>, fn.blocks[1])
      BY <2>1, <3>2, Concatenation
    <3> QED
      BY <3>3 DEF Joined
  <2>4. g = [fn EXCEPT !.blocks = B2]
    BY <1>3 DEF CallingInit, loc
  <2> HIDE DEF w
  <2>5. /\ B2 \in Seq(Seq(Instructions)) /\ Len(B2) = Len(fn.blocks) /\ B2[1] = w
        /\ \A c \in 1 .. Len(fn.blocks) : c # 1 => B2[c] = fn.blocks[c]
    BY <1>1, <2>1, <2>3, ExceptSeq
  <2> HIDE DEF B2
  <2>6. /\ g \in Functions /\ g.blocks = B2
        /\ g.main = fn.main /\ g.own = fn.own /\ g.foreign = fn.foreign /\ g.dir = fn.dir
    BY <2>4, <2>5 DEF Functions
  <2> QED
    BY <1>3, <2>2, <2>5, <2>6 DEF w
<1> QED
  BY <1>1, <1>2, <1>3

\* r is q but for module m, whose main begins with a call of _init_.
InitializedIn(q, r, m) ==
  /\ r \in Seq(Modules) /\ SameFrame(q, r)
  /\ \A n \in 1 .. Len(q) : n # m => r[n] = q[n]
  /\ \A g \in 1 .. Len(q[m].funs) :
       /\ q[m].funs[g].main => \E loc \in BOOLEAN :
            BlockOf(r, m, g, 1) = <<Inserted("call", "_init_", loc)>> \o BlockOf(q, m, g, 1)
       /\ \A c \in 1 .. Len(q[m].funs[g].blocks) :
            ~q[m].funs[g].main \/ c # 1 => BlockOf(r, m, g, c) = BlockOf(q, m, g, c)

LEMMA InitializedModule ==
  ASSUME NEW q \in Seq(Modules), NEW m \in 1 .. Len(q),
         \A f \in 1 .. Len(q[m].funs) :
           Len(q[m].funs[f].blocks) > 0 /\ Len(BlockOf(q, m, f, 1)) > 0,
         NEW r, r = [q EXCEPT ![m] = Initialized(q[m])]
  PROVE  InitializedIn(q, r, m)
<1> DEFINE M == q[m]
           G2 == [k \in DOMAIN M.funs |-> CallingInit(M.funs[k])]
           M2 == [M EXCEPT !.funs = G2]
<1>1. r = [q EXCEPT ![m] = M2]
  BY DEF Initialized
<1>2. M \in Modules /\ M.funs \in Seq(Functions) /\ Len(M.funs) \in Nat
  <2>1. M \in Modules
    BY ElementOfSeq
  <2>2. M.funs \in Seq(Functions)
    BY <2>1 DEF Modules
  <2> QED
    BY <2>1, <2>2, LenProperties
<1>3. ASSUME NEW k \in 1 .. Len(M.funs)
      PROVE  LET fn == M.funs[k]
                 g  == CallingInit(fn)
             IN  /\ g \in Functions
                 /\ g.main = fn.main /\ g.own = fn.own /\ g.foreign = fn.foreign /\ g.dir = fn.dir
                 /\ Len(g.blocks) = Len(fn.blocks)
                 /\ fn.main => \E loc \in BOOLEAN :
                      g.blocks[1] = <<Inserted("call", "_init_", loc)>> \o fn.blocks[1]
                 /\ \A c \in 1 .. Len(fn.blocks) : ~fn.main \/ c # 1 => g.blocks[c] = fn.blocks[c]
  <2>1. M.funs[k] \in Functions /\ Len(M.funs[k].blocks) > 0 /\ Len(M.funs[k].blocks[1]) > 0
    BY <1>2, ElementOfSeq DEF BlockOf
  <2> HIDE DEF M
  <2> QED
    BY <2>1, InitializedFunction
<1>4. /\ G2 \in Seq(Functions) /\ Len(G2) = Len(M.funs)
      /\ \A k \in 1 .. Len(M.funs) : G2[k] = CallingInit(M.funs[k])
  <2>1. DOMAIN M.funs = 1 .. Len(M.funs)
    BY <1>2
  <2>2. G2 = [k \in 1 .. Len(M.funs) |-> CallingInit(M.funs[k])]
    BY <2>1
  <2>3. \A k \in 1 .. Len(M.funs) : CallingInit(M.funs[k]) \in Functions
    BY <1>3
  <2> HIDE DEF M
  <2> QED
    BY <1>2, <2>2, <2>3, IsASeq
<1> HIDE DEF G2
<1>5. M2 \in Modules /\ M2.funs = G2 /\ M2.hashed = M.hashed
  BY <1>2, <1>4 DEF Modules
<1> HIDE DEF M2
<1>6. /\ r \in Seq(Modules) /\ Len(r) = Len(q) /\ r[m] = M2
      /\ \A n \in 1 .. Len(q) : n # m => r[n] = q[n]
  <2>1. /\ [q EXCEPT ![m] = M2] \in Seq(Modules)
        /\ Len([q EXCEPT ![m] = M2]) = Len(q)
        /\ \A n \in 1 .. Len(q) : [q EXCEPT ![m] = M2][n] = IF n = m THEN M2 ELSE q[n]
    BY <1>5, ExceptSeq
  <2> QED
    BY <1>1, <2>1
<1>7. SameFrame(q, r)
  <2> SUFFICES ASSUME NEW n \in 1 .. Len(q)
               PROVE  /\ r[n].hashed = q[n].hashed
                      /\ Len(r[n].funs) = Len(q[n].funs)
                      /\ \A g \in 1 .. Len(q[n].funs) :
                           /\ r[n].funs[g].main = q[n].funs[g].main
                           /\ r[n].funs[g].own = q[n].funs[g].own
                           /\ r[n].funs[g].foreign = q[n].funs[g].foreign
                           /\ r[n].funs[g].dir = q[n].funs[g].dir
                           /\ Len(r[n].funs[g].blocks) = Len(q[n].funs[g].blocks)
    BY <1>6 DEF SameFrame
  <2>1. CASE n # m
    BY <1>6, <2>1
  <2>2. CASE n = m
    BY <1>3, <1>4, <1>5, <1>6, <2>2
  <2> QED
    BY <2>1, <2>2
<1>8. ASSUME NEW g \in 1 .. Len(q[m].funs)
      PROVE  /\ q[m].funs[g].main => \E loc \in BOOLEAN :
                  BlockOf(r, m, g, 1) = <<Inserted("call", "_init_", loc)>> \o BlockOf(q, m, g, 1)
             /\ \A c \in 1 .. Len(q[m].funs[g].blocks) :
                  ~q[m].funs[g].main \/ c # 1 => BlockOf(r, m, g, c) = BlockOf(q, m, g, c)
  <2>1. r[m].funs[g] = CallingInit(q[m].funs[g])
    BY <1>4, <1>5, <1>6
  <2> QED
    BY <1>3, <2>1 DEF BlockOf
<1> QED
  BY <1>6, <1>7, <1>8 DEF InitializedIn

-----------------------------------------------------------------------------
(* Facts that the actions share *)

LEMMA SameFrameTransitive ==
  ASSUME NEW p, NEW q, NEW r, SameFrame(p, q), SameFrame(q, r)
  PROVE  SameFrame(p, r)
<1>1. Len(q) = Len(p) /\ Len(r) = Len(p)
  BY DEF SameFrame
<1>2. ASSUME NEW m \in 1 .. Len(p)
      PROVE  /\ r[m].hashed = p[m].hashed
             /\ Len(r[m].funs) = Len(p[m].funs)
             /\ \A f \in 1 .. Len(p[m].funs) :
                  /\ r[m].funs[f].main = p[m].funs[f].main
                  /\ r[m].funs[f].own = p[m].funs[f].own
                  /\ r[m].funs[f].foreign = p[m].funs[f].foreign
                  /\ r[m].funs[f].dir = p[m].funs[f].dir
                  /\ Len(r[m].funs[f].blocks) = Len(p[m].funs[f].blocks)
  <2>1. /\ q[m].hashed = p[m].hashed /\ r[m].hashed = q[m].hashed
        /\ Len(q[m].funs) = Len(p[m].funs) /\ Len(r[m].funs) = Len(q[m].funs)
    BY <1>1 DEF SameFrame
  <2>2. ASSUME NEW f \in 1 .. Len(p[m].funs)
        PROVE  /\ r[m].funs[f].main = p[m].funs[f].main
               /\ r[m].funs[f].own = p[m].funs[f].own
               /\ r[m].funs[f].foreign = p[m].funs[f].foreign
               /\ r[m].funs[f].dir = p[m].funs[f].dir
               /\ Len(r[m].funs[f].blocks) = Len(p[m].funs[f].blocks)
    <3>1. /\ q[m].funs[f].main = p[m].funs[f].main
          /\ q[m].funs[f].own = p[m].funs[f].own
          /\ q[m].funs[f].foreign = p[m].funs[f].foreign
          /\ q[m].funs[f].dir = p[m].funs[f].dir
          /\ Len(q[m].funs[f].blocks) = Len(p[m].funs[f].blocks)
      BY DEF SameFrame
    <3>2. /\ r[m].funs[f].main = q[m].funs[f].main
          /\ r[m].funs[f].own = q[m].funs[f].own
          /\ r[m].funs[f].foreign = q[m].funs[f].foreign
          /\ r[m].funs[f].dir = q[m].funs[f].dir
          /\ Len(r[m].funs[f].blocks) = Len(q[m].funs[f].blocks)
      <4>1. m \in 1 .. Len(q) /\ f \in 1 .. Len(q[m].funs)
        BY <1>1, <2>1
      <4> QED
        BY <4>1 DEF SameFrame
    <3> QED
      BY <3>1, <3>2
  <2> QED
    BY <2>1, <2>2
<1> QED
  BY <1>1, <1>2 DEF SameFrame

\* The position, seen in the source.
LEMMA Here ==
  ASSUME PassInv, InFunction
  PROVE  /\ mod \in 1 .. Len(program) /\ mod \in 1 .. Len(source)
         /\ fun \in 1 .. Len(program[mod].funs) /\ fun \in 1 .. Len(source[mod].funs)
         /\ Selects(program[mod], F) <=> Selects(source[mod], source[mod].funs[fun])
<1>1. mod \in Nat /\ 1 <= mod /\ fun \in Nat /\ fun > 0 /\ mod <= Len(program)
  BY DEF PassInv, TypeOK, InFunction, InModule
<1>2. SameFrame(source, program) /\ source \in Seq(Modules) /\ program \in Seq(Modules)
  BY DEF PassInv, TypeOK
<1>3. mod \in 1 .. Len(program) /\ Len(program) = Len(source)
  BY <1>1, <1>2, LenProperties DEF SameFrame
<1>4. Len(program[mod].funs) = Len(source[mod].funs)
  BY <1>2, <1>3 DEF SameFrame
<1>5. program[mod].funs \in Seq(Functions)
  <2>1. program[mod] \in Modules
    BY <1>2, <1>3, ElementOfSeq
  <2> QED
    BY <2>1 DEF Modules
<1>6. fun \in 1 .. Len(program[mod].funs)
  BY <1>1, <1>5, LenProperties DEF InFunction
<1>7. /\ program[mod].hashed = source[mod].hashed
      /\ F.own = source[mod].funs[fun].own
      /\ F.foreign = source[mod].funs[fun].foreign
      /\ F.dir = source[mod].funs[fun].dir
  <2>1. /\ program[mod].hashed = source[mod].hashed
        /\ \A f \in 1 .. Len(source[mod].funs) :
             /\ program[mod].funs[f].own = source[mod].funs[f].own
             /\ program[mod].funs[f].foreign = source[mod].funs[f].foreign
             /\ program[mod].funs[f].dir = source[mod].funs[f].dir
    BY <1>2, <1>3 DEF SameFrame
  <2>2. fun \in 1 .. Len(source[mod].funs)
    BY <1>4, <1>6
  <2> QED
    BY <2>1, <2>2 DEF F
<1> QED
  BY <1>3, <1>4, <1>6, <1>7 DEF Selects, HelloWorldSelects, FunctionSelects

LEMMA PlainSource ==
  ASSUME NEW src, Compiled(src),
         NEW m \in 1 .. Len(src), NEW f \in 1 .. Len(src[m].funs)
  PROVE  /\ Len(src[m].funs[f].blocks) > 0
         /\ \A b \in 1 .. Len(src[m].funs[f].blocks) : Plain(BlockOf(src, m, f, b))
BY DEF Compiled, Plain, Added

LEMMA HereBlock ==
  ASSUME PassInv, AtInstruction
  PROVE  /\ blk \in 1 .. Len(program[mod].funs[fun].blocks)
         /\ blk \in 1 .. Len(source[mod].funs[fun].blocks)
         /\ Block = BlockOf(program, mod, fun, blk) /\ Block \in Seq(Instructions)
         /\ ins \in 1 .. Len(Block) /\ I \in Instructions
         /\ BlockInv(Block, BlockOf(source, mod, fun, blk), source[mod].funs[fun].main /\ blk = 1)
<1>1. InFunction /\ InBlock
  BY DEF AtInstruction, InBlock
<1>2. /\ mod \in 1 .. Len(program) /\ mod \in 1 .. Len(source)
      /\ fun \in 1 .. Len(program[mod].funs) /\ fun \in 1 .. Len(source[mod].funs)
  BY <1>1, Here
<1>3. blk \in 1 .. Len(program[mod].funs[fun].blocks)
  BY <1>1 DEF InBlock, F
<1>4. blk \in 1 .. Len(source[mod].funs[fun].blocks)
  <2>1. SameFrame(source, program)
    BY DEF PassInv
  <2> QED
    BY <1>2, <1>3, <2>1 DEF SameFrame
<1>5. Block = BlockOf(program, mod, fun, blk)
  BY DEF Block, F, BlockOf
<1>6. program \in Seq(Modules)
  BY DEF PassInv, TypeOK
<1>7. Block \in Seq(Instructions)
  BY <1>2, <1>3, <1>5, <1>6, Parts
<1>8. ins \in 1 .. Len(Block)
  BY <1>7, LenProperties DEF AtInstruction, PassInv, TypeOK, PositionInv
<1>9. I \in Instructions
  BY <1>7, <1>8, ElementOfSeq DEF I
<1>10. BlockInv(BlockOf(program, mod, fun, blk), BlockOf(source, mod, fun, blk),
                source[mod].funs[fun].main /\ blk = 1)
  BY <1>2, <1>4 DEF PassInv, BlocksInv
<1> QED
  BY <1>3, <1>4, <1>5, <1>7, <1>8, <1>9, <1>10

-----------------------------------------------------------------------------
(* Every step keeps the invariant *)

LEMMA WeaveKeeps ==
  ASSUME PassInv, AtInstruction,
         NEW before \in Seq(Instructions), Harmless(before),
         NEW after \in Seq(Instructions), Harmless(after),
         I.callee = "_init_" => before = <<>>,
         after = <<>> \/ I.op = "load",
         Weave(before, after)
  PROVE  PassInv'
<1> DEFINE w == Woven(Block, ins, before, after)
           first == source[mod].funs[fun].main /\ blk = 1
<1>1. /\ mod \in 1 .. Len(program) /\ mod \in 1 .. Len(source)
      /\ fun \in 1 .. Len(program[mod].funs) /\ fun \in 1 .. Len(source[mod].funs)
  BY Here DEF AtInstruction, InBlock
<1>2. /\ blk \in 1 .. Len(program[mod].funs[fun].blocks)
      /\ blk \in 1 .. Len(source[mod].funs[fun].blocks)
      /\ Block = BlockOf(program, mod, fun, blk) /\ Block \in Seq(Instructions)
      /\ ins \in 1 .. Len(Block)
      /\ BlockInv(Block, BlockOf(source, mod, fun, blk), first)
  BY HereBlock
<1>3. /\ program \in Seq(Modules) /\ source \in Seq(Modules) /\ Compiled(source)
      /\ SameFrame(source, program) /\ Len(program) = Len(source)
  BY DEF PassInv, TypeOK, SameFrame
<1>4. program' = WithBlock(program, mod, fun, blk, w)
  BY DEF Weave, Woven, Block, F, WithBlock
<1>5. ins' = ins + Len(before) + 1
  BY DEF Weave
<1>6. /\ variant' = variant /\ source' = source /\ initial' = initial /\ mod' = mod
      /\ fun' = fun /\ blk' = blk /\ lost' = lost
  BY DEF Weave
<1>7. first \in BOOLEAN
  BY <1>1, <1>3, Parts
<1>8. /\ w \in Seq(Instructions) /\ BlockInv(w, BlockOf(source, mod, fun, blk), first)
      /\ Block[1].callee = "_init_" => w[1].callee = "_init_"
  <2> HIDE DEF first
  <2>1. BlockKept(w, Block, BlockOf(source, mod, fun, blk), first)
    BY <1>2, <1>7, WovenBlock DEF I
  <2> QED
    BY <2>1 DEF BlockKept
<1> HIDE DEF w
<1>9. /\ program' \in Seq(Modules) /\ SameFrame(program, program')
      /\ BlockOf(program', mod, fun, blk) = w
      /\ \A n \in 1 .. Len(program) : n # mod => program'[n] = program[n]
      /\ \A g \in 1 .. Len(program[mod].funs) : \A c \in 1 .. Len(program[mod].funs[g].blocks) :
           g # fun \/ c # blk => BlockOf(program', mod, g, c) = BlockOf(program, mod, g, c)
  <2>1. OneBlock(program, program', mod, fun, blk, w)
    BY <1>1, <1>2, <1>3, <1>4, <1>8, SetBlock
  <2> QED
    BY <2>1 DEF OneBlock
<1>10. SameFrame(source, program')
  BY <1>3, <1>9, SameFrameTransitive
<1>11. TypeOK'
  <2>1. ins' \in Nat
    BY <1>2, <1>5, LenProperties
  <2> QED
    BY <1>3, <1>6, <1>9, <2>1 DEF PassInv, TypeOK
<1>12. \A g \in 1 .. Len(source[mod].funs) :
         /\ g \in 1 .. Len(program[mod].funs)
         /\ Len(program[mod].funs[g].blocks) = Len(source[mod].funs[g].blocks)
  BY <1>1, <1>3 DEF SameFrame
<1>13. BlocksInv(program', source)
  <2> SUFFICES ASSUME NEW m \in 1 .. Len(source), NEW f \in 1 .. Len(source[m].funs),
                      NEW b \in 1 .. Len(source[m].funs[f].blocks)
               PROVE  BlockInv(BlockOf(program', m, f, b), BlockOf(source, m, f, b),
                               source[m].funs[f].main /\ b = 1)
    BY DEF BlocksInv
  <2>1. BlockInv(BlockOf(program, m, f, b), BlockOf(source, m, f, b),
                 source[m].funs[f].main /\ b = 1)
    BY DEF PassInv, BlocksInv
  <2>2. CASE m = mod /\ f = fun /\ b = blk
    BY <1>8, <1>9, <2>2
  <2>3. CASE ~(m = mod /\ f = fun /\ b = blk)
    <3>1. BlockOf(program', m, f, b) = BlockOf(program, m, f, b)
      <4>1. CASE m # mod
        BY <1>3, <1>9, <4>1 DEF BlockOf
      <4>2. CASE m = mod
        BY <1>9, <1>12, <2>3, <4>2
      <4> QED
        BY <4>1, <4>2
    <3> QED
      BY <2>1, <3>1
  <2> QED
    BY <2>2, <2>3
<1>14. OpenedInv(program', source, mod, initial)
  <2>1. OpenedInv(program, source, mod, initial) /\ initial
    BY <1>2 DEF PassInv, PositionInv
  <2>2. ASSUME NEW m \in 1 .. Len(source), m # mod
        PROVE  /\ program'[m] = program[m]
               /\ Opened(program, source, m) => Opened(program', source, m)
    <3>1. program'[m] = program[m]
      BY <1>3, <1>9, <2>2
    <3> QED
      BY <3>1 DEF Opened, BlockOf
  <2>3. Opened(program', source, mod)
    <3> SUFFICES ASSUME NEW f \in 1 .. Len(source[mod].funs), source[mod].funs[f].main
                 PROVE  BlockOf(program', mod, f, 1)[1].callee = "_init_"
      BY DEF Opened
    <3>1. BlockOf(program, mod, f, 1)[1].callee = "_init_"
      BY <1>1, <2>1 DEF OpenedInv, Opened
    <3>2. 1 \in 1 .. Len(program[mod].funs[f].blocks)
      <4>1. Len(source[mod].funs[f].blocks) > 0
        BY <1>1, <1>3, PlainSource
      <4>2. Len(source[mod].funs[f].blocks) \in Nat
        <5>1. source[mod].funs[f].blocks \in Seq(Seq(Instructions))
          BY <1>1, <1>3, Parts
        <5> QED
          BY <5>1, LenProperties
      <4>3. Len(program[mod].funs[f].blocks) = Len(source[mod].funs[f].blocks)
        BY <1>12
      <4> QED
        BY <4>1, <4>2, <4>3
    <3>3. CASE f = fun /\ blk = 1
      BY <1>2, <1>8, <1>9, <3>1, <3>3
    <3>4. CASE f # fun \/ blk # 1
      BY <1>9, <1>12, <3>1, <3>2, <3>4
    <3> QED
      BY <3>3, <3>4
  <2> QED
    BY <1>1, <2>1, <2>2, <2>3 DEF OpenedInv
<1>15. PositionInv'
  <2>1. ins' > 0
    BY <1>2, <1>5, LenProperties
  <2>2. PositionInv
    BY DEF PassInv
  <2> QED
    BY <1>6, <2>1, <2>2 DEF PositionInv, Selects
<1> QED
  BY <1>3, <1>6, <1>10, <1>11, <1>13, <1>14, <1>15 DEF PassInv

LEMMA OneProbe ==
  ASSUME NEW callee \in {"_probe_", "_probe_lock_"}, NEW loc \in BOOLEAN,
         NEW s, s = <<Inserted("call", callee, loc)>>
  PROVE  s \in Seq(Instructions) /\ Harmless(s)
<1> DEFINE x == Inserted("call", callee, loc)
<1>1. x \in Instructions /\ x.callee \in {"_probe_", "_probe_lock_", "none"}
  BY DEF Inserted, Instructions, Opcodes, Callees
<1> HIDE DEF x
<1>2. s = <<x>>
  BY DEF x
<1> QED
  BY <1>1, <1>2 DEF Harmless

LEMMA NoProbe == <<>> \in Seq(Instructions) /\ Harmless(<<>>)
BY DEF Harmless

LEMMA LockProbes ==
  ASSUME NEW n \in Nat
  PROVE  LockProbe(n) \in Seq(Instructions) /\ Harmless(LockProbe(n))
<1> DEFINE x == Inserted("load", "none", TRUE)
           y == <<Inserted("call", "_probe_lock_", TRUE)>>
           s == [k \in 1 .. n |-> x]
<1>1. x \in Instructions /\ x.callee = "none"
  BY DEF Inserted, Instructions, Opcodes, Callees
<1>2. y \in Seq(Instructions) /\ Harmless(y)
  BY OneProbe
<1>3. LockProbe(n) = s \o y
  BY DEF LockProbe
<1> HIDE DEF x, y
<1>4. s \in Seq(Instructions) /\ Len(s) = n /\ \A k \in 1 .. n : s[k] = x
  BY <1>1, IsASeq
<1> HIDE DEF s
<1>5. Joined(Instructions, LockProbe(n), s, y)
  BY <1>2, <1>3, <1>4, Concatenation
<1> DEFINE u == LockProbe(n)
           l == Len(y)
<1>6. /\ u \in Seq(Instructions) /\ l \in Nat /\ Len(u) = n + l
      /\ \A j \in 1 .. n : u[j] = s[j]
      /\ \A j \in 1 .. l : u[n + j] = y[j]
  BY <1>4, <1>5 DEF Joined
<1>7. \A j \in 1 .. l : y[j].callee \in {"_probe_", "_probe_lock_", "none"}
  BY <1>2 DEF Harmless
<1> HIDE DEF u, l
<1>8. ASSUME NEW j \in 1 .. Len(u) PROVE u[j].callee \in {"_probe_", "_probe_lock_", "none"}
  <2>1. CASE j <= n
    <3>1. j \in 1 .. n
      BY <1>6, <2>1
    <3> QED
      BY <1>1, <1>4, <1>6, <3>1
  <2>2. CASE j > n
    <3>1. j - n \in 1 .. l /\ n + (j - n) = j
      BY <1>6, <2>2
    <3>2. u[n + (j - n)] = y[j - n]
      BY <1>6, <3>1
    <3> QED
      BY <1>7, <3>1, <3>2
  <2> QED
    BY <1>6, <2>1, <2>2
<1> QED
  BY <1>6, <1>8 DEF u, Harmless

LEMMA VisitStoreKeeps == PassInv /\ VisitStore => PassInv'
<1> SUFFICES ASSUME PassInv, VisitStore PROVE PassInv'
  OBVIOUS
<1>1. AtInstruction /\ I.op = "store" /\ Weave(StoreProbe, <<>>)
  BY DEF VisitStore
<1>2. StoreProbe \in Seq(Instructions) /\ Harmless(StoreProbe)
  BY OneProbe DEF StoreProbe
<1>3. I.callee # "_init_"
  <2>1. /\ ins \in 1 .. Len(Block)
        /\ BlockInv(Block, BlockOf(source, mod, fun, blk), source[mod].funs[fun].main /\ blk = 1)
    BY <1>1, HereBlock
  <2> QED
    BY <1>1, <2>1 DEF BlockInv, InitFirst, I
<1> QED
  BY <1>1, <1>2, <1>3, NoProbe, WeaveKeeps

LEMMA VisitLoadKeeps == PassInv /\ VisitLoad => PassInv'
<1> SUFFICES ASSUME PassInv, VisitLoad PROVE PassInv'
  OBVIOUS
<1>1. AtInstruction /\ I.op = "load" /\ Weave(<<>>, LoadProbe)
  BY DEF VisitLoad
<1>2. /\ ins \in 1 .. Len(Block) /\ Block \in Seq(Instructions)
      /\ BlockInv(Block, BlockOf(source, mod, fun, blk), source[mod].funs[fun].main /\ blk = 1)
  BY <1>1, HereBlock
<1>3. ins # Len(Block)
  BY <1>1, <1>2 DEF BlockInv, Terminated, I
<1>4. ins + 1 \in 1 .. Len(Block)
  BY <1>2, <1>3, LenProperties
<1>5. Block[ins + 1].loc \in BOOLEAN
  <2>1. Block[ins + 1] \in Instructions
    BY <1>2, <1>4, ElementOfSeq
  <2> QED
    BY <2>1 DEF Instructions
<1>6. LoadProbe \in Seq(Instructions) /\ Harmless(LoadProbe)
  BY <1>5, OneProbe DEF LoadProbe
<1> QED
  BY <1>1, <1>6, NoProbe, WeaveKeeps

LEMMA HooksLoads ==
  ASSUME NEW op, NEW callee \in DOMAIN Hooks(op)
  PROVE  Hooks(op)[callee] \in Nat /\ callee # "_init_"
BY DEF Hooks, InvokeHooks, CallHooks, FunctionInvokeHooks

LEMMA VisitLockOperationKeeps ==
  ASSUME PassInv, NEW op, VisitLockOperation(op)
  PROVE  PassInv'
<1>1. /\ AtInstruction /\ I.callee \in DOMAIN Hooks(op)
      /\ Weave(LockProbe(Hooks(op)[I.callee]), <<>>)
  BY DEF VisitLockOperation
<1>2. Hooks(op)[I.callee] \in Nat /\ I.callee # "_init_"
  BY <1>1, HooksLoads
<1>3. /\ LockProbe(Hooks(op)[I.callee]) \in Seq(Instructions)
      /\ Harmless(LockProbe(Hooks(op)[I.callee]))
  BY <1>2, LockProbes
<1> QED
  BY <1>1, <1>2, <1>3, NoProbe, WeaveKeeps

LEMMA VisitOtherKeeps == PassInv /\ VisitOther => PassInv'
<1> SUFFICES ASSUME PassInv, VisitOther PROVE PassInv'
  OBVIOUS
<1>1. AtInstruction /\ Weave(<<>>, <<>>)
  BY DEF VisitOther
<1> QED
  BY <1>1, NoProbe, WeaveKeeps

LEMMA DiesKeeps == PassInv /\ InFunction /\ Dies => PassInv'
<1> SUFFICES ASSUME PassInv, InFunction, Dies PROVE PassInv'
  OBVIOUS
<1>1. /\ mod' = mod + 1 /\ fun' = 1 /\ blk' = 0 /\ ins' = 1 /\ initial' = FALSE
      /\ lost' = lost \cup {mod}
      /\ variant' = variant /\ source' = source /\ program' = program
  BY DEF Dies
<1>2. mod \in 1 .. Len(source)
  BY Here
<1>3. Len(source) \in Nat
  BY LenProperties DEF PassInv, TypeOK
<1>4. TypeOK'
  <2>1. /\ variant' \in Variants /\ source' \in Seq(Modules) /\ program' \in Seq(Modules)
        /\ initial' \in BOOLEAN
    BY <1>1 DEF PassInv, TypeOK
  <2>2. mod' \in 1 .. Len(source') + 1 /\ fun' \in Nat /\ blk' \in Nat /\ ins' \in Nat
    BY <1>1, <1>2, <1>3
  <2>3. lost \subseteq 1 .. mod - 1
    BY DEF PassInv, TypeOK
  <2>4. lost' \subseteq 1 .. mod' - 1
    BY <1>1, <1>2, <2>3
  <2> QED
    BY <2>1, <2>2, <2>4 DEF TypeOK
<1>5. OpenedInv(program, source, mod + 1, FALSE)
  BY <1>2, <1>3 DEF PassInv, OpenedInv
<1>6. PositionInv'
  BY <1>1 DEF PositionInv
<1>7. fun' > 0
  BY <1>1
<1>8. OpenedInv(program', source', mod', initial')
  BY <1>1, <1>5
<1> QED
  BY <1>1, <1>4, <1>6, <1>7, <1>8 DEF PassInv

\* Where opt may die it is in a function.
LEMMA DeathsKeep == PassInv /\ (NoEntryBlock \/ VisitIndirect \/ VisitMisfit) => PassInv'
BY DiesKeeps DEF NoEntryBlock, VisitIndirect, VisitMisfit, AsksForName, AtInstruction, InBlock

LEMMA LeaveBlockKeeps ==
  ASSUME PassInv, InBlock, LeaveBlock
  PROVE  PassInv'
<1>1. /\ blk' = blk + 1 /\ ins' = 1
      /\ variant' = variant /\ source' = source /\ program' = program /\ initial' = initial
      /\ mod' = mod /\ fun' = fun /\ lost' = lost
  BY DEF LeaveBlock
<1>2. blk > 0 /\ blk \in Nat
  BY DEF InBlock, PassInv, TypeOK
<1>3. TypeOK'
  <2>1. TypeOK /\ blk' \in Nat /\ ins' \in Nat
    BY <1>1, <1>2 DEF PassInv
  <2> QED
    BY <1>1, <2>1 DEF TypeOK
<1>4. PositionInv'
  <2>1. /\ initial /\ mod <= Len(source) /\ fun <= Len(source[mod].funs)
        /\ Selects(source[mod], source[mod].funs[fun])
    BY <1>2 DEF PassInv, PositionInv
  <2>2. Selects(source[mod], source[mod].funs[fun])'
    BY <1>1, <2>1 DEF Selects
  <2>3. ins' > 0
    BY <1>1
  <2> QED
    BY <1>1, <2>1, <2>2, <2>3 DEF PositionInv
<1>6. /\ Compiled(source) /\ SameFrame(source, program) /\ BlocksInv(program, source)
      /\ OpenedInv(program, source, mod, initial) /\ fun > 0
  BY DEF PassInv
<1>7. /\ Compiled(source') /\ SameFrame(source', program') /\ BlocksInv(program', source')
      /\ OpenedInv(program', source', mod', initial') /\ fun' > 0
  BY <1>1, <1>6
<1> QED
  BY <1>3, <1>4, <1>7 DEF PassInv

LEMMA MoveKeeps == PassInv /\ (EnterModule \/ SkipFunction \/ LeaveFunction) => PassInv'
<1> SUFFICES ASSUME PassInv, EnterModule \/ SkipFunction \/ LeaveFunction PROVE PassInv'
  OBVIOUS
<1>1. Len(source) \in Nat /\ Len(program) = Len(source)
  BY LenProperties DEF PassInv, TypeOK, SameFrame
<1>2. CASE EnterModule
  <2>1. /\ mod' = mod + 1 /\ fun' = 1 /\ initial' = FALSE
        /\ variant' = variant /\ source' = source /\ program' = program
        /\ blk' = blk /\ ins' = ins /\ lost' = lost
    BY <1>2 DEF EnterModule
  <2>2. mod \in 1 .. Len(source) /\ fun > Len(source[mod].funs)
    <3>1. mod \in 1 .. Len(source)
      BY <1>1, <1>2 DEF EnterModule, InModule, PassInv, TypeOK
    <3>2. Len(program[mod].funs) = Len(source[mod].funs)
      BY <3>1 DEF PassInv, SameFrame
    <3> QED
      BY <1>2, <3>1, <3>2 DEF EnterModule
  <2>3. blk = 0
    <3>1. Len(source[mod].funs) \in Nat
      <4>1. source[mod] \in Modules
        BY <2>2, ElementOfSeq DEF PassInv, TypeOK
      <4> QED
        BY <4>1, LenProperties DEF Modules
    <3> QED
      BY <2>2, <3>1 DEF PassInv, PositionInv, TypeOK
  <2>4. TypeOK'
    <3>1. /\ variant' \in Variants /\ source' \in Seq(Modules) /\ program' \in Seq(Modules)
          /\ initial' \in BOOLEAN
      BY <2>1 DEF PassInv, TypeOK
    <3>2. mod' \in 1 .. Len(source') + 1 /\ fun' \in Nat /\ blk' \in Nat /\ ins' \in Nat
      BY <1>1, <2>1, <2>2 DEF PassInv, TypeOK
    <3>3. lost \subseteq 1 .. mod - 1
      BY DEF PassInv, TypeOK
    <3>4. lost' \subseteq 1 .. mod' - 1
      BY <2>1, <2>2, <3>3
    <3> QED
      BY <3>1, <3>2, <3>4 DEF TypeOK
  <2>5. OpenedInv(program, source, mod + 1, FALSE)
    BY <1>1, <2>2 DEF PassInv, OpenedInv
  <2>6. PositionInv'
    BY <2>1, <2>3 DEF PassInv, PositionInv
  <2>8. fun' > 0
    BY <2>1
  <2>9. OpenedInv(program', source', mod', initial')
    BY <2>1, <2>5
  <2> QED
    BY <2>1, <2>4, <2>6, <2>8, <2>9 DEF PassInv
<1>3. CASE SkipFunction \/ LeaveFunction
  <2>1. /\ fun' = fun + 1 /\ blk' = 0
        /\ variant' = variant /\ source' = source /\ program' = program /\ initial' = initial
        /\ mod' = mod /\ ins' = ins /\ lost' = lost
    BY <1>3 DEF SkipFunction, LeaveFunction
  <2>2. TypeOK'
    BY <2>1 DEF PassInv, TypeOK
  <2>3. PositionInv'
    BY <2>1 DEF PassInv, PositionInv
  <2>5. fun' > 0
    BY <2>1 DEF PassInv, TypeOK
  <2> QED
    BY <2>1, <2>2, <2>3, <2>5 DEF PassInv
<1> QED
  BY <1>2, <1>3

LEMMA EnterFunctionKeeps == PassInv /\ EnterFunction => PassInv'
<1> SUFFICES ASSUME PassInv, EnterFunction PROVE PassInv'
  OBVIOUS
<1>1. /\ initial' = TRUE /\ blk' = 1 /\ ins' = 1
      /\ variant' = variant /\ source' = source /\ mod' = mod /\ fun' = fun /\ lost' = lost
  BY DEF EnterFunction
<1>2. InFunction /\ Selects(program[mod], F)
  BY DEF EnterFunction
<1>3. /\ mod \in 1 .. Len(program) /\ mod \in 1 .. Len(source)
      /\ fun \in 1 .. Len(source[mod].funs)
      /\ Selects(source[mod], source[mod].funs[fun])
  BY <1>2, Here
<1>4. /\ program \in Seq(Modules) /\ source \in Seq(Modules) /\ Compiled(source)
      /\ SameFrame(source, program) /\ Len(program) = Len(source)
  BY DEF PassInv, TypeOK, SameFrame
<1>5. PositionInv'
  <2>1. Len(source) \in Nat /\ Len(source[mod].funs) \in Nat
    <3>1. source[mod] \in Modules
      BY <1>3, <1>4, ElementOfSeq
    <3> QED
      BY <1>4, <3>1, LenProperties DEF Modules
  <2>2. ins' > 0 /\ mod <= Len(source) /\ fun <= Len(source[mod].funs)
    BY <1>1, <1>3, <2>1
  <2>3. Selects(source[mod], source[mod].funs[fun])'
    BY <1>1, <1>3 DEF Selects
  <2> QED
    BY <1>1, <2>2, <2>3 DEF PositionInv
<1>7. CASE initial
  <2>1. program' = program
    BY <1>7 DEF EnterFunction
  <2>2. TypeOK'
    BY <1>1, <2>1 DEF PassInv, TypeOK
  <2>3. OpenedInv(program, source, mod, TRUE)
    BY <1>7 DEF PassInv, OpenedInv
  <2> QED
    BY <1>1, <1>5, <2>1, <2>2, <2>3 DEF PassInv
<1>8. CASE ~initial
  <2>1. program' = [program EXCEPT ![mod] = Initialized(program[mod])]
    BY <1>8 DEF EnterFunction, FunctionInitialized
  <2>2. program[mod] = source[mod]
    BY <1>3, <1>8 DEF PassInv, OpenedInv
  <2>3. ASSUME NEW f \in 1 .. Len(source[mod].funs)
        PROVE  /\ Len(source[mod].funs[f].blocks) > 0
               /\ 1 \in 1 .. Len(source[mod].funs[f].blocks)
               /\ Plain(BlockOf(source, mod, f, 1))
               /\ BlockOf(program, mod, f, 1) = BlockOf(source, mod, f, 1)
               /\ BlockOf(source, mod, f, 1) \in Seq(Instructions)
    <3>1. Len(source[mod].funs[f].blocks) > 0
      BY <1>3, <1>4, PlainSource
    <3>2. source[mod].funs[f].blocks \in Seq(Seq(Instructions))
      BY <1>3, <1>4, Parts
    <3>3. 1 \in 1 .. Len(source[mod].funs[f].blocks)
      BY <3>1, <3>2, LenProperties
    <3>4. Plain(BlockOf(source, mod, f, 1))
      BY <1>3, <1>4, <3>3, PlainSource
    <3>5. BlockOf(source, mod, f, 1) \in Seq(Instructions)
      BY <1>3, <1>4, <3>3, Parts
    <3> QED
      BY <2>2, <3>1, <3>3, <3>4, <3>5 DEF BlockOf
  <2>4. \A f \in 1 .. Len(program[mod].funs) :
          Len(program[mod].funs[f].blocks) > 0 /\ Len(BlockOf(program, mod, f, 1)) > 0
    BY <2>2, <2>3 DEF Plain
  <2>5. InitializedIn(program, program', mod)
    BY <1>3, <1>4, <2>1, <2>4, InitializedModule
  <2>6. /\ program' \in Seq(Modules) /\ SameFrame(program, program')
        /\ \A n \in 1 .. Len(program) : n # mod => program'[n] = program[n]
        /\ \A g \in 1 .. Len(source[mod].funs) :
             /\ source[mod].funs[g].main => \E loc \in BOOLEAN :
                  BlockOf(program', mod, g, 1)
                    = <<Inserted("call", "_init_", loc)>> \o BlockOf(program, mod, g, 1)
             /\ \A c \in 1 .. Len(source[mod].funs[g].blocks) :
                  ~source[mod].funs[g].main \/ c # 1
                    => BlockOf(program', mod, g, c) = BlockOf(program, mod, g, c)
    BY <2>2, <2>5 DEF InitializedIn
  <2>7. SameFrame(source, program')
    BY <1>4, <2>6, SameFrameTransitive
  <2>8. TypeOK'
    BY <1>1, <2>6 DEF PassInv, TypeOK
  <2>9. ASSUME NEW f \in 1 .. Len(source[mod].funs), source[mod].funs[f].main
        PROVE  /\ BlockInv(BlockOf(program', mod, f, 1), BlockOf(source, mod, f, 1), TRUE)
               /\ BlockOf(program', mod, f, 1)[1].callee = "_init_"
    <3>1. PICK loc \in BOOLEAN :
            BlockOf(program', mod, f, 1)
              = <<Inserted("call", "_init_", loc)>> \o BlockOf(source, mod, f, 1)
      BY <2>3, <2>6, <2>9
    <3> QED
      BY <2>3, <3>1, InitializedBlock
  <2>10. BlocksInv(program', source)
    <3> SUFFICES ASSUME NEW m \in 1 .. Len(source), NEW f \in 1 .. Len(source[m].funs),
                        NEW b \in 1 .. Len(source[m].funs[f].blocks)
                 PROVE  BlockInv(BlockOf(program', m, f, b), BlockOf(source, m, f, b),
                                 source[m].funs[f].main /\ b = 1)
      BY DEF BlocksInv
    <3>1. BlockInv(BlockOf(program, m, f, b), BlockOf(source, m, f, b),
                   source[m].funs[f].main /\ b = 1)
      BY DEF PassInv, BlocksInv
    <3>2. CASE m # mod
      BY <1>4, <2>6, <3>1, <3>2 DEF BlockOf
    <3>3. CASE m = mod /\ source[m].funs[f].main /\ b = 1
      <4>1. BlockInv(BlockOf(program', m, f, b), BlockOf(source, m, f, b), TRUE)
        BY <2>9, <3>3
      <4>2. (source[m].funs[f].main /\ b = 1) = TRUE
        BY <3>3
      <4> QED
        BY <4>1, <4>2
    <3>4. CASE m = mod /\ ~(source[m].funs[f].main /\ b = 1)
      BY <2>6, <3>1, <3>4
    <3> QED
      BY <3>2, <3>3, <3>4
  <2>11. OpenedInv(program', source, mod, TRUE)
    <3>1. ASSUME NEW m \in 1 .. Len(source), m # mod
          PROVE  /\ program'[m] = program[m]
                 /\ Opened(program, source, m) => Opened(program', source, m)
      <4>1. program'[m] = program[m]
        BY <1>4, <2>6, <3>1
      <4> QED
        BY <4>1 DEF Opened, BlockOf
    <3>2. Opened(program', source, mod)
      BY <2>9 DEF Opened
    <3>3. OpenedInv(program, source, mod, initial)
      BY DEF PassInv
    <3> QED
      BY <1>3, <3>1, <3>2, <3>3 DEF OpenedInv
  <2> QED
    BY <1>1, <1>4, <1>5, <2>7, <2>8, <2>10, <2>11 DEF PassInv
<1> QED
  BY <1>7, <1>8 DEF PassInv, TypeOK

-----------------------------------------------------------------------------
(* The theorems *)

LEMMA InitHolds == Init => PassInv
<1> SUFFICES ASSUME Init PROVE PassInv
  OBVIOUS
<1>1. /\ variant \in Variants /\ source \in Programs /\ program = source /\ initial = FALSE
      /\ mod = 1 /\ fun = 1 /\ blk = 0 /\ ins = 1 /\ lost = {}
  BY DEF Init
<1>2. Compiled(source)
  BY <1>1, ProgramsAssumption
<1>3. source \in Seq(Modules) /\ Len(source) \in Nat
  BY <1>2, LenProperties DEF Compiled
<1>4. TypeOK
  <2>1. program \in Seq(Modules) /\ initial \in BOOLEAN /\ lost \subseteq 1 .. mod - 1
    BY <1>1, <1>3
  <2>2. mod \in 1 .. Len(source) + 1 /\ fun \in Nat /\ blk \in Nat /\ ins \in Nat
    BY <1>1, <1>3
  <2> QED
    BY <1>1, <1>3, <2>1, <2>2 DEF TypeOK
<1>5. SameFrame(source, program)
  BY <1>1 DEF SameFrame
<1>6. BlocksInv(program, source)
  BY <1>1, <1>2, PlainSource, PlainBlock DEF BlocksInv
<1>7. OpenedInv(program, source, mod, initial)
  BY <1>1, <1>3 DEF OpenedInv
<1>8. PositionInv
  BY <1>1 DEF PositionInv
<1> QED
  BY <1>1, <1>2, <1>4, <1>5, <1>6, <1>7, <1>8 DEF PassInv

LEMMA StutterKeeps == PassInv /\ UNCHANGED vars => PassInv'
<1> SUFFICES ASSUME PassInv, UNCHANGED vars PROVE PassInv'
  OBVIOUS
<1>1. /\ variant' = variant /\ source' = source /\ program' = program /\ initial' = initial
      /\ mod' = mod /\ fun' = fun /\ blk' = blk /\ ins' = ins /\ lost' = lost
  BY DEF vars
<1>2. TypeOK'
  BY <1>1 DEF PassInv, TypeOK
<1>3. PositionInv'
  <2>1. PositionInv
    BY DEF PassInv
  <2> QED
    BY <1>1, <2>1 DEF PositionInv, Selects
<1>5. /\ Compiled(source) /\ SameFrame(source, program) /\ BlocksInv(program, source)
      /\ OpenedInv(program, source, mod, initial) /\ fun > 0
  BY DEF PassInv
<1>6. /\ Compiled(source') /\ SameFrame(source', program') /\ BlocksInv(program', source')
      /\ OpenedInv(program', source', mod', initial') /\ fun' > 0
  BY <1>1, <1>5
<1> QED
  BY <1>2, <1>3, <1>6 DEF PassInv

LEMMA PassInvariant == Spec => []PassInv
<1>1. PassInv /\ [Next]_vars => PassInv'
  <2> SUFFICES ASSUME PassInv, [Next]_vars PROVE PassInv'
    OBVIOUS
  <2>1. CASE EnterModule \/ SkipFunction \/ LeaveFunction
    BY <2>1, MoveKeeps
  <2>2. CASE EnterFunction
    BY <2>2, EnterFunctionKeeps
  <2>3. CASE EndOfBlock
    BY <2>3, LeaveBlockKeeps DEF EndOfBlock
  <2>4. CASE VisitStore
    BY <2>4, VisitStoreKeeps
  <2>5. CASE VisitLoad
    BY <2>5, VisitLoadKeeps
  <2>6. CASE VisitInvoke \/ VisitCall
    BY <2>6, VisitLockOperationKeeps DEF VisitInvoke, VisitCall
  <2>7. CASE NoEntryBlock \/ VisitIndirect \/ VisitMisfit
    BY <2>7, DeathsKeep
  <2>8. CASE VisitAtomic
    BY <2>8, LeaveBlockKeeps DEF VisitAtomic, AtInstruction
  <2>9. CASE VisitOther
    BY <2>9, VisitOtherKeeps
  <2>10. CASE Done \/ UNCHANGED vars
    BY <2>10, StutterKeeps DEF Done
  <2> QED
    BY <2>1, <2>2, <2>3, <2>4, <2>5, <2>6, <2>7, <2>8, <2>9, <2>10 DEF Next, Step, Visit
<1> QED
  BY <1>1, InitHolds, PTL DEF Spec

(***************************************************************************)
(* The type invariant of the pass: whatever program it is given, what it   *)
(* makes of it has the instructions, functions and modules of a program,   *)
(* and modules are given up before the position only.                      *)
(***************************************************************************)
THEOREM TypeInvariant == Spec => []TypeOK
<1>1. PassInv => TypeOK
  BY DEF PassInv
<1> QED
  BY <1>1, PassInvariant, PTL

LEMMA CallPlaces ==
  ASSUME NEW m, NEW callees, NEW z
  PROVE  z \in CallsIn(m, callees) <=>
           \E f \in 1 .. Len(program[m].funs) : \E b \in 1 .. Len(program[m].funs[f].blocks) :
             \E j \in 1 .. Len(BlockOf(program, m, f, b)) :
               BlockOf(program, m, f, b)[j].callee \in callees /\ z = <<f, b, j>>
<1> DEFINE OfBlock(f, b) == {<<f, b, j>> : j \in {k \in 1 .. Len(program[m].funs[f].blocks[b]) :
                            program[m].funs[f].blocks[b][k].callee \in callees}}
           OfFunction(f) == UNION {OfBlock(f, b) : b \in 1 .. Len(program[m].funs[f].blocks)}
<1>1. CallsIn(m, callees) = UNION {OfFunction(f) : f \in 1 .. Len(program[m].funs)}
  BY DEF CallsIn
<1>2. \A f, b : z \in OfBlock(f, b) <=>
        \E j \in 1 .. Len(BlockOf(program, m, f, b)) :
          BlockOf(program, m, f, b)[j].callee \in callees /\ z = <<f, b, j>>
  BY DEF BlockOf
<1> HIDE DEF OfBlock
<1>3. \A f : z \in OfFunction(f) <=> \E b \in 1 .. Len(program[m].funs[f].blocks) : z \in OfBlock(f, b)
  OBVIOUS
<1> HIDE DEF OfFunction
<1>4. z \in CallsIn(m, callees) <=> \E f \in 1 .. Len(program[m].funs) : z \in OfFunction(f)
  BY <1>1
<1> QED
  BY <1>2, <1>3, <1>4

LEMMA OpenedOnceAndFirst == PassInv => InitOnceAndFirst
<1> SUFFICES ASSUME PassInv PROVE InitOnceAndFirst
  OBVIOUS
<1>1. /\ Compiled(source) /\ SameFrame(source, program) /\ BlocksInv(program, source)
      /\ OpenedInv(program, source, mod, initial) /\ Len(program) = Len(source)
      /\ source \in Seq(Modules) /\ program \in Seq(Modules)
  BY DEF PassInv, TypeOK, SameFrame
\* Where _init_ is called.
<1>2. ASSUME NEW m \in 1 .. Len(program), NEW z \in InitCalls(m)
      PROVE  \E f \in 1 .. Len(source[m].funs) : source[m].funs[f].main /\ z = <<f, 1, 1>>
  <2>1. PICK f \in 1 .. Len(program[m].funs) : \E b \in 1 .. Len(program[m].funs[f].blocks) :
          \E j \in 1 .. Len(BlockOf(program, m, f, b)) :
            BlockOf(program, m, f, b)[j].callee \in {"_init_"} /\ z = <<f, b, j>>
    <3>1. z \in CallsIn(m, {"_init_"})
      BY DEF InitCalls
    <3> QED
      BY <3>1, CallPlaces
  <2>2. PICK b \in 1 .. Len(program[m].funs[f].blocks) :
          \E j \in 1 .. Len(BlockOf(program, m, f, b)) :
            BlockOf(program, m, f, b)[j].callee \in {"_init_"} /\ z = <<f, b, j>>
    BY <2>1
  <2>3. PICK j \in 1 .. Len(BlockOf(program, m, f, b)) :
          BlockOf(program, m, f, b)[j].callee = "_init_" /\ z = <<f, b, j>>
    BY <2>2
  <2>4. /\ m \in 1 .. Len(source) /\ f \in 1 .. Len(source[m].funs)
        /\ b \in 1 .. Len(source[m].funs[f].blocks)
    BY <1>1 DEF SameFrame
  <2>5. InitFirst(BlockOf(program, m, f, b), source[m].funs[f].main /\ b = 1)
    BY <1>1, <2>4 DEF BlocksInv, BlockInv
  <2>6. source[m].funs[f].main /\ b = 1 /\ j = 1
    BY <2>3, <2>5 DEF InitFirst
  <2> QED
    BY <2>3, <2>4, <2>6
<1>3. ASSUME NEW m \in 1 .. Len(program), NEW n \in 1 .. Len(program),
             InitCalls(m) # {}, InitCalls(n) # {}
      PROVE  m = n
  <2>1. /\ \E f \in 1 .. Len(source[m].funs) : source[m].funs[f].main
        /\ \E f \in 1 .. Len(source[n].funs) : source[n].funs[f].main
    BY <1>2, <1>3
  <2> QED
    BY <1>1, <2>1 DEF Compiled
<1>4. ASSUME NEW m \in 1 .. Len(program) \ lost, NEW f \in 1 .. Len(program[m].funs),
             program[m].funs[f].main, HasProbe(m)
      PROVE  InitCalls(m) = {<<f, 1, 1>>}
  <2>1. /\ m \in 1 .. Len(source) /\ f \in 1 .. Len(source[m].funs) /\ source[m].funs[f].main
    <3>1. m \in 1 .. Len(source)
      BY <1>1
    <3>2. Len(program[m].funs) = Len(source[m].funs)
      BY <1>1, <3>1 DEF SameFrame
    <3>3. program[m].funs[f].main = source[m].funs[f].main
      BY <1>1, <3>1, <3>2 DEF SameFrame
    <3> QED
      BY <1>4, <3>1, <3>2, <3>3
  <2>2. program[m] # source[m]
    <3> SUFFICES ASSUME program[m] = source[m] PROVE FALSE
      OBVIOUS
    <3>1. PICK z : z \in CallsIn(m, {"_probe_", "_probe_lock_"})
      BY <1>4 DEF HasProbe
    <3>2. PICK g \in 1 .. Len(program[m].funs) : \E b \in 1 .. Len(program[m].funs[g].blocks) :
            \E j \in 1 .. Len(BlockOf(program, m, g, b)) :
              BlockOf(program, m, g, b)[j].callee \in {"_probe_", "_probe_lock_"}
      BY <3>1, CallPlaces
    <3>3. PICK b \in 1 .. Len(source[m].funs[g].blocks) :
            \E j \in 1 .. Len(BlockOf(source, m, g, b)) :
              BlockOf(source, m, g, b)[j].callee \in {"_probe_", "_probe_lock_"}
      BY <3>2 DEF BlockOf
    <3>4. Plain(BlockOf(source, m, g, b))
      BY <1>1, <2>1, <3>2, <3>3, PlainSource
    <3> QED
      BY <3>3, <3>4 DEF Plain, Added
  <2>3. BlockOf(program, m, f, 1)[1].callee = "_init_"
    BY <1>1, <2>1, <2>2 DEF OpenedInv, Opened
  <2>4. /\ 1 \in 1 .. Len(program[m].funs[f].blocks)
        /\ 1 \in 1 .. Len(BlockOf(program, m, f, 1))
    <3>1. Len(source[m].funs[f].blocks) > 0 /\ Len(source[m].funs[f].blocks) \in Nat
      BY <1>1, <2>1, PlainSource, Parts, LenProperties
    <3>2. Len(program[m].funs[f].blocks) = Len(source[m].funs[f].blocks)
      BY <1>1, <2>1 DEF SameFrame
    <3>3. 1 \in 1 .. Len(source[m].funs[f].blocks) /\ 1 \in 1 .. Len(program[m].funs[f].blocks)
      BY <3>1, <3>2
    <3>4. Terminated(BlockOf(program, m, f, 1))
      BY <1>1, <2>1, <3>3 DEF BlocksInv, BlockInv
    <3>5. BlockOf(program, m, f, 1) \in Seq(Instructions)
      BY <1>1, <3>3, Parts
    <3> QED
      BY <3>3, <3>4, <3>5, LenProperties DEF Terminated
  <2>5. <<f, 1, 1>> \in InitCalls(m)
    <3>1. BlockOf(program, m, f, 1)[1].callee \in {"_init_"}
      BY <2>3
    <3> QED
      BY <2>4, <3>1, CallPlaces DEF InitCalls
  <2>6. \A z \in InitCalls(m) : z = <<f, 1, 1>>
    <3> SUFFICES ASSUME NEW z \in InitCalls(m) PROVE z = <<f, 1, 1>>
      OBVIOUS
    <3>1. PICK g \in 1 .. Len(source[m].funs) : source[m].funs[g].main /\ z = <<g, 1, 1>>
      BY <1>2
    <3>2. g = f
      BY <1>1, <2>1, <3>1 DEF Compiled
    <3> QED
      BY <3>1, <3>2
  <2> QED
    BY <2>5, <2>6
<1> QED
  BY <1>3, <1>4 DEF InitOnceAndFirst

(***************************************************************************)
(* The log is opened once, and by the first instruction of main if there   *)
(* is any probe in the module of main, in programs of any size and however *)
(* their functions are ordered.                                            *)
(***************************************************************************)
THEOREM OpensOnceAndFirst == Spec => []InitOnceAndFirst
BY PassInvariant, OpenedOnceAndFirst, PTL

-----------------------------------------------------------------------------
(* What is between the original instructions *)

\* x was inserted and has the given shape.
Is(x, shape) == x.id = 0 /\ <<x.op, x.callee>> = shape

\* The instructions of block from place p on were inserted and have the given shapes.
AreAt(block, p, shapes) == \A j \in 1 .. Len(shapes) : Is(block[p + j], shapes[j])

\* pl[k] is the place of the k-th original instruction, pl[0] that of the begin.
PlacedAt(block, src, pl) ==
  /\ pl \in [0 .. Len(src) -> Nat]
  /\ pl[0] = IF block[1].callee = "_init_" THEN 1 ELSE 0
  /\ pl[Len(src)] = Len(block)
  /\ \A k \in 1 .. Len(src) : pl[k] \in 1 .. Len(block) /\ block[pl[k]] = src[k]
  /\ \A k, l \in 0 .. Len(src) : k < l => pl[k] < pl[l]
  /\ \A j \in 1 .. Len(block) : block[j].id # 0 => \E k \in 1 .. Len(src) : j = pl[k]

\* What belongs around the instructions of src: A behind them, B in front.
Afters(src) == [k \in 1 .. Len(src) |-> After(src[k])]
Befores(src) == [k \in 1 .. Len(src) |-> Before(src[k])]

\* What there is of it when the pass has visited the first v instructions.
Behind(A, v, k) == IF k > 0 /\ k <= v THEN A[k] ELSE <<>>
InFront(B, v, k) == IF k <= v THEN B[k] ELSE <<>>

\* The gap in front of the k-th instruction, which begins behind place p and ends at q.
Gap(block, p, q, behind, front) ==
  /\ q = p + Len(behind) + Len(front) + 1
  /\ AreAt(block, p, behind)
  /\ AreAt(block, p + Len(behind), front)

Gaps(block, n, pl, A, B, v) ==
  \A k \in 1 .. n : Gap(block, pl[k - 1], pl[k], Behind(A, v, k - 1), InFront(B, v, k))

WovenBy(block, src, pl, A, B, v) == PlacedAt(block, src, pl) /\ Gaps(block, Len(src), pl, A, B, v)

\* Where the pass is: before a block, inside it, or behind it.
Stage(m, f, b) ==
  CASE ~Selects(source[m], source[m].funs[f]) -> "before"
    [] Selects(source[m], source[m].funs[f]) /\ Inside(m, f, b) -> "inside"
    [] Selects(source[m], source[m].funs[f]) /\ ~Inside(m, f, b) ->
         IF Passed(m, f, b) THEN "behind" ELSE "before"

\* Where the pass leaves a block.
Stops(src) == {k \in 1 .. Len(src) : StopsAt(src[k])}

\* v of the n instructions have been visited when the pass is at place at.
Reached(stage, stops, n, pl, v, at) ==
  /\ stage = "before" => v = 0
  /\ stage = "behind" => (v = n \/ v \in stops) /\ \A k \in stops : v <= k
  /\ stage = "inside" =>
       /\ \A k \in stops : v < k
       /\ pl[v] < at \/ (v = 0 /\ at = 1)
       /\ v < n => at <= pl[v + 1]
       /\ at <= pl[n] + 1

BlockWoven(block, src, A, B, stops, stage, at) ==
  \E v \in 0 .. Len(src) : \E pl \in [0 .. Len(src) -> Nat] :
    WovenBy(block, src, pl, A, B, v) /\ Reached(stage, stops, Len(src), pl, v, at)

SourceWoven(block, src, stage, at) ==
  BlockWoven(block, src, Afters(src), Befores(src), Stops(src), stage, at)

WeaveInv ==
  \A m \in 1 .. Len(source) \ lost : \A f \in 1 .. Len(source[m].funs) :
    \A b \in 1 .. Len(source[m].funs[f].blocks) :
      SourceWoven(BlockOf(program, m, f, b), BlockOf(source, m, f, b), Stage(m, f, b), ins)

-----------------------------------------------------------------------------
(* Visiting an original instruction *)

\* Where instruction p is when n instructions are put in front of instruction i and m behind it.
Shift(i, n, m, p) == IF p < i THEN p ELSE IF p = i THEN p + n ELSE p + n + m

Shifts(i, n, m) ==
  /\ Shift(i, n, m, 0) = 0 /\ Shift(i, n, m, i) = i + n
  /\ \A p \in Nat : Shift(i, n, m, p) \in Nat
  /\ \A p, q \in Nat : p < q => Shift(i, n, m, p) < Shift(i, n, m, q)

LEMMA ShiftFacts ==
  ASSUME NEW i \in Nat, i >= 1, NEW n \in Nat, NEW m \in Nat
  PROVE  Shifts(i, n, m)
<1>1. Shift(i, n, m, 0) = 0 /\ Shift(i, n, m, i) = i + n
  BY DEF Shift
<1>2. \A p \in Nat : Shift(i, n, m, p) \in Nat
  BY DEF Shift
<1>3. \A p, q \in Nat : p < q => Shift(i, n, m, p) < Shift(i, n, m, q)
  BY DEF Shift
<1> QED
  BY <1>1, <1>2, <1>3 DEF Shifts

\* w is s with before and after put around instruction i.
WeaveFacts(s, i, before, after, w, n, m, h) ==
  /\ 1 <= i /\ i <= h
  /\ Len(w) = h + n + m
  /\ \A j \in 1 .. i - 1 : w[j] = s[j]
  /\ \A j \in 1 .. n : w[i - 1 + j] = before[j]
  /\ w[i + n] = s[i]
  /\ \A j \in 1 .. m : w[i + n + j] = after[j]
  /\ \A j \in 1 .. h - i : w[i + n + m + j] = s[i + j]

LEMMA WeftFacts ==
  ASSUME NEW s \in Seq(Instructions), NEW i \in 1 .. Len(s),
         NEW before \in Seq(Instructions), NEW after \in Seq(Instructions),
         NEW w, w = Woven(s, i, before, after)
  PROVE  WeaveFacts(s, i, before, after, w, Len(before), Len(after), Len(s))
<1>1. Weft(Instructions, s, i, before, after, w)
  BY WovenProperties
<1>2. Len(s) \in Nat
  BY LenProperties
<1>3. i \in Nat /\ 1 <= i /\ i <= Len(s)
  BY <1>2
<1> QED
  BY <1>1, <1>3 DEF Weft, WeaveFacts

\* n instructions before and m after are ones that the pass inserts.
Inserts(before, after, n, m) ==
  /\ \A j \in 1 .. n : before[j].id = 0 /\ before[j].callee # "_init_"
  /\ \A j \in 1 .. m : after[j].id = 0

\* The instructions of s are all in w, where Shift says, and those that are new have no id.
Transported(s, w, i, n, m, h) ==
  /\ \A p \in 1 .. h : Shift(i, n, m, p) \in 1 .. Len(w) /\ w[Shift(i, n, m, p)] = s[p]
  /\ \A j \in 1 .. Len(w) : w[j].id # 0 => \E p \in 1 .. h : j = Shift(i, n, m, p)

LEMMA WeaveTransports ==
  ASSUME NEW s, NEW i \in Nat, NEW before, NEW after, NEW w,
         NEW n \in Nat, NEW m \in Nat, NEW h \in Nat,
         WeaveFacts(s, i, before, after, w, n, m, h), Inserts(before, after, n, m)
  PROVE  Transported(s, w, i, n, m, h)
<1>size. 1 <= i /\ i <= h /\ Len(w) = h + n + m
  BY DEF WeaveFacts
<1>old. \A j \in 1 .. i - 1 : w[j] = s[j]
  BY DEF WeaveFacts
<1>before. \A j \in 1 .. n : w[i - 1 + j] = before[j] /\ before[j].id = 0
  BY DEF WeaveFacts, Inserts
<1>at. w[i + n] = s[i]
  BY DEF WeaveFacts
<1>after. \A j \in 1 .. m : w[i + n + j] = after[j] /\ after[j].id = 0
  BY DEF WeaveFacts, Inserts
<1>rest. \A j \in 1 .. h - i : w[i + n + m + j] = s[i + j]
  BY DEF WeaveFacts
<1>1. ASSUME NEW p \in 1 .. h
      PROVE  Shift(i, n, m, p) \in 1 .. Len(w) /\ w[Shift(i, n, m, p)] = s[p]
  <2>1. p \in Nat /\ 1 <= p /\ p <= h
    OBVIOUS
  <2>2. CASE p < i
    <3>1. Shift(i, n, m, p) = p
      BY <2>2 DEF Shift
    <3>2. p \in 1 .. i - 1 /\ p \in 1 .. h + n + m
      BY <2>1, <2>2
    <3> QED
      BY <1>size, <1>old, <3>1, <3>2
  <2>3. CASE p = i
    <3>1. Shift(i, n, m, p) = i + n
      BY <2>3 DEF Shift
    <3>2. i + n \in 1 .. h + n + m
      BY <2>1, <2>3
    <3> QED
      BY <1>size, <1>at, <2>3, <3>1, <3>2
  <2>4. CASE p > i
    <3>1. Shift(i, n, m, p) = p + n + m
      BY <2>1, <2>4 DEF Shift
    <3>2. /\ p - i \in 1 .. h - i /\ i + (p - i) = p
          /\ i + n + m + (p - i) = p + n + m /\ p + n + m \in 1 .. h + n + m
      BY <2>1, <2>4
    <3> QED
      BY <1>size, <1>rest, <3>1, <3>2
  <2> QED
    BY <2>1, <2>2, <2>3, <2>4
<1>2. ASSUME NEW j \in 1 .. Len(w), w[j].id # 0
      PROVE  \E p \in 1 .. h : j = Shift(i, n, m, p)
  <2>1. j \in Nat /\ 1 <= j /\ j <= h + n + m
    BY <1>size
  <2>2. CASE j < i
    <3>1. j \in 1 .. h /\ Shift(i, n, m, j) = j
      BY <1>size, <2>1, <2>2 DEF Shift
    <3> QED
      BY <3>1
  <2>3. CASE j >= i /\ j < i + n
    <3>1. j - i + 1 \in 1 .. n /\ i - 1 + (j - i + 1) = j
      BY <2>1, <2>3
    <3> QED
      BY <1>2, <1>before, <3>1
  <2>4. CASE j = i + n
    <3>1. i \in 1 .. h /\ Shift(i, n, m, i) = j
      BY <1>size, <2>4 DEF Shift
    <3> QED
      BY <3>1
  <2>5. CASE j > i + n /\ j <= i + n + m
    <3>1. j - i - n \in 1 .. m /\ i + n + (j - i - n) = j
      BY <2>1, <2>5
    <3> QED
      BY <1>2, <1>after, <3>1
  <2>6. CASE j > i + n + m
    <3>1. j - n - m \in 1 .. h /\ j - n - m > i /\ (j - n - m) + n + m = j
      BY <1>size, <2>1, <2>6
    <3>2. Shift(i, n, m, j - n - m) = j
      BY <3>1 DEF Shift
    <3> QED
      BY <3>1, <3>2
  <2> QED
    BY <2>1, <2>2, <2>3, <2>4, <2>5, <2>6
<1> QED
  BY <1>1, <1>2 DEF Transported

\* The places of the instructions of src, moved.
Moved(pl, i, n, m, N) == [k \in 0 .. N |-> Shift(i, n, m, pl[k])]

LEMMA WeavePlaces ==
  ASSUME NEW s, NEW src, Plain(src), NEW N \in Nat, N = Len(src), NEW h \in Nat, h = Len(s),
         NEW pl, PlacedAt(s, src, pl), NEW o \in 1 .. N, NEW i \in Nat, i = pl[o],
         NEW before, NEW after, NEW w, NEW n \in Nat, NEW m \in Nat,
         WeaveFacts(s, i, before, after, w, n, m, h), Inserts(before, after, n, m),
         o = N => m = 0,
         NEW ql, ql = Moved(pl, i, n, m, N)
  PROVE  PlacedAt(w, src, ql)
<1>size. 1 <= i /\ i <= h /\ Len(w) = h + n + m
  BY DEF WeaveFacts
<1>place. \A k \in 1 .. N : pl[k] \in 1 .. h /\ s[pl[k]] = src[k]
  BY DEF PlacedAt
<1>nat. \A k \in 0 .. N : pl[k] \in Nat
  BY DEF PlacedAt
<1>order. \A k, l \in 0 .. N : k < l => pl[k] < pl[l]
  BY DEF PlacedAt
<1>1. Shifts(i, n, m)
  BY <1>size, ShiftFacts
<1>2. Transported(s, w, i, n, m, h)
  BY WeaveTransports
<1>3. \A k \in 0 .. N : ql[k] = Shift(i, n, m, pl[k])
  BY DEF Moved
<1>4. ql \in [0 .. N -> Nat]
  <2>1. \A k \in 0 .. N : Shift(i, n, m, pl[k]) \in Nat
    BY <1>1, <1>nat DEF Shifts
  <2> QED
    BY <2>1 DEF Moved
<1>5. ql[0] = IF w[1].callee = "_init_" THEN 1 ELSE 0
  <2>1. ql[0] = Shift(i, n, m, pl[0])
    BY <1>3
  <2>2. pl[0] = IF s[1].callee = "_init_" THEN 1 ELSE 0
    BY DEF PlacedAt
  <2>3. CASE i > 1
    <3>1. w[1] = s[1] /\ Shift(i, n, m, 1) = 1 /\ Shift(i, n, m, 0) = 0
      BY <2>3 DEF WeaveFacts, Shift
    <3> QED
      BY <2>1, <2>2, <3>1
  <2>4. CASE i = 1
    <3>1. s[1].callee # "_init_"
      BY <1>place, <2>4 DEF Plain, Added
    <3>2. w[1].callee # "_init_"
      <4>1. CASE n = 0
        <5>1. i + n = 1
          BY <2>4, <4>1
        <5>2. w[i + n] = s[i]
          BY DEF WeaveFacts
        <5>3. w[1] = s[1]
          BY <2>4, <5>1, <5>2, Zenon
        <5> QED
          BY <3>1, <5>3, Zenon
      <4>2. CASE n > 0
        <5>1. 1 \in 1 .. n /\ i - 1 + 1 = 1
          BY <2>4, <4>2
        <5>2. \A j \in 1 .. n : w[i - 1 + j] = before[j] /\ before[j].callee # "_init_"
          BY DEF WeaveFacts, Inserts
        <5>3. w[i - 1 + 1] = before[1] /\ before[1].callee # "_init_"
          BY <5>1, <5>2
        <5>4. w[1] = before[1]
          BY <5>1, <5>3
        <5> QED
          BY <5>3, <5>4, Zenon
      <4> QED
        BY <4>1, <4>2
    <3> QED
      BY <1>1, <2>1, <2>2, <3>1, <3>2 DEF Shifts
  <2> QED
    BY <1>size, <2>3, <2>4
<1>6. ql[N] = Len(w)
  <2>1. ql[N] = Shift(i, n, m, h)
    BY <1>3 DEF PlacedAt
  <2>2. CASE i = h
    <3>1. o = N
      <4>1. pl[N] = h /\ (o < N => pl[o] < pl[N])
        BY <1>order DEF PlacedAt
      <4> QED
        BY <2>2, <4>1
    <3>2. Shift(i, n, m, h) = h + n
      BY <2>2 DEF Shift
    <3> QED
      BY <1>size, <2>1, <3>1, <3>2
  <2>3. CASE i # h
    <3>1. Shift(i, n, m, h) = h + n + m
      BY <1>size, <2>3 DEF Shift
    <3> QED
      BY <1>size, <2>1, <3>1
  <2> QED
    BY <2>2, <2>3
<1>7. ASSUME NEW k \in 1 .. N
      PROVE  ql[k] \in 1 .. Len(w) /\ w[ql[k]] = src[k]
  <2>1. k \in 0 .. N
    OBVIOUS
  <2>2. pl[k] \in 1 .. h /\ s[pl[k]] = src[k]
    BY <1>place
  <2>3. /\ Shift(i, n, m, pl[k]) \in 1 .. Len(w)
        /\ w[Shift(i, n, m, pl[k])] = s[pl[k]]
    BY <1>2, <2>2, Zenon DEF Transported
  <2>4. ql[k] = Shift(i, n, m, pl[k])
    BY <1>3, <2>1
  <2> QED
    BY <2>2, <2>3, <2>4, Zenon
<1>8. ASSUME NEW k \in 0 .. N, NEW l \in 0 .. N, k < l
      PROVE  ql[k] < ql[l]
  BY <1>1, <1>3, <1>8, <1>nat, <1>order DEF Shifts
<1>9. ASSUME NEW j \in 1 .. Len(w), w[j].id # 0
      PROVE  \E k \in 1 .. N : j = ql[k]
  <2>1. PICK p \in 1 .. h : j = Shift(i, n, m, p)
    BY <1>2, <1>9 DEF Transported
  <2>2. s[p].id # 0
    BY <1>2, <1>9, <2>1 DEF Transported
  <2>3. PICK k \in 1 .. N : p = pl[k]
    BY <2>2 DEF PlacedAt
  <2>4. k \in 0 .. N
    OBVIOUS
  <2> QED
    BY <1>3, <2>1, <2>3, <2>4
<1> QED
  BY <1>4, <1>5, <1>6, <1>7, <1>8, <1>9 DEF PlacedAt

\* The n instructions t were inserted and have the given shapes.
Fits(t, n, shapes) == n = Len(shapes) /\ \A j \in 1 .. n : Is(t[j], shapes[j])

LEMMA NothingIs == Len(<<>>) = 0 /\ \A block, p : AreAt(block, p, <<>>)
BY DEF AreAt

LEMMA GapBefore ==
  ASSUME NEW s, NEW i \in Nat, NEW before, NEW after, NEW w,
         NEW n \in Nat, NEW m \in Nat, NEW h \in Nat,
         WeaveFacts(s, i, before, after, w, n, m, h),
         NEW p \in Nat, NEW q \in Nat, q <= i,
         NEW behind, NEW front, Len(behind) \in Nat, Len(front) \in Nat,
         Gap(s, p, q, behind, front)
  PROVE  Gap(w, p, q, behind, front)
<1> DEFINE c == Len(behind)
           d == Len(front)
<1>0. c \in Nat /\ d \in Nat
  OBVIOUS
<1>1. \A j \in 1 .. i - 1 : w[j] = s[j]
  BY DEF WeaveFacts
<1>2. q = p + c + d + 1
  BY DEF Gap
<1>3. \A j \in 1 .. c : Is(s[p + j], behind[j])
  BY DEF Gap, AreAt
<1>4. \A j \in 1 .. d : Is(s[p + c + j], front[j])
  BY DEF Gap, AreAt
<1> HIDE DEF c, d
<1>5. \A j \in 1 .. c : p + j \in 1 .. i - 1
  BY <1>0, <1>2
<1>6. \A j \in 1 .. d : p + c + j \in 1 .. i - 1
  BY <1>0, <1>2
<1>7. \A j \in 1 .. c : Is(w[p + j], behind[j])
  BY <1>1, <1>3, <1>5
<1>8. \A j \in 1 .. d : Is(w[p + c + j], front[j])
  BY <1>1, <1>4, <1>6
<1> QED
  BY <1>2, <1>7, <1>8 DEF Gap, AreAt, c, d

LEMMA GapAt ==
  ASSUME NEW s, NEW i \in Nat, NEW before, NEW after, NEW w,
         NEW n \in Nat, NEW m \in Nat, NEW h \in Nat,
         WeaveFacts(s, i, before, after, w, n, m, h),
         NEW p \in Nat, NEW behind, NEW c \in Nat, c = Len(behind), Gap(s, p, i, behind, <<>>),
         NEW front, Fits(before, n, front)
  PROVE  Gap(w, p, i + n, behind, front)
<1>1. Gap(w, p, i, behind, <<>>)
  BY GapBefore, NothingIs
<1>2. i = p + c + 1 /\ AreAt(w, p, behind)
  BY <1>1, NothingIs DEF Gap
<1>3. n = Len(front) /\ \A j \in 1 .. n : Is(before[j], front[j])
  BY DEF Fits
<1>4. \A j \in 1 .. n : w[i - 1 + j] = before[j]
  BY DEF WeaveFacts
<1>5. i - 1 = p + c
  BY <1>2
<1>6. \A j \in 1 .. n : Is(w[p + c + j], front[j])
  BY <1>3, <1>4, <1>5
<1>7. i + n = p + c + n + 1
  BY <1>2
<1> QED
  BY <1>2, <1>3, <1>6, <1>7 DEF Gap, AreAt

LEMMA GapBehind ==
  ASSUME NEW s, NEW i \in Nat, NEW before, NEW after, NEW w,
         NEW n \in Nat, NEW m \in Nat, NEW h \in Nat,
         WeaveFacts(s, i, before, after, w, n, m, h),
         NEW q \in Nat, Gap(s, i, q, <<>>, <<>>),
         NEW behind, Fits(after, m, behind)
  PROVE  Gap(w, i + n, q + n + m, behind, <<>>)
<1>1. q = i + 1
  BY NothingIs DEF Gap
<1>2. m = Len(behind) /\ \A j \in 1 .. m : Is(after[j], behind[j])
  BY DEF Fits
<1>3. \A j \in 1 .. m : w[i + n + j] = after[j]
  BY DEF WeaveFacts
<1>4. \A j \in 1 .. m : Is(w[i + n + j], behind[j])
  BY <1>2, <1>3
<1>5. q + n + m = i + n + m + 0 + 1
  BY <1>1
<1> QED
  BY <1>2, <1>4, <1>5, NothingIs DEF Gap, AreAt

LEMMA GapLater ==
  ASSUME NEW s, NEW w, NEW p \in Nat, NEW q \in Nat, NEW d \in Nat, Gap(s, p, q, <<>>, <<>>)
  PROVE  Gap(w, p + d, q + d, <<>>, <<>>)
BY NothingIs DEF Gap

HasShapes(A, n) == \A k \in 1 .. n : Len(A[k]) \in Nat

LEMMA SidesAreSequences ==
  ASSUME NEW n \in Nat, NEW A, HasShapes(A, n), NEW v \in Nat
  PROVE  \A k \in 1 .. n : /\ Len(A[k]) \in Nat
                           /\ Len(Behind(A, v, k - 1)) \in Nat
                           /\ Len(InFront(A, v, k)) \in Nat
<1> SUFFICES ASSUME NEW k \in 1 .. n
             PROVE  /\ Len(A[k]) \in Nat
                    /\ Len(Behind(A, v, k - 1)) \in Nat
                    /\ Len(InFront(A, v, k)) \in Nat
  OBVIOUS
<1>1. Len(A[k]) \in Nat /\ (k - 1 > 0 => Len(A[k - 1]) \in Nat)
  <2>1. k - 1 > 0 => k - 1 \in 1 .. n
    OBVIOUS
  <2> QED
    BY <2>1 DEF HasShapes
<1> QED
  BY <1>1, NothingIs DEF Behind, InFront

LEMMA WeaveGaps ==
  ASSUME NEW s, NEW src, NEW N \in Nat, N = Len(src), NEW h \in Nat,
         NEW pl, PlacedAt(s, src, pl), NEW v \in Nat, v < N, NEW i \in Nat, i = pl[v + 1],
         NEW before, NEW after, NEW w, NEW n \in Nat, NEW m \in Nat,
         WeaveFacts(s, i, before, after, w, n, m, h),
         NEW A, HasShapes(A, N), NEW B, HasShapes(B, N),
         Gaps(s, N, pl, A, B, v), Fits(before, n, B[v + 1]), Fits(after, m, A[v + 1]),
         NEW ql, ql = Moved(pl, i, n, m, N)
  PROVE  Gaps(w, N, ql, A, B, v + 1)
<1>nat. \A k \in 0 .. N : pl[k] \in Nat
  BY DEF PlacedAt
<1>order. \A k, l \in 0 .. N : k < l => pl[k] < pl[l]
  BY DEF PlacedAt
<1>ql. \A k \in 0 .. N : ql[k] = Shift(i, n, m, pl[k])
  BY DEF Moved
<1> SUFFICES ASSUME NEW k \in 1 .. N
             PROVE  Gap(w, ql[k - 1], ql[k], Behind(A, v + 1, k - 1), InFront(B, v + 1, k))
  BY DEF Gaps
<1>1. Gap(s, pl[k - 1], pl[k], Behind(A, v, k - 1), InFront(B, v, k))
  BY DEF Gaps
<1>2. k \in 0 .. N /\ k - 1 \in 0 .. N /\ k - 1 < k /\ v + 1 \in 0 .. N
  OBVIOUS
<1>3. pl[k] \in Nat /\ pl[k - 1] \in Nat /\ pl[k - 1] < pl[k]
  BY <1>2, <1>nat, <1>order
<1>4. /\ ql[k] = Shift(i, n, m, pl[k]) /\ ql[k - 1] = Shift(i, n, m, pl[k - 1])
  BY <1>2, <1>ql
<1>5. /\ Len(A[k]) \in Nat /\ Len(B[k]) \in Nat
      /\ Len(Behind(A, v, k - 1)) \in Nat /\ Len(InFront(B, v, k)) \in Nat
  BY SidesAreSequences
<1>6. CASE k <= v
  <2>1. k < v + 1
    BY <1>6
  <2>2. pl[k] < i
    BY <1>2, <1>order, <2>1
  <2>3. ql[k] = pl[k] /\ ql[k - 1] = pl[k - 1]
    <3>1. Shift(i, n, m, pl[k]) = pl[k]
      BY <2>2 DEF Shift
    <3>2. pl[k - 1] < i
      BY <1>3, <2>2
    <3>3. Shift(i, n, m, pl[k - 1]) = pl[k - 1]
      BY <3>2 DEF Shift
    <3> QED
      BY <1>4, <3>1, <3>3, Zenon
  <2>4. /\ Behind(A, v + 1, k - 1) = Behind(A, v, k - 1)
        /\ InFront(B, v + 1, k) = InFront(B, v, k)
    BY <1>6 DEF Behind, InFront
  <2>5. pl[k] <= i
    BY <1>3, <2>2
  <2>6. Gap(w, pl[k - 1], pl[k], Behind(A, v, k - 1), InFront(B, v, k))
    <3> DEFINE p == pl[k - 1]
               q == pl[k]
               behind == Behind(A, v, k - 1)
               front == InFront(B, v, k)
    <3>1. /\ p \in Nat /\ q \in Nat /\ q <= i /\ Gap(s, p, q, behind, front)
          /\ Len(behind) \in Nat /\ Len(front) \in Nat
      BY <1>1, <1>3, <1>5, <2>5
    <3> HIDE DEF p, q, behind, front
    <3>2. Gap(w, p, q, behind, front)
      BY <3>1, GapBefore
    <3> QED
      BY <3>2 DEF p, q, behind, front
  <2> QED
    BY <2>3, <2>4, <2>6
<1>7. CASE k = v + 1
  <2>1. pl[k] = i /\ pl[k - 1] < i
    BY <1>3, <1>7
  <2>2. ql[k] = i + n /\ ql[k - 1] = pl[k - 1]
    BY <1>4, <2>1 DEF Shift
  <2>3. /\ Behind(A, v + 1, k - 1) = Behind(A, v, k - 1)
        /\ InFront(B, v, k) = <<>> /\ InFront(B, v + 1, k) = B[v + 1]
    BY <1>7 DEF Behind, InFront
  <2>4. Gap(s, pl[k - 1], i, Behind(A, v, k - 1), <<>>)
    BY <1>1, <2>1, <2>3
  <2>5. Gap(w, pl[k - 1], i + n, Behind(A, v, k - 1), B[v + 1])
    BY <1>3, <1>5, <2>4, GapAt
  <2> QED
    BY <2>2, <2>3, <2>5
<1>8. CASE k = v + 2
  <2>1. pl[k - 1] = i /\ i < pl[k]
    <3>1. k - 1 = v + 1
      BY <1>8
    <3> QED
      BY <1>3, <3>1
  <2>2. ql[k] = pl[k] + n + m /\ ql[k - 1] = i + n
    <3>1. Shift(i, n, m, i) = i + n
      BY DEF Shift
    <3>2. ~(pl[k] < i) /\ pl[k] # i
      BY <1>3, <2>1
    <3>3. Shift(i, n, m, pl[k]) = pl[k] + n + m
      BY <3>2, Zenon DEF Shift
    <3> QED
      BY <1>4, <2>1, <3>1, <3>3, Zenon
  <2>3. /\ Behind(A, v, k - 1) = <<>> /\ Behind(A, v + 1, k - 1) = A[v + 1]
        /\ InFront(B, v, k) = <<>> /\ InFront(B, v + 1, k) = <<>>
    BY <1>8 DEF Behind, InFront
  <2>4. Gap(s, i, pl[k], <<>>, <<>>)
    BY <1>1, <2>1, <2>3
  <2>5. Gap(w, i + n, pl[k] + n + m, A[v + 1], <<>>)
    BY <1>3, <2>4, GapBehind
  <2> QED
    BY <2>2, <2>3, <2>5
<1>9. CASE k > v + 2
  <2>1. pl[k - 1] > i
    <3>1. v + 1 < k - 1
      BY <1>9
    <3>2. pl[v + 1] < pl[k - 1]
      BY <1>2, <1>order, <3>1
    <3> QED
      BY <1>3, <3>2
  <2>2. pl[k] > i
    BY <1>3, <2>1
  <2>3. ql[k] = pl[k] + n + m /\ ql[k - 1] = pl[k - 1] + n + m
    BY <1>3, <1>4, <2>1, <2>2 DEF Shift
  <2>4. /\ Behind(A, v, k - 1) = <<>> /\ Behind(A, v + 1, k - 1) = <<>>
        /\ InFront(B, v, k) = <<>> /\ InFront(B, v + 1, k) = <<>>
    BY <1>9 DEF Behind, InFront
  <2>5. Gap(s, pl[k - 1], pl[k], <<>>, <<>>)
    BY <1>1, <2>4
  <2>6. Gap(w, pl[k - 1] + (n + m), pl[k] + (n + m), <<>>, <<>>)
    <3>1. n + m \in Nat
      OBVIOUS
    <3> QED
      BY <1>3, <2>5, <3>1, GapLater, Zenon
  <2>7. ql[k] = pl[k] + (n + m) /\ ql[k - 1] = pl[k - 1] + (n + m)
    <3>1. \A p \in Nat : p + n + m = p + (n + m)
      OBVIOUS
    <3> QED
      BY <1>3, <2>3, <3>1, Zenon
  <2> QED
    BY <2>4, <2>6, <2>7
<1> QED
  BY <1>6, <1>7, <1>8, <1>9

-----------------------------------------------------------------------------
(* What a step of the pass does to a block *)

\* Only a single probe ever belongs behind an instruction, and nothing behind the last one.
ProbesBehind(A, n) == (\A k \in 1 .. n : A[k] \in {<<>>, <<Probe>>}) /\ A[n] = <<>>

\* The instruction at place at is the one behind the v-th, or was inserted before it.
Upcoming(s, src, pl, v, at) ==
  \/ at = pl[v + 1] /\ s[at] = src[v + 1]
  \/ /\ at < pl[v + 1]
     /\ pl[v] <= at
     /\ s[at].callee = "_init_" \/ Is(s[at], Probe)

LEMMA NextInstruction ==
  ASSUME NEW s, NEW src, NEW N \in Nat, N = Len(src), N > 0, NEW h \in Nat, h = Len(s),
         NEW pl, NEW A, ProbesBehind(A, N), NEW B, NEW v \in 0 .. N, NEW stops,
         WovenBy(s, src, pl, A, B, v), NEW at \in 1 .. h, Reached("inside", stops, N, pl, v, at)
  PROVE  v < N /\ Upcoming(s, src, pl, v, at)
<1>nat. \A k \in 0 .. N : pl[k] \in Nat
  BY DEF WovenBy, PlacedAt
<1>order. \A k, l \in 0 .. N : k < l => pl[k] < pl[l]
  BY DEF WovenBy, PlacedAt
<1>end. pl[N] = h
  BY DEF WovenBy, PlacedAt
<1>reached. (pl[v] < at \/ (v = 0 /\ at = 1)) /\ (v < N => at <= pl[v + 1])
  BY DEF Reached
<1>1. at \in Nat /\ 1 <= at /\ at <= h /\ v \in Nat /\ pl[v] \in Nat
  BY <1>nat
<1>2. v < N
  BY <1>1, <1>end, <1>reached
<1>3. v + 1 \in 1 .. N /\ v + 1 \in 0 .. N
  BY <1>1, <1>2
<1>4. pl[v + 1] \in Nat
  BY <1>3, <1>nat
<1>5. CASE at = pl[v + 1]
  <2>1. s[pl[v + 1]] = src[v + 1]
    BY <1>3 DEF WovenBy, PlacedAt
  <2> QED
    BY <1>2, <1>5, <2>1 DEF Upcoming
<1>6. CASE at < pl[v + 1]
  <2>1. Gap(s, pl[v], pl[v + 1], Behind(A, v, v), InFront(B, v, v + 1))
    <3>1. Gap(s, pl[v + 1 - 1], pl[v + 1], Behind(A, v, v + 1 - 1), InFront(B, v, v + 1))
      BY <1>3 DEF WovenBy, Gaps
    <3>2. v + 1 - 1 = v
      BY <1>1
    <3> QED
      BY <3>1, <3>2
  <2>2. InFront(B, v, v + 1) = <<>>
    BY <1>1 DEF InFront
  <2>3. pl[v + 1] = pl[v] + Len(Behind(A, v, v)) + 0 + 1 /\ AreAt(s, pl[v], Behind(A, v, v))
    BY <2>1, <2>2, NothingIs DEF Gap
  <2>4. CASE pl[v] < at
    <3>1. Behind(A, v, v) = <<>> \/ Behind(A, v, v) = <<Probe>>
      BY <1>1 DEF Behind, ProbesBehind
    <3>2. Behind(A, v, v) # <<>>
      BY <1>1, <1>6, <2>3, <2>4, NothingIs
    <3>3. Len(<<Probe>>) = 1 /\ <<Probe>>[1] = Probe
      OBVIOUS
    <3>b. Behind(A, v, v) = <<Probe>>
      BY <3>1, <3>2
    <3>l. pl[v + 1] = pl[v] + 1 + 0 + 1
      BY <2>3, <3>3, <3>b
    <3>4. at = pl[v] + 1
      BY <1>1, <1>6, <2>4, <3>l
    <3>a. AreAt(s, pl[v], <<Probe>>)
      BY <2>3, <3>b
    <3>5. Is(s[pl[v] + 1], <<Probe>>[1])
      BY <3>3, <3>a DEF AreAt
    <3>6. Is(s[at], Probe)
      BY <3>3, <3>4, <3>5
    <3>7. pl[v] <= at
      BY <1>1, <2>4
    <3> QED
      BY <1>2, <1>6, <3>6, <3>7 DEF Upcoming
  <2>5. CASE ~(pl[v] < at)
    <3>1. v = 0 /\ at = 1
      BY <1>reached, <2>5
    <3>2. pl[0] = IF s[1].callee = "_init_" THEN 1 ELSE 0
      BY DEF WovenBy, PlacedAt
    <3>3. pl[0] = 1
      BY <2>5, <3>1, <3>2
    <3>4. s[at].callee = "_init_"
      BY <3>1, <3>2, <3>3
    <3>5. pl[v] <= at
      BY <3>1, <3>3
    <3> QED
      BY <1>2, <1>6, <3>4, <3>5 DEF Upcoming
  <2> QED
    BY <2>4, <2>5
<1> QED
  BY <1>1, <1>2, <1>4, <1>5, <1>6, <1>reached


LEMMA NothingWoven ==
  ASSUME NEW s \in Seq(Instructions), NEW at \in 1 .. Len(s)
  PROVE  Woven(s, at, <<>>, <<>>) = s
<1> DEFINE w == Woven(s, at, <<>>, <<>>)
<1>0. <<>> \in Seq(Instructions) /\ Len(s) \in Nat /\ Len(<<>>) = 0
  BY EmptySeq, LenProperties
<1>1. WeaveFacts(s, at, <<>>, <<>>, w, Len(<<>>), Len(<<>>), Len(s)) /\ Weft(Instructions, s, at, <<>>, <<>>, w)
  BY <1>0, WeftFacts, WovenProperties
<1>2. w \in Seq(Instructions)
  BY <1>1 DEF Weft
<1> HIDE DEF w
<1>3. WeaveFacts(s, at, <<>>, <<>>, w, 0, 0, Len(s))
  BY <1>0, <1>1
<1>4. /\ Len(w) = Len(s) + 0 + 0 /\ w[at + 0] = s[at]
      /\ \A j \in 1 .. at - 1 : w[j] = s[j]
  BY <1>3 DEF WeaveFacts
<1>5. \A j \in 1 .. Len(s) - at : w[at + 0 + 0 + j] = s[at + j]
  BY <1>3 DEF WeaveFacts
<1>6. Len(w) = Len(s)
  BY <1>0, <1>4
<1>7. ASSUME NEW j \in 1 .. Len(s) PROVE w[j] = s[j]
  <2>1. CASE j < at
    <3>1. j \in 1 .. at - 1
      BY <1>0, <2>1
    <3> QED
      BY <1>4, <3>1
  <2>2. CASE j = at
    <3>1. at + 0 = at
      BY <1>0
    <3> QED
      BY <1>4, <2>2, <3>1
  <2>3. CASE j > at
    <3>1. j - at \in 1 .. Len(s) - at /\ at + 0 + 0 + (j - at) = j /\ at + (j - at) = j
      BY <1>0, <2>3
    <3> QED
      BY <1>5, <3>1
  <2> QED
    BY <1>0, <2>1, <2>2, <2>3
<1>8. w = s
  BY <1>2, <1>6, <1>7, SeqEqual
<1> QED
  BY <1>8 DEF w

\* What the pass puts around the k-th instruction is what belongs there, and it goes on.
Suits(before, n, after, m, A, B, stops, k) ==
  Fits(before, n, B[k]) /\ Fits(after, m, A[k]) /\ k \notin stops

LEMMA WeaveVisited ==
  ASSUME NEW s, NEW src, Plain(src), NEW N \in Nat, N = Len(src), NEW h \in Nat, h = Len(s),
         NEW pl, NEW A, NEW B, HasShapes(A, N), HasShapes(B, N), A[N] = <<>>,
         NEW v \in Nat, v < N, NEW stops, stops \subseteq Nat,
         WovenBy(s, src, pl, A, B, v),
         NEW at \in Nat, at = pl[v + 1], Reached("inside", stops, N, pl, v, at),
         NEW before, NEW after, NEW w, NEW n \in Nat, NEW m \in Nat,
         WeaveFacts(s, at, before, after, w, n, m, h), Inserts(before, after, n, m),
         Suits(before, n, after, m, A, B, stops, v + 1)
  PROVE  BlockWoven(w, src, A, B, stops, "inside", at + n + 1)
<1> DEFINE ql == Moved(pl, at, n, m, N)
<1>1. PlacedAt(s, src, pl) /\ Gaps(s, N, pl, A, B, v)
  BY DEF WovenBy
<1>2. Fits(before, n, B[v + 1]) /\ Fits(after, m, A[v + 1]) /\ v + 1 \notin stops
  BY DEF Suits
<1>3. v + 1 \in 1 .. N
  OBVIOUS
<1>4. v + 1 = N => m = 0
  BY <1>2, NothingIs DEF Fits
<1> HIDE DEF ql
<1>5. PlacedAt(w, src, ql)
  BY <1>1, <1>3, <1>4, WeavePlaces DEF ql
<1>6. Gaps(w, N, ql, A, B, v + 1)
  BY <1>1, <1>2, WeaveGaps DEF ql
<1>7. ql \in [0 .. N -> Nat] /\ (\A k \in 0 .. N : ql[k] \in Nat)
  BY <1>5 DEF PlacedAt
<1>8. \A k, l \in 0 .. N : k < l => ql[k] < ql[l]
  BY <1>5 DEF PlacedAt
<1>9. ql[v + 1] = at + n
  <2>1. v + 1 \in 0 .. N
    BY <1>3
  <2> QED
    BY <2>1 DEF ql, Moved, Shift
<1>10. Reached("inside", stops, N, ql, v + 1, at + n + 1)
  <2>1. ASSUME NEW k \in stops PROVE v + 1 < k
    <3>1. k \in Nat /\ v < k
      BY DEF Reached
    <3>2. k # v + 1
      BY <1>2
    <3> QED
      BY <3>1, <3>2
  <2>2. ql[v + 1] < at + n + 1
    BY <1>9
  <2>3. v + 1 < N => at + n + 1 <= ql[v + 1 + 1]
    <3> SUFFICES ASSUME v + 1 < N PROVE at + n + 1 <= ql[v + 1 + 1]
      OBVIOUS
    <3>1. v + 1 \in 0 .. N /\ v + 1 + 1 \in 0 .. N /\ v + 1 < v + 1 + 1
      OBVIOUS
    <3>2. ql[v + 1 + 1] \in Nat /\ ql[v + 1] < ql[v + 1 + 1]
      BY <1>7, <1>8, <3>1
    <3> QED
      BY <1>9, <3>2
  <2>4. at + n + 1 <= ql[N] + 1
    <3>1. CASE v + 1 = N
      BY <1>9, <3>1
    <3>2. CASE v + 1 < N
      <4>1. v + 1 \in 0 .. N /\ N \in 0 .. N
        OBVIOUS
      <4>2. ql[N] \in Nat /\ ql[v + 1] < ql[N]
        BY <1>7, <1>8, <3>2, <4>1
      <4> QED
        BY <1>9, <4>2
    <3> QED
      BY <3>1, <3>2
  <2> QED
    BY <2>1, <2>2, <2>3, <2>4 DEF Reached
<1>11. WovenBy(w, src, ql, A, B, v + 1)
  BY <1>5, <1>6 DEF WovenBy
<1>12. v + 1 \in 0 .. N
  BY <1>3
<1> QED
  BY <1>7, <1>10, <1>11, <1>12 DEF BlockWoven


\* What is put around instruction x of the block: what belongs there, or nothing if it is inserted.
Proper(x, src, before, n, after, m, A, B, stops) ==
  /\ \A k \in 1 .. Len(src) : x = src[k] => Suits(before, n, after, m, A, B, stops, k)
  /\ x.callee = "_init_" \/ Is(x, Probe) => before = <<>> /\ after = <<>>

LEMMA WeaveBlock ==
  ASSUME NEW s \in Seq(Instructions), NEW src \in Seq(Instructions), Plain(src),
         NEW A, NEW B, HasShapes(B, Len(src)), ProbesBehind(A, Len(src)),
         NEW stops, stops \subseteq Nat, NEW at \in 1 .. Len(s),
         BlockWoven(s, src, A, B, stops, "inside", at),
         NEW before \in Seq(Instructions), NEW after \in Seq(Instructions),
         Inserts(before, after, Len(before), Len(after)),
         Proper(s[at], src, before, Len(before), after, Len(after), A, B, stops),
         NEW w, w = Woven(s, at, before, after)
  PROVE  BlockWoven(w, src, A, B, stops, "inside", at + Len(before) + 1)
<1> DEFINE N == Len(src)
<1>1. N \in Nat /\ N > 0 /\ Len(s) \in Nat /\ Len(before) \in Nat /\ Len(after) \in Nat /\ at \in Nat
  BY LenProperties DEF Plain
<1>2. PICK v \in 0 .. N : \E pl \in [0 .. N -> Nat] :
        WovenBy(s, src, pl, A, B, v) /\ Reached("inside", stops, N, pl, v, at)
  BY DEF BlockWoven
<1>3. PICK pl \in [0 .. N -> Nat] :
        WovenBy(s, src, pl, A, B, v) /\ Reached("inside", stops, N, pl, v, at)
  BY <1>2
<1> HIDE DEF N
<1>4. v < N /\ Upcoming(s, src, pl, v, at)
  BY <1>1, <1>3, NextInstruction DEF N
<1>5. v \in Nat /\ v + 1 \in 1 .. N
  BY <1>1, <1>4
<1>6. CASE at = pl[v + 1] /\ s[at] = src[v + 1]
  <2>1. WeaveFacts(s, at, before, after, w, Len(before), Len(after), Len(s))
    BY WeftFacts
  <2>2. Suits(before, Len(before), after, Len(after), A, B, stops, v + 1)
    BY <1>5, <1>6 DEF Proper, N
  <2>3. HasShapes(A, N) /\ A[N] = <<>>
    <3>1. Len(<<>>) = 0 /\ Len(<<Probe>>) = 1
      OBVIOUS
    <3> QED
      BY <3>1 DEF HasShapes, ProbesBehind, N
  <2>4. HasShapes(B, N)
    BY DEF N
  <2> QED
    BY <1>1, <1>3, <1>4, <1>5, <1>6, <2>1, <2>2, <2>3, <2>4, WeaveVisited DEF N
<1>7. CASE at < pl[v + 1] /\ pl[v] <= at /\ (s[at].callee = "_init_" \/ Is(s[at], Probe))
  <2>1. before = <<>> /\ after = <<>>
    BY <1>7 DEF Proper
  <2>2. w = s
    BY <2>1, NothingWoven
  <2>3. at + Len(before) + 1 = at + 1
    BY <1>1, <2>1, NothingIs
  <2>4. v \in 0 .. N /\ v + 1 \in 0 .. N /\ N \in 0 .. N
    BY <1>1, <1>5
  <2>5. pl[v] \in Nat /\ pl[v + 1] \in Nat /\ pl[N] \in Nat
    BY <2>4
  <2>6. Reached("inside", stops, N, pl, v, at + 1)
    <3>1. \A k \in stops : v < k
      BY <1>3 DEF Reached
    <3>2. pl[v] < at + 1 /\ at + 1 <= pl[v + 1]
      BY <1>1, <1>7, <2>5
    <3>3. at + 1 <= pl[N] + 1
      <4>1. pl[N] = Len(s)
        BY <1>3 DEF WovenBy, PlacedAt, N
      <4> QED
        BY <1>1, <4>1
    <3> QED
      BY <3>1, <3>2, <3>3 DEF Reached
  <2> QED
    BY <1>3, <2>2, <2>3, <2>6 DEF BlockWoven, N
<1> QED
  BY <1>4, <1>6, <1>7 DEF Upcoming

\* The pass leaves the block at an atomic operation, around which nothing belongs.
LEMMA StopBlock ==
  ASSUME NEW s \in Seq(Instructions), NEW src \in Seq(Instructions), Plain(src),
         NEW A, NEW B, ProbesBehind(A, Len(src)),
         NEW stops, stops \subseteq Nat, NEW at \in 1 .. Len(s),
         BlockWoven(s, src, A, B, stops, "inside", at),
         \A k \in 1 .. Len(src) : s[at] = src[k] => k \in stops /\ A[k] = <<>> /\ B[k] = <<>>,
         ~(s[at].callee = "_init_" \/ Is(s[at], Probe)),
         NEW to
  PROVE  BlockWoven(s, src, A, B, stops, "behind", to)
<1> DEFINE N == Len(src)
<1>1. N \in Nat /\ N > 0 /\ Len(s) \in Nat
  BY LenProperties DEF Plain
<1>2. PICK v \in 0 .. N : \E pl \in [0 .. N -> Nat] :
        WovenBy(s, src, pl, A, B, v) /\ Reached("inside", stops, N, pl, v, at)
  BY DEF BlockWoven
<1>3. PICK pl \in [0 .. N -> Nat] :
        WovenBy(s, src, pl, A, B, v) /\ Reached("inside", stops, N, pl, v, at)
  BY <1>2
<1> HIDE DEF N
<1>4. v < N /\ Upcoming(s, src, pl, v, at)
  BY <1>1, <1>3, NextInstruction DEF N
<1>5. v \in Nat /\ v + 1 \in 1 .. N /\ v + 1 \in 0 .. N
  BY <1>1, <1>4
<1>6. s[at] = src[v + 1]
  BY <1>4 DEF Upcoming
<1>7. v + 1 \in stops /\ A[v + 1] = <<>> /\ B[v + 1] = <<>>
  BY <1>5, <1>6 DEF N
<1>8. Gaps(s, N, pl, A, B, v + 1)
  <2> SUFFICES ASSUME NEW k \in 1 .. N
               PROVE  Gap(s, pl[k - 1], pl[k], Behind(A, v + 1, k - 1), InFront(B, v + 1, k))
    BY DEF Gaps
  <2>1. Gap(s, pl[k - 1], pl[k], Behind(A, v, k - 1), InFront(B, v, k))
    BY <1>3 DEF WovenBy, Gaps, N
  <2>2. k \in Nat /\ k - 1 \in Nat
    BY <1>1
  <2>3. Behind(A, v + 1, k - 1) = Behind(A, v, k - 1)
    <3>1. k - 1 = v + 1 \/ ((k - 1 <= v + 1) <=> (k - 1 <= v))
      BY <1>5, <2>2
    <3>2. v + 1 > 0 /\ ~(v + 1 <= v) /\ v + 1 <= v + 1
      BY <1>5
    <3> QED
      BY <1>7, <3>1, <3>2 DEF Behind
  <2>4. InFront(B, v + 1, k) = InFront(B, v, k)
    <3>1. k = v + 1 \/ ((k <= v + 1) <=> (k <= v))
      BY <1>5, <2>2
    <3>2. ~(v + 1 <= v) /\ v + 1 <= v + 1
      BY <1>5
    <3> QED
      BY <1>7, <3>1, <3>2 DEF InFront
  <2> QED
    BY <2>1, <2>3, <2>4
<1>9. \A k \in stops : v + 1 <= k
  <2>1. \A k \in stops : k \in Nat /\ v < k
    BY <1>3 DEF Reached
  <2> QED
    BY <1>5, <2>1
<1>10. WovenBy(s, src, pl, A, B, v + 1)
  BY <1>3, <1>8 DEF WovenBy, N
<1>11. Reached("behind", stops, N, pl, v + 1, to)
  BY <1>7, <1>9 DEF Reached
<1> QED
  BY <1>5, <1>10, <1>11 DEF BlockWoven, N

\* At the end of the block all is visited.
LEMMA EndBlock ==
  ASSUME NEW s \in Seq(Instructions), NEW src \in Seq(Instructions), Plain(src), NEW A, NEW B,
         NEW stops, stops \subseteq Nat, NEW at \in Nat, at > Len(s),
         BlockWoven(s, src, A, B, stops, "inside", at), NEW to
  PROVE  BlockWoven(s, src, A, B, stops, "behind", to)
<1> DEFINE N == Len(src)
<1>1. N \in Nat /\ Len(s) \in Nat
  BY LenProperties
<1>2. PICK v \in 0 .. N : \E pl \in [0 .. N -> Nat] :
        WovenBy(s, src, pl, A, B, v) /\ Reached("inside", stops, N, pl, v, at)
  BY DEF BlockWoven
<1>3. PICK pl \in [0 .. N -> Nat] :
        WovenBy(s, src, pl, A, B, v) /\ Reached("inside", stops, N, pl, v, at)
  BY <1>2
<1>4. \A k, l \in 0 .. N : k < l => pl[k] < pl[l]
  BY <1>3 DEF WovenBy, PlacedAt
<1>5. pl[N] = Len(s) /\ (v < N => at <= pl[v + 1]) /\ \A k \in stops : v < k
  BY <1>3 DEF WovenBy, PlacedAt, Reached
<1> HIDE DEF N
<1>6. v = N
  <2> SUFFICES ASSUME v < N PROVE FALSE
    BY <1>1
  <2>1. v + 1 \in 0 .. N /\ N \in 0 .. N /\ (v + 1 = N \/ v + 1 < N)
    BY <1>1
  <2>2. pl[v + 1] \in Nat /\ pl[N] \in Nat /\ (v + 1 = N \/ pl[v + 1] < pl[N])
    BY <1>4, <2>1
  <2> QED
    BY <1>1, <1>5, <2>2
<1>7. \A k \in stops : v <= k
  <2>1. v \in Nat /\ \A k \in stops : k \in Nat
    BY <1>1
  <2> QED
    BY <1>5, <2>1
<1>8. Reached("behind", stops, N, pl, v, to)
  BY <1>6, <1>7 DEF Reached
<1> QED
  BY <1>3, <1>8 DEF BlockWoven, N

\* A block that has not been visited: the pass is somewhere else, or comes to its begin.
LEMMA BeginBlock ==
  ASSUME NEW s, NEW src \in Seq(Instructions), Plain(src), NEW A, NEW B,
         NEW stops, stops \subseteq Nat \ {0}, NEW at, BlockWoven(s, src, A, B, stops, "before", at)
  PROVE  /\ BlockWoven(s, src, A, B, stops, "inside", 1)
         /\ \A to : BlockWoven(s, src, A, B, stops, "before", to)
<1> DEFINE N == Len(src)
<1>1. N \in Nat /\ N > 0
  BY LenProperties DEF Plain
<1>2. PICK v \in 0 .. N : \E pl \in [0 .. N -> Nat] :
        WovenBy(s, src, pl, A, B, v) /\ Reached("before", stops, N, pl, v, at)
  BY DEF BlockWoven
<1>3. PICK pl \in [0 .. N -> Nat] :
        WovenBy(s, src, pl, A, B, v) /\ Reached("before", stops, N, pl, v, at)
  BY <1>2
<1> HIDE DEF N
<1>4. v = 0
  BY <1>3 DEF Reached
<1>5. \A to : Reached("before", stops, N, pl, v, to)
  BY <1>4 DEF Reached
<1>6. Reached("inside", stops, N, pl, v, 1)
  <2>1. \A k \in stops : v < k
    <3>1. \A k \in stops : k \in Nat /\ k # 0
      OBVIOUS
    <3> QED
      BY <1>4, <3>1
  <2>2. 0 + 1 \in 0 .. N /\ 0 \in 0 .. N /\ N \in 0 .. N /\ 0 < 0 + 1
    BY <1>1
  <2>3. pl[0] < pl[0 + 1] /\ pl[0] \in Nat /\ pl[0 + 1] \in Nat /\ pl[N] \in Nat
    BY <1>3, <2>2 DEF WovenBy, PlacedAt, N
  <2>4. 1 <= pl[0 + 1] /\ 1 <= pl[N] + 1
    BY <2>3
  <2> QED
    BY <1>4, <2>1, <2>4 DEF Reached
<1> QED
  BY <1>3, <1>5, <1>6 DEF BlockWoven, N


\* A block before the pass visits it: as it was, or behind the call of _init_.
LEMMA StartBlock ==
  ASSUME NEW src, Plain(src), NEW N \in Nat, N = Len(src), NEW w, NEW c \in {0, 1},
         Len(w) = N + c, \A k \in 1 .. N : w[k + c] = src[k],
         c = IF w[1].callee = "_init_" THEN 1 ELSE 0, c = 1 => w[1].id = 0,
         NEW A, NEW B, NEW stops, NEW at
  PROVE  BlockWoven(w, src, A, B, stops, "before", at)
<1> DEFINE pl == [k \in 0 .. N |-> k + c]
<1>1. pl \in [0 .. N -> Nat] /\ \A k \in 0 .. N : pl[k] = k + c
  OBVIOUS
<1> HIDE DEF pl
<1>2. pl[0] = (IF w[1].callee = "_init_" THEN 1 ELSE 0) /\ pl[N] = Len(w)
  BY <1>1
<1>3. \A k \in 1 .. N : pl[k] \in 1 .. Len(w) /\ w[pl[k]] = src[k]
  BY <1>1
<1>4. \A k, l \in 0 .. N : k < l => pl[k] < pl[l]
  BY <1>1
<1>5. ASSUME NEW j \in 1 .. Len(w), w[j].id # 0
      PROVE  \E k \in 1 .. N : j = pl[k]
  <2>1. j # c
    BY <1>5
  <2>2. j - c \in 1 .. N /\ j - c + c = j /\ j - c \in 0 .. N
    BY <2>1
  <2> QED
    BY <1>1, <2>2
<1>6. PlacedAt(w, src, pl)
  BY <1>1, <1>2, <1>3, <1>4, <1>5 DEF PlacedAt
<1>7. Gaps(w, N, pl, A, B, 0)
  <2> SUFFICES ASSUME NEW k \in 1 .. N
               PROVE  Gap(w, pl[k - 1], pl[k], Behind(A, 0, k - 1), InFront(B, 0, k))
    BY DEF Gaps
  <2>1. Behind(A, 0, k - 1) = <<>> /\ InFront(B, 0, k) = <<>>
    BY DEF Behind, InFront
  <2>2. k \in 0 .. N /\ k - 1 \in 0 .. N
    OBVIOUS
  <2>3. pl[k] = pl[k - 1] + 0 + 0 + 1
    BY <1>1, <2>2
  <2> QED
    BY <2>1, <2>3, NothingIs DEF Gap
<1>8. Reached("before", stops, N, pl, 0, at)
  BY DEF Reached
<1>9. 0 \in 0 .. N
  OBVIOUS
<1> QED
  BY <1>1, <1>6, <1>7, <1>8, <1>9 DEF BlockWoven, WovenBy

LEMMA PlainStart ==
  ASSUME NEW src \in Seq(Instructions), Plain(src), NEW A, NEW B, NEW stops, NEW at
  PROVE  BlockWoven(src, src, A, B, stops, "before", at)
<1>1. Len(src) \in Nat
  BY LenProperties
<1>2. src[1].callee # "_init_"
  BY <1>1 DEF Plain, Added
<1>3. Len(src) = Len(src) + 0 /\ \A k \in 1 .. Len(src) : src[k + 0] = src[k]
  BY <1>1
<1> QED
  BY <1>1, <1>2, <1>3, StartBlock

LEMMA InitStart ==
  ASSUME NEW src \in Seq(Instructions), Plain(src), NEW loc \in BOOLEAN,
         NEW w, w = <<Inserted("call", "_init_", loc)>> \o src,
         NEW A, NEW B, NEW stops, NEW at
  PROVE  BlockWoven(w, src, A, B, stops, "before", at)
<1> DEFINE x == Inserted("call", "_init_", loc)
<1>1. x \in Instructions /\ x.callee = "_init_" /\ x.id = 0
  BY DEF Inserted, Instructions, Opcodes, Callees
<1> HIDE DEF x
<1>2. <<x>> \in Seq(Instructions) /\ Len(<<x>>) = 1 /\ <<x>>[1] = x
  BY <1>1
<1>3. Joined(Instructions, w, <<x>>, src)
  BY <1>2, Concatenation DEF x
<1>4. Len(src) \in Nat
  BY LenProperties
<1>5. Len(w) = 1 + Len(src) /\ w[1] = x /\ \A k \in 1 .. Len(src) : w[1 + k] = src[k]
  BY <1>2, <1>3 DEF Joined
<1>6. Len(w) = Len(src) + 1 /\ \A k \in 1 .. Len(src) : w[k + 1] = src[k]
  BY <1>4, <1>5
<1>7. w[1].callee = "_init_" /\ w[1].id = 0
  BY <1>1, <1>5
<1> QED
  BY <1>4, <1>6, <1>7, StartBlock


-----------------------------------------------------------------------------
(* What a step of the pass does to all blocks *)

LEMMA LengthsBefore ==
  ASSUME NEW x
  PROVE  Len(Before(x)) \in Nat
<1>1. CASE x.op = "store" /\ x.loc
  BY <1>1 DEF Before
<1>2. CASE x.op \in {"invoke", "call"} /\ x.loc /\ x.callee \in DOMAIN Hooks(x.op)
  <2> DEFINE n == Hooks(x.op)[x.callee]
             loads == [k \in 1 .. n |-> <<"load", "none">>]
             L == {<<"load", "none">>, LockProbeShape}
  <2>1. n \in Nat
    BY <1>2, HooksLoads
  <2>2. Before(x) = loads \o <<LockProbeShape>>
    BY <1>2 DEF Before
  <2> HIDE DEF n
  <2>3. loads \in Seq(L) /\ <<LockProbeShape>> \in Seq(L)
    BY <2>1, IsASeq
  <2> HIDE DEF loads, L
  <2>4. Before(x) \in Seq(L)
    BY <2>2, <2>3, ConcatProperties
  <2> QED
    BY <2>4, LenProperties
<1>3. CASE ~(x.op = "store" /\ x.loc)
           /\ ~(x.op \in {"invoke", "call"} /\ x.loc /\ x.callee \in DOMAIN Hooks(x.op))
  BY <1>3 DEF Before
<1> QED
  BY <1>1, <1>2, <1>3

LEMMA SourceSides ==
  ASSUME NEW src \in Seq(Instructions), Plain(src)
  PROVE  /\ HasShapes(Befores(src), Len(src)) /\ ProbesBehind(Afters(src), Len(src))
         /\ Stops(src) \subseteq Nat \ {0}
<1>1. Len(src) \in Nat /\ Len(src) \in 1 .. Len(src)
  BY LenProperties DEF Plain
<1>2. HasShapes(Befores(src), Len(src))
  BY LengthsBefore DEF HasShapes, Befores
<1>3. \A k \in 1 .. Len(src) : Afters(src)[k] = After(src[k])
  BY DEF Afters
<1>4. \A k \in 1 .. Len(src) : Afters(src)[k] \in {<<>>, <<Probe>>}
  BY <1>3 DEF After
<1>5. Afters(src)[Len(src)] = <<>>
  BY <1>1, <1>3 DEF After, Plain
<1>6. Stops(src) \subseteq Nat \ {0}
  BY <1>1 DEF Stops
<1> QED
  BY <1>2, <1>4, <1>5, <1>6 DEF ProbesBehind

\* The source and the variant stay, and with them all that belongs around an instruction.
LEMMA SameSides ==
  ASSUME variant' = variant
  PROVE  \A src : Befores(src)' = Befores(src) /\ Stops(src)' = Stops(src)
BY DEF Befores, Before, Hooks, Stops, StopsAt

LEMMA SameSelection ==
  ASSUME variant' = variant, source' = source, NEW m, NEW f
  PROVE  Selects(source[m], source[m].funs[f])' <=> Selects(source[m], source[m].funs[f])
BY DEF Selects

LEMMA WovenThen ==
  ASSUME variant' = variant, source' = source,
         \A m \in 1 .. Len(source) \ lost' : \A f \in 1 .. Len(source[m].funs) :
           \A b \in 1 .. Len(source[m].funs[f].blocks) :
             SourceWoven(BlockOf(program', m, f, b), BlockOf(source, m, f, b), Stage(m, f, b)', ins')
  PROVE  WeaveInv'
<1> SUFFICES ASSUME NEW m \in 1 .. Len(source) \ lost', NEW f \in 1 .. Len(source[m].funs),
                    NEW b \in 1 .. Len(source[m].funs[f].blocks)
             PROVE  SourceWoven(BlockOf(program, m, f, b), BlockOf(source, m, f, b),
                                Stage(m, f, b), ins)'
  BY DEF WeaveInv
<1>1. SourceWoven(BlockOf(program', m, f, b), BlockOf(source, m, f, b), Stage(m, f, b)', ins')
  OBVIOUS
<1>2. /\ Befores(BlockOf(source, m, f, b))' = Befores(BlockOf(source, m, f, b))
      /\ Stops(BlockOf(source, m, f, b))' = Stops(BlockOf(source, m, f, b))
  BY SameSides
<1> QED
  BY <1>1, <1>2 DEF SourceWoven

LEMMA AnyPlace ==
  ASSUME NEW s, NEW src, NEW A, NEW B, NEW stops, NEW stage, stage # "inside", NEW at, NEW to,
         BlockWoven(s, src, A, B, stops, stage, at)
  PROVE  BlockWoven(s, src, A, B, stops, stage, to)
<1>1. \A v, pl : Reached(stage, stops, Len(src), pl, v, at)
                   => Reached(stage, stops, Len(src), pl, v, to)
  BY DEF Reached
<1> QED
  BY <1>1 DEF BlockWoven

LEMMA StageValues ==
  ASSUME NEW m, NEW f, NEW b
  PROVE  /\ ~Selects(source[m], source[m].funs[f]) => Stage(m, f, b) = "before"
         /\ Selects(source[m], source[m].funs[f]) /\ Inside(m, f, b) => Stage(m, f, b) = "inside"
         /\ Selects(source[m], source[m].funs[f]) /\ ~Inside(m, f, b) /\ Passed(m, f, b)
              => Stage(m, f, b) = "behind"
         /\ Selects(source[m], source[m].funs[f]) /\ ~Inside(m, f, b) /\ ~Passed(m, f, b)
              => Stage(m, f, b) = "before"
BY DEF Stage

LEMMA StageValuesThen ==
  ASSUME NEW m, NEW f, NEW b
  PROVE  (/\ ~Selects(source[m], source[m].funs[f]) => Stage(m, f, b) = "before"
          /\ Selects(source[m], source[m].funs[f]) /\ Inside(m, f, b) => Stage(m, f, b) = "inside"
          /\ Selects(source[m], source[m].funs[f]) /\ ~Inside(m, f, b) /\ Passed(m, f, b)
               => Stage(m, f, b) = "behind"
          /\ Selects(source[m], source[m].funs[f]) /\ ~Inside(m, f, b) /\ ~Passed(m, f, b)
               => Stage(m, f, b) = "before")'
BY StageValues, PTL

LEMMA SameStage ==
  ASSUME variant' = variant, source' = source, NEW m, NEW f, NEW b,
         Inside(m, f, b)' <=> Inside(m, f, b), Passed(m, f, b)' <=> Passed(m, f, b)
  PROVE  Stage(m, f, b)' = Stage(m, f, b)
BY SameSelection DEF Stage


\* A block stays as it is, and the pass has the same relation to it.
LEMMA SameWoven ==
  ASSUME WeaveInv, NEW m \in 1 .. Len(source) \ lost, NEW f \in 1 .. Len(source[m].funs),
         NEW b \in 1 .. Len(source[m].funs[f].blocks),
         NEW w, w = BlockOf(program, m, f, b), NEW stage, stage = Stage(m, f, b),
         NEW to, stage = "inside" => to = ins
  PROVE  SourceWoven(w, BlockOf(source, m, f, b), stage, to)
<1>1. SourceWoven(w, BlockOf(source, m, f, b), stage, ins)
  BY DEF WeaveInv
<1>2. CASE stage = "inside"
  BY <1>1, <1>2
<1>3. CASE stage # "inside"
  BY <1>1, <1>3, AnyPlace DEF SourceWoven
<1> QED
  BY <1>2, <1>3

LEMMA SourceBlock ==
  ASSUME PassInv, NEW m \in 1 .. Len(source), NEW f \in 1 .. Len(source[m].funs),
         NEW b \in 1 .. Len(source[m].funs[f].blocks)
  PROVE  /\ BlockOf(source, m, f, b) \in Seq(Instructions) /\ Plain(BlockOf(source, m, f, b))
         /\ BlockOf(program, m, f, b) \in Seq(Instructions)
         /\ m \in Nat /\ f \in Nat /\ b \in Nat
<1>1. /\ program \in Seq(Modules) /\ source \in Seq(Modules) /\ Compiled(source)
      /\ SameFrame(source, program)
  BY DEF PassInv, TypeOK
<1>2. BlockOf(source, m, f, b) \in Seq(Instructions) /\ Plain(BlockOf(source, m, f, b))
  BY <1>1, Parts, PlainSource
<1>3. /\ m \in 1 .. Len(program) /\ f \in 1 .. Len(program[m].funs)
      /\ b \in 1 .. Len(program[m].funs[f].blocks)
  BY <1>1 DEF SameFrame
<1>4. BlockOf(program, m, f, b) \in Seq(Instructions)
  BY <1>1, <1>3, Parts
<1> QED
  BY <1>2, <1>4

\* The block in which the pass is.
LEMMA InsideHere ==
  ASSUME PassInv, WeaveInv, InBlock
  PROVE  /\ mod \in 1 .. Len(source) \ lost /\ fun \in 1 .. Len(source[mod].funs)
         /\ blk \in 1 .. Len(source[mod].funs[fun].blocks)
         /\ Block = BlockOf(program, mod, fun, blk)
         /\ Stage(mod, fun, blk) = "inside"
         /\ SourceWoven(Block, BlockOf(source, mod, fun, blk), "inside", ins)
<1>1. /\ mod \in 1 .. Len(source) /\ fun \in 1 .. Len(source[mod].funs)
      /\ fun \in 1 .. Len(program[mod].funs)
  BY Here DEF InBlock
<1>2. mod \notin lost
  BY <1>1 DEF PassInv, TypeOK
<1>3. blk \in 1 .. Len(source[mod].funs[fun].blocks)
  <2>1. SameFrame(source, program)
    BY DEF PassInv
  <2>2. blk \in 1 .. Len(program[mod].funs[fun].blocks)
    BY DEF InBlock, F
  <2> QED
    BY <1>1, <2>1, <2>2 DEF SameFrame
<1>4. Block = BlockOf(program, mod, fun, blk)
  BY DEF Block, F, BlockOf
<1>5. blk > 0
  BY DEF InBlock
<1>6. Selects(source[mod], source[mod].funs[fun])
  BY <1>5 DEF PassInv, PositionInv
<1>7. Stage(mod, fun, blk) = "inside"
  BY <1>6, StageValues DEF Inside
<1>8. SourceWoven(Block, BlockOf(source, mod, fun, blk), "inside", ins)
  BY <1>1, <1>2, <1>3, <1>4, <1>7 DEF WeaveInv
<1> QED
  BY <1>1, <1>2, <1>3, <1>4, <1>7, <1>8

LEMMA HooksKnow ==
  ASSUME NEW op
  PROVE  DOMAIN Hooks(op) \cap {"_init_", "_probe_", "atomic"} = {}
BY DEF Hooks, InvokeHooks, CallHooks, FunctionInvokeHooks

\* The pass puts around an instruction what belongs there; so nothing around an inserted one.
LEMMA ProperHere ==
  ASSUME PassInv, AtInstruction, ~StopsAt(I),
         NEW before \in Seq(Instructions), Fits(before, Len(before), Before(I)),
         NEW after \in Seq(Instructions), Fits(after, Len(after), After(I)),
         NEW src, src = BlockOf(source, mod, fun, blk)
  PROVE  Proper(I, src, before, Len(before), after, Len(after),
                Afters(src), Befores(src), Stops(src))
<1>1. ASSUME NEW k \in 1 .. Len(src), I = src[k]
      PROVE  Suits(before, Len(before), after, Len(after), Afters(src), Befores(src), Stops(src), k)
  <2>1. Befores(src)[k] = Before(I) /\ Afters(src)[k] = After(I)
    BY <1>1 DEF Befores, Afters
  <2>2. k \notin Stops(src)
    BY <1>1 DEF Stops
  <2> QED
    BY <2>1, <2>2 DEF Suits
<1>2. ASSUME I.callee = "_init_" \/ Is(I, Probe)
      PROVE  before = <<>> /\ after = <<>>
  <2>1. I.op = "call" /\ I.callee \in {"_init_", "_probe_"}
    <3>1. CASE I.callee = "_init_"
      <4>1. /\ ins \in 1 .. Len(Block)
            /\ BlockInv(Block, src, source[mod].funs[fun].main /\ blk = 1)
        BY HereBlock
      <4> QED
        BY <3>1, <4>1 DEF BlockInv, InitFirst, I
    <3>2. CASE Is(I, Probe)
      BY <3>2 DEF Is, Probe
    <3> QED
      BY <1>2, <3>1, <3>2
  <2>2. Before(I) = <<>> /\ After(I) = <<>>
    BY <2>1, HooksKnow DEF Before, After
  <2>3. Len(before) = 0 /\ Len(after) = 0
    BY <2>2, NothingIs DEF Fits
  <2> QED
    BY <2>3, EmptySeq
<1> QED
  BY <1>1, <1>2 DEF Proper

LEMMA WeaveWoven ==
  ASSUME PassInv, WeaveInv, AtInstruction, ~StopsAt(I),
         NEW before \in Seq(Instructions), Fits(before, Len(before), Before(I)),
         NEW after \in Seq(Instructions), Fits(after, Len(after), After(I)),
         Inserts(before, after, Len(before), Len(after)),
         Weave(before, after)
  PROVE  WeaveInv'
<1> DEFINE w == Woven(Block, ins, before, after)
           src == BlockOf(source, mod, fun, blk)
<1>0. InBlock
  BY DEF AtInstruction
<1>1. /\ mod \in 1 .. Len(source) \ lost /\ fun \in 1 .. Len(source[mod].funs)
      /\ blk \in 1 .. Len(source[mod].funs[fun].blocks)
      /\ Block = BlockOf(program, mod, fun, blk)
      /\ Stage(mod, fun, blk) = "inside"
      /\ SourceWoven(Block, src, "inside", ins)
  BY <1>0, InsideHere
<1>2. /\ blk \in 1 .. Len(program[mod].funs[fun].blocks)
      /\ Block \in Seq(Instructions) /\ ins \in 1 .. Len(Block)
  BY HereBlock
<1>3. /\ mod \in 1 .. Len(program) /\ fun \in 1 .. Len(program[mod].funs)
  BY <1>0, Here DEF InBlock
<1>4. /\ program \in Seq(Modules) /\ source \in Seq(Modules)
      /\ SameFrame(source, program) /\ Len(program) = Len(source)
  BY DEF PassInv, TypeOK, SameFrame
<1>5. program' = WithBlock(program, mod, fun, blk, w)
  BY DEF Weave, Woven, Block, F, WithBlock
<1>6. /\ ins' = ins + Len(before) + 1 /\ variant' = variant /\ source' = source
      /\ mod' = mod /\ fun' = fun /\ blk' = blk /\ lost' = lost
  BY DEF Weave
<1>7. src \in Seq(Instructions) /\ Plain(src)
  BY <1>1, SourceBlock
<1>8. /\ HasShapes(Befores(src), Len(src)) /\ ProbesBehind(Afters(src), Len(src))
      /\ Stops(src) \subseteq Nat
  BY <1>7, SourceSides
<1>9. Proper(Block[ins], src, before, Len(before), after, Len(after),
             Afters(src), Befores(src), Stops(src))
  BY ProperHere DEF I
<1> HIDE DEF src
<1>10. SourceWoven(w, src, "inside", ins')
  <2>1. BlockWoven(Block, src, Afters(src), Befores(src), Stops(src), "inside", ins)
    BY <1>1 DEF SourceWoven
  <2>2. BlockWoven(w, src, Afters(src), Befores(src), Stops(src), "inside", ins + Len(before) + 1)
    BY <1>2, <1>7, <1>8, <1>9, <2>1, WeaveBlock
  <2> QED
    BY <1>6, <2>2 DEF SourceWoven
<1>11. w \in Seq(Instructions)
  <2>1. Weft(Instructions, Block, ins, before, after, w)
    BY <1>2, WovenProperties
  <2> QED
    BY <2>1 DEF Weft
<1> HIDE DEF w
<1>12. /\ BlockOf(program', mod, fun, blk) = w
       /\ \A n \in 1 .. Len(program) : n # mod => program'[n] = program[n]
       /\ \A g \in 1 .. Len(program[mod].funs) : \A c \in 1 .. Len(program[mod].funs[g].blocks) :
            g # fun \/ c # blk => BlockOf(program', mod, g, c) = BlockOf(program, mod, g, c)
  <2>1. OneBlock(program, program', mod, fun, blk, w)
    BY <1>2, <1>3, <1>4, <1>5, <1>11, SetBlock
  <2> QED
    BY <2>1 DEF OneBlock
<1>13. ASSUME NEW m \in 1 .. Len(source) \ lost, NEW f \in 1 .. Len(source[m].funs),
              NEW b \in 1 .. Len(source[m].funs[f].blocks)
       PROVE  SourceWoven(BlockOf(program', m, f, b), BlockOf(source, m, f, b),
                          Stage(m, f, b)', ins')
  <2>1. Stage(m, f, b)' = Stage(m, f, b)
    <3>1. (Inside(m, f, b)' <=> Inside(m, f, b)) /\ (Passed(m, f, b)' <=> Passed(m, f, b))
      BY <1>6 DEF Inside, Passed
    <3> QED
      BY <1>6, <3>1, SameStage
  <2>2. CASE m = mod /\ f = fun /\ b = blk
    BY <1>1, <1>10, <1>12, <2>1, <2>2 DEF src
  <2>3. CASE ~(m = mod /\ f = fun /\ b = blk)
    <3>1. BlockOf(program', m, f, b) = BlockOf(program, m, f, b)
      <4>1. CASE m # mod
        BY <1>4, <1>12, <4>1 DEF BlockOf
      <4>2. CASE m = mod
        BY <1>1, <1>4, <1>12, <2>3, <4>2 DEF SameFrame
      <4> QED
        BY <4>1, <4>2
    <3>2. Stage(m, f, b) # "inside"
      BY <2>3 DEF Stage, Inside
    <3>3. SourceWoven(BlockOf(program, m, f, b), BlockOf(source, m, f, b), Stage(m, f, b), ins')
      BY <3>2, SameWoven
    <3> QED
      BY <2>1, <3>1, <3>3
  <2> QED
    BY <2>2, <2>3
<1> QED
  BY <1>6, <1>13, WovenThen


-----------------------------------------------------------------------------
(* Every step keeps the blocks woven *)

LEMMA OneFits ==
  ASSUME NEW callee \in {"_probe_", "_probe_lock_"}, NEW loc \in BOOLEAN,
         NEW s, s = <<Inserted("call", callee, loc)>>,
         NEW shape, shape = <<"call", callee>>
  PROVE  /\ s \in Seq(Instructions) /\ Len(s) = 1 /\ Fits(s, Len(s), <<shape>>)
         /\ s[1].id = 0 /\ s[1].callee # "_init_"
<1>1. s \in Seq(Instructions)
  BY OneProbe
<1>2. Len(s) = 1 /\ s[1] = Inserted("call", callee, loc)
  OBVIOUS
<1>3. s[1].id = 0 /\ s[1].op = "call" /\ s[1].callee = callee
  BY <1>2 DEF Inserted
<1>4. Is(s[1], shape)
  BY <1>3 DEF Is
<1>5. Len(<<shape>>) = 1 /\ <<shape>>[1] = shape
  OBVIOUS
<1> QED
  BY <1>1, <1>2, <1>3, <1>4, <1>5 DEF Fits

LEMMA NothingFits == <<>> \in Seq(Instructions) /\ Len(<<>>) = 0 /\ Fits(<<>>, Len(<<>>), <<>>)
BY DEF Fits

LEMMA InsertsNothing ==
  ASSUME NEW s \in Seq(Instructions), Len(s) = 1, s[1].id = 0, s[1].callee # "_init_"
  PROVE  Inserts(s, <<>>, Len(s), Len(<<>>)) /\ Inserts(<<>>, s, Len(<<>>), Len(s))
BY NothingFits DEF Inserts

LEMMA VisitStoreWeaves == PassInv /\ WeaveInv /\ VisitStore => WeaveInv'
<1> SUFFICES ASSUME PassInv, WeaveInv, VisitStore PROVE WeaveInv'
  OBVIOUS
<1>1. AtInstruction /\ I.op = "store" /\ I.loc /\ Weave(StoreProbe, <<>>)
  BY DEF VisitStore
<1>2. Before(I) = <<Probe>> /\ After(I) = <<>>
  BY <1>1 DEF Before, After
<1>3. ~StopsAt(I)
  BY <1>1 DEF StopsAt
<1>4. /\ StoreProbe \in Seq(Instructions) /\ Len(StoreProbe) = 1
      /\ Fits(StoreProbe, Len(StoreProbe), <<Probe>>)
      /\ StoreProbe[1].id = 0 /\ StoreProbe[1].callee # "_init_"
  BY OneFits DEF StoreProbe, Probe
<1>5. Inserts(StoreProbe, <<>>, Len(StoreProbe), Len(<<>>))
  BY <1>4, InsertsNothing
<1> QED
  BY <1>1, <1>2, <1>3, <1>4, <1>5, NothingFits, WeaveWoven

LEMMA VisitLoadWeaves == PassInv /\ WeaveInv /\ VisitLoad => WeaveInv'
<1> SUFFICES ASSUME PassInv, WeaveInv, VisitLoad PROVE WeaveInv'
  OBVIOUS
<1>1. AtInstruction /\ I.op = "load" /\ I.loc /\ Weave(<<>>, LoadProbe)
  BY DEF VisitLoad
<1>2. Before(I) = <<>> /\ After(I) = <<Probe>>
  BY <1>1 DEF Before, After
<1>3. ~StopsAt(I)
  BY <1>1 DEF StopsAt
<1>4. /\ ins \in 1 .. Len(Block) /\ Block \in Seq(Instructions)
      /\ BlockInv(Block, BlockOf(source, mod, fun, blk), source[mod].funs[fun].main /\ blk = 1)
  BY <1>1, HereBlock
<1>5. ins # Len(Block)
  BY <1>1, <1>4 DEF BlockInv, Terminated, I
<1>6. ins + 1 \in 1 .. Len(Block)
  BY <1>4, <1>5, LenProperties
<1>7. Block[ins + 1].loc \in BOOLEAN
  <2>1. Block[ins + 1] \in Instructions
    BY <1>4, <1>6, ElementOfSeq
  <2> QED
    BY <2>1 DEF Instructions
<1>8. /\ LoadProbe \in Seq(Instructions) /\ Len(LoadProbe) = 1
      /\ Fits(LoadProbe, Len(LoadProbe), <<Probe>>)
      /\ LoadProbe[1].id = 0 /\ LoadProbe[1].callee # "_init_"
  BY <1>7, OneFits DEF LoadProbe, Probe
<1>9. Inserts(<<>>, LoadProbe, Len(<<>>), Len(LoadProbe))
  BY <1>8, InsertsNothing
<1> QED
  BY <1>1, <1>2, <1>3, <1>8, <1>9, NothingFits, WeaveWoven

LEMMA LockFits ==
  ASSUME NEW n \in Nat,
         NEW shapes, shapes = [k \in 1 .. n |-> <<"load", "none">>] \o <<LockProbeShape>>
  PROVE  /\ LockProbe(n) \in Seq(Instructions)
         /\ Fits(LockProbe(n), Len(LockProbe(n)), shapes)
         /\ Inserts(LockProbe(n), <<>>, Len(LockProbe(n)), Len(<<>>))
<1> DEFINE x == Inserted("load", "none", TRUE)
           y == Inserted("call", "_probe_lock_", TRUE)
           s == [k \in 1 .. n |-> x]
           t == [k \in 1 .. n |-> <<"load", "none">>]
           u == LockProbe(n)
           L == {<<"load", "none">>, LockProbeShape}
<1>1. /\ x \in Instructions /\ Is(x, <<"load", "none">>) /\ x.id = 0 /\ x.callee # "_init_"
      /\ y \in Instructions /\ Is(y, LockProbeShape) /\ y.id = 0 /\ y.callee # "_init_"
  BY DEF Inserted, Instructions, Opcodes, Callees, Is, LockProbeShape
<1>2. u = s \o <<y>> /\ shapes = t \o <<LockProbeShape>>
  BY DEF LockProbe
<1> HIDE DEF x, y, u
<1>3. /\ s \in Seq(Instructions) /\ Len(s) = n /\ \A k \in 1 .. n : s[k] = x
      /\ t \in Seq(L) /\ Len(t) = n /\ \A k \in 1 .. n : t[k] = <<"load", "none">>
  BY <1>1, IsASeq
<1>4. /\ <<y>> \in Seq(Instructions) /\ Len(<<y>>) = 1 /\ <<y>>[1] = y
      /\ <<LockProbeShape>> \in Seq(L) /\ Len(<<LockProbeShape>>) = 1
      /\ <<LockProbeShape>>[1] = LockProbeShape
  BY <1>1
<1> HIDE DEF s, t, L
<1>5. Joined(Instructions, u, s, <<y>>)
  BY <1>2, <1>3, <1>4, Concatenation
<1>6. Joined(L, shapes, t, <<LockProbeShape>>)
  BY <1>2, <1>3, <1>4, Concatenation
<1>7. /\ u \in Seq(Instructions) /\ Len(u) = n + 1 /\ u[n + 1] = y
      /\ \A k \in 1 .. n : u[k] = s[k]
  BY <1>3, <1>4, <1>5 DEF Joined
<1>8. /\ Len(shapes) = n + 1 /\ shapes[n + 1] = LockProbeShape
      /\ \A k \in 1 .. n : shapes[k] = t[k]
  BY <1>3, <1>4, <1>6 DEF Joined
<1>9. ASSUME NEW j \in 1 .. n + 1
      PROVE  Is(u[j], shapes[j]) /\ u[j].id = 0 /\ u[j].callee # "_init_"
  <2>1. CASE j = n + 1
    BY <1>1, <1>7, <1>8, <2>1
  <2>2. CASE j # n + 1
    <3>1. j \in 1 .. n
      BY <2>2
    <3>2. u[j] = x /\ shapes[j] = <<"load", "none">>
      BY <1>3, <1>7, <1>8, <3>1
    <3> QED
      BY <1>1, <3>2
  <2> QED
    BY <2>1, <2>2
<1>10. Fits(u, Len(u), shapes)
  BY <1>7, <1>8, <1>9 DEF Fits
<1>11. Inserts(u, <<>>, Len(u), Len(<<>>))
  BY <1>7, <1>9, NothingFits DEF Inserts
<1> QED
  BY <1>7, <1>10, <1>11 DEF u

LEMMA VisitLockOperationWeaves ==
  ASSUME PassInv, WeaveInv, NEW op \in {"invoke", "call"}, VisitLockOperation(op)
  PROVE  WeaveInv'
<1>1. /\ AtInstruction /\ I.op = op /\ I.loc /\ I.callee \in DOMAIN Hooks(op)
      /\ Weave(LockProbe(Hooks(op)[I.callee]), <<>>)
  BY DEF VisitLockOperation
<1> DEFINE n == Hooks(op)[I.callee]
           shapes == [k \in 1 .. n |-> <<"load", "none">>] \o <<LockProbeShape>>
<1>2. n \in Nat
  BY <1>1, HooksLoads
<1>3. ~StopsAt(I)
  BY <1>1, HooksKnow DEF StopsAt
<1>4. Before(I) = shapes /\ After(I) = <<>>
  BY <1>1 DEF Before, After
<1> HIDE DEF n
<1>5. /\ LockProbe(n) \in Seq(Instructions) /\ Fits(LockProbe(n), Len(LockProbe(n)), shapes)
      /\ Inserts(LockProbe(n), <<>>, Len(LockProbe(n)), Len(<<>>))
  BY <1>2, LockFits
<1>6. Weave(LockProbe(n), <<>>)
  BY <1>1 DEF n
<1> HIDE DEF shapes
<1> QED
  BY <1>1, <1>3, <1>4, <1>5, <1>6, NothingFits, WeaveWoven

LEMMA VisitOtherWeaves == PassInv /\ WeaveInv /\ VisitOther => WeaveInv'
<1> SUFFICES ASSUME PassInv, WeaveInv, VisitOther PROVE WeaveInv'
  OBVIOUS
<1>1. AtInstruction /\ Weave(<<>>, <<>>) /\ ~StopsAt(I)
  BY DEF VisitOther
<1>2. Before(I) = <<>> /\ After(I) = <<>>
  BY DEF VisitOther, Before, After
<1>3. Inserts(<<>>, <<>>, Len(<<>>), Len(<<>>))
  BY NothingFits DEF Inserts
<1> QED
  BY <1>1, <1>2, <1>3, NothingFits, WeaveWoven


\* Leaving a block, of which all has been visited that ever will be.
LEMMA LeaveBlockWeaves ==
  ASSUME PassInv, WeaveInv, InBlock, LeaveBlock,
         \A to : SourceWoven(Block, BlockOf(source, mod, fun, blk), "behind", to)
  PROVE  WeaveInv'
<1>1. /\ blk' = blk + 1 /\ ins' = 1
      /\ variant' = variant /\ source' = source /\ program' = program
      /\ mod' = mod /\ fun' = fun /\ lost' = lost
  BY DEF LeaveBlock
<1>2. /\ Block = BlockOf(program, mod, fun, blk) /\ Stage(mod, fun, blk) = "inside"
  BY InsideHere
<1>3. /\ mod \in Nat /\ fun \in Nat /\ blk \in Nat
      /\ Selects(source[mod], source[mod].funs[fun])
  BY DEF InBlock, PassInv, TypeOK, PositionInv
<1>4. ASSUME NEW m \in 1 .. Len(source) \ lost, NEW f \in 1 .. Len(source[m].funs),
             NEW b \in 1 .. Len(source[m].funs[f].blocks)
      PROVE  SourceWoven(BlockOf(program, m, f, b), BlockOf(source, m, f, b),
                         Stage(m, f, b)', ins')
  <2>1. m \in Nat /\ f \in Nat /\ b \in Nat
    BY SourceBlock
  <2>2. CASE m = mod /\ f = fun /\ b = blk
    <3>1. ~Inside(m, f, b)' /\ Passed(m, f, b)'
      BY <1>1, <1>3, <2>2 DEF Inside, Passed
    <3>2. Selects(source[m], source[m].funs[f])'
      BY <1>1, <1>3, <2>2, SameSelection
    <3>3. Stage(m, f, b)' = "behind"
      BY <3>1, <3>2, StageValuesThen
    <3> QED
      BY <1>2, <2>2, <3>3
  <2>3. CASE m = mod /\ f = fun /\ b = blk + 1
    <3>1. ~Inside(m, f, b) /\ ~Passed(m, f, b) /\ Inside(m, f, b)'
      BY <1>1, <1>3, <2>3 DEF Inside, Passed
    <3>2. Selects(source[m], source[m].funs[f])'
      BY <1>1, <1>3, <2>3, SameSelection
    <3>3. Stage(m, f, b) = "before"
      BY <1>3, <2>3, <3>1, StageValues
    <3>4. Stage(m, f, b)' = "inside"
      BY <3>1, <3>2, StageValuesThen
    <3>5. /\ BlockOf(source, m, f, b) \in Seq(Instructions) /\ Plain(BlockOf(source, m, f, b))
          /\ Stops(BlockOf(source, m, f, b)) \subseteq Nat \ {0}
      BY SourceBlock, SourceSides
    <3>6. SourceWoven(BlockOf(program, m, f, b), BlockOf(source, m, f, b), "before", ins)
      BY <3>3 DEF WeaveInv
    <3>7. SourceWoven(BlockOf(program, m, f, b), BlockOf(source, m, f, b), "inside", 1)
      BY <3>5, <3>6, BeginBlock DEF SourceWoven
    <3> QED
      BY <1>1, <3>4, <3>7
  <2>4. CASE ~(m = mod /\ f = fun /\ b \in {blk, blk + 1})
    <3>1. (Inside(m, f, b)' <=> Inside(m, f, b)) /\ (Passed(m, f, b)' <=> Passed(m, f, b))
      BY <1>1, <1>3, <2>1, <2>4 DEF Inside, Passed
    <3>2. Stage(m, f, b)' = Stage(m, f, b)
      BY <1>1, <3>1, SameStage
    <3>3. Stage(m, f, b) # "inside"
      BY <2>4 DEF Stage, Inside
    <3>4. SourceWoven(BlockOf(program, m, f, b), BlockOf(source, m, f, b), Stage(m, f, b), ins')
      BY <3>3, SameWoven
    <3> QED
      BY <3>2, <3>4
  <2> QED
    BY <2>2, <2>3, <2>4
<1>5. \A m \in 1 .. Len(source) \ lost' : \A f \in 1 .. Len(source[m].funs) :
        \A b \in 1 .. Len(source[m].funs[f].blocks) :
          SourceWoven(BlockOf(program', m, f, b), BlockOf(source, m, f, b), Stage(m, f, b)', ins')
  BY <1>1, <1>4
<1> QED
  BY <1>1, <1>5, WovenThen

LEMMA EndOfBlockWeaves == PassInv /\ WeaveInv /\ EndOfBlock => WeaveInv'
<1> SUFFICES ASSUME PassInv, WeaveInv, EndOfBlock PROVE WeaveInv'
  OBVIOUS
<1> DEFINE src == BlockOf(source, mod, fun, blk)
<1>1. InBlock /\ ins > Len(Block) /\ LeaveBlock
  BY DEF EndOfBlock
<1>2. /\ mod \in 1 .. Len(source) \ lost /\ fun \in 1 .. Len(source[mod].funs)
      /\ blk \in 1 .. Len(source[mod].funs[fun].blocks)
      /\ Block = BlockOf(program, mod, fun, blk)
      /\ SourceWoven(Block, src, "inside", ins)
  BY <1>1, InsideHere
<1>3. src \in Seq(Instructions) /\ Plain(src) /\ Block \in Seq(Instructions)
  BY <1>2, SourceBlock
<1>4. ins \in Nat
  BY DEF PassInv, TypeOK
<1> HIDE DEF src
<1>5. Stops(src) \subseteq Nat
  BY <1>3, SourceSides
<1>6. \A to : SourceWoven(Block, src, "behind", to)
  BY <1>1, <1>2, <1>3, <1>4, <1>5, EndBlock DEF SourceWoven
<1> QED
  BY <1>1, <1>6, LeaveBlockWeaves DEF src

LEMMA VisitAtomicWeaves == PassInv /\ WeaveInv /\ VisitAtomic => WeaveInv'
<1> SUFFICES ASSUME PassInv, WeaveInv, VisitAtomic PROVE WeaveInv'
  OBVIOUS
<1> DEFINE src == BlockOf(source, mod, fun, blk)
<1>1. AtInstruction /\ InBlock /\ StopsAt(I) /\ LeaveBlock
  BY DEF VisitAtomic, AtInstruction
<1>2. /\ mod \in 1 .. Len(source) \ lost /\ fun \in 1 .. Len(source[mod].funs)
      /\ blk \in 1 .. Len(source[mod].funs[fun].blocks)
      /\ Block = BlockOf(program, mod, fun, blk)
      /\ SourceWoven(Block, src, "inside", ins)
  BY <1>1, InsideHere
<1>3. src \in Seq(Instructions) /\ Plain(src) /\ Block \in Seq(Instructions)
  BY <1>2, SourceBlock
<1>4. ins \in 1 .. Len(Block)
  BY <1>1, HereBlock
<1> HIDE DEF src
<1>5. Stops(src) \subseteq Nat /\ ProbesBehind(Afters(src), Len(src))
  BY <1>3, SourceSides
<1>6. I.op = "call" /\ I.callee = "atomic"
  BY <1>1 DEF StopsAt
<1>7. Before(I) = <<>> /\ After(I) = <<>>
  BY <1>6, HooksKnow DEF Before, After
<1>8. \A k \in 1 .. Len(src) : Block[ins] = src[k] =>
        k \in Stops(src) /\ Afters(src)[k] = <<>> /\ Befores(src)[k] = <<>>
  BY <1>1, <1>7 DEF I, Stops, Afters, Befores
<1>9. ~(Block[ins].callee = "_init_" \/ Is(Block[ins], Probe))
  BY <1>6 DEF I, Is, Probe
<1>10. \A to : SourceWoven(Block, src, "behind", to)
  BY <1>2, <1>3, <1>4, <1>5, <1>8, <1>9, StopBlock DEF SourceWoven
<1> QED
  BY <1>1, <1>10, LeaveBlockWeaves DEF src


LEMMA MoveWeaves ==
  ASSUME PassInv, WeaveInv, variant' = variant, source' = source, program' = program,
         lost \subseteq lost',
         \A m \in 1 .. Len(source) \ lost' : \A f \in 1 .. Len(source[m].funs) :
           \A b \in 1 .. Len(source[m].funs[f].blocks) :
             Selects(source[m], source[m].funs[f]) =>
               /\ ~Inside(m, f, b) /\ ~Inside(m, f, b)'
               /\ Passed(m, f, b)' <=> Passed(m, f, b)
  PROVE  WeaveInv'
<1>1. ASSUME NEW m \in 1 .. Len(source) \ lost', NEW f \in 1 .. Len(source[m].funs),
             NEW b \in 1 .. Len(source[m].funs[f].blocks)
      PROVE  SourceWoven(BlockOf(program', m, f, b), BlockOf(source, m, f, b),
                         Stage(m, f, b)', ins')
  <2>1. CASE Selects(source[m], source[m].funs[f])
    <3>1. ~Inside(m, f, b) /\ ~Inside(m, f, b)' /\ (Passed(m, f, b)' <=> Passed(m, f, b))
      BY <2>1
    <3>2. Stage(m, f, b)' = Stage(m, f, b)
      BY <3>1, SameStage
    <3>3. Stage(m, f, b) # "inside"
      BY <2>1, <3>1, StageValues
    <3> QED
      BY <3>2, <3>3, SameWoven
  <2>2. CASE ~Selects(source[m], source[m].funs[f])
    <3>1. ~(Selects(source[m], source[m].funs[f])')
      BY <2>2, SameSelection
    <3>2. Stage(m, f, b)' = "before"
      BY <3>1, StageValuesThen
    <3>3. Stage(m, f, b) = "before"
      BY <2>2, StageValues
    <3> QED
      BY <3>2, <3>3, SameWoven
  <2> QED
    BY <2>1, <2>2
<1> QED
  BY <1>1, WovenThen

LEMMA NextModuleOrFunctionWeaves ==
  ASSUME PassInv, WeaveInv, EnterModule \/ SkipFunction \/ LeaveFunction
  PROVE  WeaveInv'
<1>1. /\ mod \in Nat /\ fun \in Nat /\ fun > 0 /\ blk \in Nat
      /\ source \in Seq(Modules) /\ SameFrame(source, program)
  BY DEF PassInv, TypeOK
<1>2. CASE EnterModule
  <2>1. /\ mod' = mod + 1 /\ fun' = 1 /\ blk' = blk /\ lost' = lost
        /\ variant' = variant /\ source' = source /\ program' = program
    BY <1>2 DEF EnterModule
  <2>2. mod \in 1 .. Len(source) /\ fun > Len(source[mod].funs)
    <3>1. mod \in 1 .. Len(source)
      <4>1. Len(source) \in Nat /\ Len(program) = Len(source)
        BY <1>1, LenProperties DEF SameFrame
      <4> QED
        BY <1>2, <4>1 DEF EnterModule, InModule, PassInv, TypeOK
    <3>2. Len(program[mod].funs) = Len(source[mod].funs)
      BY <1>1, <3>1 DEF SameFrame
    <3> QED
      BY <1>2, <3>1, <3>2 DEF EnterModule
  <2>3. Len(source[mod].funs) \in Nat
    <3>1. source[mod] \in Modules
      BY <1>1, <2>2, ElementOfSeq
    <3> QED
      BY <3>1, LenProperties DEF Modules
  <2>4. blk = 0
    BY <1>1, <2>2, <2>3 DEF PassInv, PositionInv
  <2>5. ASSUME NEW m \in 1 .. Len(source) \ lost', NEW f \in 1 .. Len(source[m].funs),
               NEW b \in 1 .. Len(source[m].funs[f].blocks)
        PROVE  /\ ~Inside(m, f, b) /\ ~Inside(m, f, b)'
               /\ Passed(m, f, b)' <=> Passed(m, f, b)
    <3>1. m \in Nat /\ f \in Nat /\ b \in Nat /\ b > 0 /\ f > 0
      BY SourceBlock
    <3>2. m = mod => f < fun
      BY <1>1, <2>2, <2>3
    <3> QED
      BY <1>1, <2>1, <2>4, <3>1, <3>2 DEF Inside, Passed
  <2> QED
    BY <2>1, <2>5, MoveWeaves
<1>3. CASE SkipFunction
  <2>1. /\ mod' = mod /\ fun' = fun + 1 /\ blk = 0 /\ blk' = 0 /\ lost' = lost
        /\ variant' = variant /\ source' = source /\ program' = program
    BY <1>3 DEF SkipFunction
  <2>2. ~Selects(source[mod], source[mod].funs[fun])
    BY <1>3, Here DEF SkipFunction
  <2>3. ASSUME NEW m \in 1 .. Len(source) \ lost', NEW f \in 1 .. Len(source[m].funs),
               NEW b \in 1 .. Len(source[m].funs[f].blocks), Selects(source[m], source[m].funs[f])
        PROVE  /\ ~Inside(m, f, b) /\ ~Inside(m, f, b)'
               /\ Passed(m, f, b)' <=> Passed(m, f, b)
    <3>1. m \in Nat /\ f \in Nat /\ b \in Nat /\ b > 0
      BY SourceBlock
    <3>2. ~(m = mod /\ f = fun)
      BY <2>2, <2>3
    <3> QED
      BY <1>1, <2>1, <3>1, <3>2 DEF Inside, Passed
  <2> QED
    BY <2>1, <2>3, MoveWeaves
<1>4. CASE LeaveFunction
  <2>1. /\ mod' = mod /\ fun' = fun + 1 /\ blk' = 0 /\ lost' = lost
        /\ variant' = variant /\ source' = source /\ program' = program
    BY <1>4 DEF LeaveFunction
  <2>2. blk > Len(source[mod].funs[fun].blocks) /\ Len(source[mod].funs[fun].blocks) \in Nat
    <3>1. mod \in 1 .. Len(source) /\ fun \in 1 .. Len(source[mod].funs)
      BY <1>4, Here DEF LeaveFunction
    <3>2. Len(program[mod].funs[fun].blocks) = Len(source[mod].funs[fun].blocks)
      BY <1>1, <3>1 DEF SameFrame
    <3>3. source[mod].funs[fun].blocks \in Seq(Seq(Instructions))
      BY <1>1, <3>1, Parts
    <3> QED
      BY <1>4, <3>2, <3>3, LenProperties DEF LeaveFunction, F
  <2>3. ASSUME NEW m \in 1 .. Len(source) \ lost', NEW f \in 1 .. Len(source[m].funs),
               NEW b \in 1 .. Len(source[m].funs[f].blocks)
        PROVE  /\ ~Inside(m, f, b) /\ ~Inside(m, f, b)'
               /\ Passed(m, f, b)' <=> Passed(m, f, b)
    <3>1. m \in Nat /\ f \in Nat /\ b \in Nat /\ b > 0
      BY SourceBlock
    <3>2. m = mod /\ f = fun => b < blk
      BY <1>1, <2>2
    <3> QED
      BY <1>1, <2>1, <3>1, <3>2 DEF Inside, Passed
  <2> QED
    BY <2>1, <2>3, MoveWeaves
<1> QED
  BY <1>2, <1>3, <1>4

LEMMA DiesWeaves == PassInv /\ WeaveInv /\ Dies => WeaveInv'
<1> SUFFICES ASSUME PassInv, WeaveInv, Dies PROVE WeaveInv'
  OBVIOUS
<1>1. /\ mod' = mod + 1 /\ fun' = 1 /\ blk' = 0 /\ lost' = lost \cup {mod}
      /\ variant' = variant /\ source' = source /\ program' = program
  BY DEF Dies
<1>2. mod \in Nat /\ fun \in Nat /\ blk \in Nat
  BY DEF PassInv, TypeOK
<1>3. ASSUME NEW m \in 1 .. Len(source) \ lost', NEW f \in 1 .. Len(source[m].funs),
             NEW b \in 1 .. Len(source[m].funs[f].blocks)
      PROVE  /\ ~Inside(m, f, b) /\ ~Inside(m, f, b)'
             /\ Passed(m, f, b)' <=> Passed(m, f, b)
  <2>1. m \in Nat /\ f \in Nat /\ b \in Nat /\ b > 0 /\ f > 0
    BY SourceBlock
  <2>2. m # mod
    BY <1>1
  <2> QED
    BY <1>1, <1>2, <2>1, <2>2 DEF Inside, Passed
<1> QED
  BY <1>1, <1>3, MoveWeaves

\* main is sought when the first function is selected: until then there was none.
FirstSelected ==
  mod <= Len(source) /\ ~initial =>
    \A f \in 1 .. Len(source[mod].funs) : f < fun => ~Selects(source[mod], source[mod].funs[f])

LEMMA FirstSelectedKeeps == PassInv /\ FirstSelected /\ [Next]_vars => FirstSelected'
<1> SUFFICES ASSUME PassInv, FirstSelected, [Next]_vars PROVE FirstSelected'
  OBVIOUS
<1>1. mod \in Nat /\ fun \in Nat /\ blk \in Nat /\ initial \in BOOLEAN
  BY DEF PassInv, TypeOK
<1>2. ASSUME variant' = variant, source' = source, mod' = mod, fun' = fun,
             initial' = initial \/ initial' = TRUE
      PROVE  FirstSelected'
  BY <1>2, SameSelection DEF FirstSelected
<1>3. ASSUME variant' = variant, source' = source, fun' = 1
      PROVE  FirstSelected'
  <2>1. \A f \in 1 .. Len(source[mod].funs)' : ~(f < fun')
    BY <1>3
  <2> QED
    BY <2>1 DEF FirstSelected
<1>4. CASE EnterModule \/ NoEntryBlock \/ VisitIndirect \/ VisitMisfit
  BY <1>3, <1>4 DEF EnterModule, NoEntryBlock, VisitIndirect, VisitMisfit, Dies
<1>5. CASE SkipFunction
  <2>1. /\ variant' = variant /\ source' = source /\ mod' = mod /\ initial' = initial
        /\ fun' = fun + 1
    BY <1>5 DEF SkipFunction
  <2>2. ~Selects(source[mod], source[mod].funs[fun])
    BY <1>5, Here DEF SkipFunction
  <2> SUFFICES ASSUME mod <= Len(source), ~initial,
                      NEW f \in 1 .. Len(source[mod].funs), f < fun + 1
               PROVE  ~(Selects(source[mod], source[mod].funs[f])')
    BY <2>1 DEF FirstSelected
  <2>3. f < fun \/ f = fun
    BY <1>1
  <2>4. ~Selects(source[mod], source[mod].funs[f])
    BY <2>2, <2>3 DEF FirstSelected
  <2> QED
    BY <2>1, <2>4, SameSelection
<1>6. CASE LeaveFunction
  <2>1. initial' = initial
    BY <1>6 DEF LeaveFunction
  <2>2. mod \in 1 .. Len(source) /\ fun \in 1 .. Len(source[mod].funs)
    BY <1>6, Here DEF LeaveFunction
  <2>3. Len(program[mod].funs[fun].blocks) \in Nat
    <3>1. program \in Seq(Modules) /\ mod \in 1 .. Len(program) /\ fun \in 1 .. Len(program[mod].funs)
      BY <1>6, Here DEF LeaveFunction, PassInv, TypeOK
    <3>2. program[mod].funs[fun].blocks \in Seq(Seq(Instructions))
      BY <3>1, Parts
    <3> QED
      BY <3>2, LenProperties
  <2>4. blk > 0
    <3>1. blk > Len(program[mod].funs[fun].blocks)
      BY <1>6 DEF LeaveFunction, F
    <3>2. \A x, y \in Nat : x > y => x > 0
      OBVIOUS
    <3> QED
      BY <1>1, <2>3, <3>1, <3>2, Zenon
  <2>5. initial
    BY <2>4 DEF PassInv, PositionInv
  <2> QED
    BY <2>1, <2>5 DEF FirstSelected
<1>7. CASE EnterFunction
  BY <1>2, <1>7 DEF EnterFunction
<1>8. CASE EndOfBlock \/ VisitAtomic
  BY <1>2, <1>8 DEF EndOfBlock, VisitAtomic, LeaveBlock
<1>9. CASE VisitStore \/ VisitLoad \/ VisitInvoke \/ VisitCall \/ VisitOther
  <2>1. /\ variant' = variant /\ source' = source /\ mod' = mod /\ fun' = fun
        /\ initial' = initial
    BY <1>9 DEF VisitStore, VisitLoad, VisitInvoke, VisitCall, VisitLockOperation, VisitOther, Weave
  <2> QED
    BY <1>2, <2>1
<1>10. CASE Done \/ UNCHANGED vars
  BY <1>2, <1>10 DEF Done, vars
<1> QED
  BY <1>4, <1>5, <1>6, <1>7, <1>8, <1>9, <1>10 DEF Next, Step, Visit

LEMMA EnterFunctionWeaves == PassInv /\ FirstSelected /\ WeaveInv /\ EnterFunction => WeaveInv'
<1> SUFFICES ASSUME PassInv, FirstSelected, WeaveInv, EnterFunction PROVE WeaveInv'
  OBVIOUS
<1>1. /\ blk = 0 /\ blk' = 1 /\ ins' = 1
      /\ variant' = variant /\ source' = source /\ mod' = mod /\ fun' = fun /\ lost' = lost
  BY DEF EnterFunction
<1>2. /\ mod \in 1 .. Len(program) /\ mod \in 1 .. Len(source)
      /\ fun \in 1 .. Len(source[mod].funs)
      /\ Selects(source[mod], source[mod].funs[fun])
  BY Here DEF EnterFunction
<1>3. /\ program \in Seq(Modules) /\ source \in Seq(Modules) /\ Compiled(source)
      /\ SameFrame(source, program) /\ Len(program) = Len(source)
      /\ mod \in Nat /\ fun \in Nat /\ Len(source) \in Nat
  BY LenProperties DEF PassInv, TypeOK, SameFrame
<1>4. \* What becomes of a block that is as the pass has left it.
      ASSUME NEW m \in 1 .. Len(source) \ lost, NEW f \in 1 .. Len(source[m].funs),
             NEW b \in 1 .. Len(source[m].funs[f].blocks),
             NEW w, w = BlockOf(program, m, f, b) \/ (Stage(m, f, b) = "before" /\ \A to :
                         SourceWoven(w, BlockOf(source, m, f, b), "before", to))
      PROVE  SourceWoven(w, BlockOf(source, m, f, b), Stage(m, f, b)', ins')
  <2>1. m \in Nat /\ f \in Nat /\ b \in Nat /\ b > 0
    BY SourceBlock
  <2>2. CASE m = mod /\ f = fun /\ b = 1
    <3>1. ~Inside(m, f, b) /\ ~Passed(m, f, b) /\ Inside(m, f, b)'
      BY <1>1, <1>3, <2>2 DEF Inside, Passed
    <3>2. Selects(source[m], source[m].funs[f])'
      BY <1>1, <1>2, <2>2, SameSelection
    <3>3. Stage(m, f, b) = "before"
      BY <1>2, <2>2, <3>1, StageValues
    <3>4. Stage(m, f, b)' = "inside"
      BY <3>1, <3>2, StageValuesThen
    <3>5. /\ BlockOf(source, m, f, b) \in Seq(Instructions) /\ Plain(BlockOf(source, m, f, b))
          /\ Stops(BlockOf(source, m, f, b)) \subseteq Nat \ {0}
      BY SourceBlock, SourceSides
    <3>6. SourceWoven(BlockOf(program, m, f, b), BlockOf(source, m, f, b), "before", ins)
      BY <3>3 DEF WeaveInv
    <3>7. SourceWoven(w, BlockOf(source, m, f, b), "before", ins)
      BY <1>4, <3>6
    <3>8. SourceWoven(w, BlockOf(source, m, f, b), "inside", 1)
      BY <3>5, <3>7, BeginBlock DEF SourceWoven
    <3> QED
      BY <1>1, <3>4, <3>8
  <2>3. CASE ~(m = mod /\ f = fun /\ b = 1)
    <3>1. (Inside(m, f, b)' <=> Inside(m, f, b)) /\ (Passed(m, f, b)' <=> Passed(m, f, b))
      BY <1>1, <1>3, <2>1, <2>3 DEF Inside, Passed
    <3>2. Stage(m, f, b)' = Stage(m, f, b)
      BY <1>1, <3>1, SameStage
    <3>3. Stage(m, f, b) # "inside"
      BY <1>1, <2>1 DEF Stage, Inside
    <3>4. SourceWoven(BlockOf(program, m, f, b), BlockOf(source, m, f, b), Stage(m, f, b), ins')
      BY <3>3, SameWoven
    <3>5. SourceWoven(w, BlockOf(source, m, f, b), Stage(m, f, b), ins')
      BY <1>4, <3>4
    <3> QED
      BY <3>2, <3>5
  <2> QED
    BY <2>2, <2>3
<1>5. CASE initial
  <2>1. program' = program
    BY <1>5 DEF EnterFunction
  <2> QED
    BY <1>1, <1>4, <2>1, WovenThen
<1>6. CASE ~initial
  <2>1. program' = [program EXCEPT ![mod] = Initialized(program[mod])]
    BY <1>6 DEF EnterFunction, FunctionInitialized
  <2>2. program[mod] = source[mod]
    BY <1>2, <1>6 DEF PassInv, OpenedInv
  <2>3. ASSUME NEW f \in 1 .. Len(source[mod].funs)
        PROVE  /\ Len(source[mod].funs[f].blocks) > 0
               /\ Len(BlockOf(source, mod, f, 1)) > 0
    <3>1. Len(source[mod].funs[f].blocks) > 0
      BY <1>2, <1>3, PlainSource
    <3>2. 1 \in 1 .. Len(source[mod].funs[f].blocks)
      <4>1. source[mod].funs[f].blocks \in Seq(Seq(Instructions))
        BY <1>2, <1>3, Parts
      <4> QED
        BY <3>1, <4>1, LenProperties
    <3>3. Plain(BlockOf(source, mod, f, 1))
      BY <1>2, <1>3, <3>2, PlainSource
    <3> QED
      BY <3>1, <3>3 DEF Plain
  <2>4. \A f \in 1 .. Len(program[mod].funs) :
          Len(program[mod].funs[f].blocks) > 0 /\ Len(BlockOf(program, mod, f, 1)) > 0
    BY <2>2, <2>3 DEF BlockOf
  <2>5. InitializedIn(program, program', mod)
    BY <1>2, <1>3, <2>1, <2>4, InitializedModule
  <2>6. /\ \A n \in 1 .. Len(program) : n # mod => program'[n] = program[n]
        /\ \A g \in 1 .. Len(source[mod].funs) :
             /\ source[mod].funs[g].main => \E loc \in BOOLEAN :
                  BlockOf(program', mod, g, 1)
                    = <<Inserted("call", "_init_", loc)>> \o BlockOf(program, mod, g, 1)
             /\ \A c \in 1 .. Len(source[mod].funs[g].blocks) :
                  ~source[mod].funs[g].main \/ c # 1
                    => BlockOf(program', mod, g, c) = BlockOf(program, mod, g, c)
    BY <2>2, <2>5 DEF InitializedIn
  <2>7. ASSUME NEW m \in 1 .. Len(source) \ lost, NEW f \in 1 .. Len(source[m].funs),
               NEW b \in 1 .. Len(source[m].funs[f].blocks)
        PROVE  SourceWoven(BlockOf(program', m, f, b), BlockOf(source, m, f, b),
                           Stage(m, f, b)', ins')
    <3>1. CASE m # mod
      <4>1. BlockOf(program', m, f, b) = BlockOf(program, m, f, b)
        BY <1>3, <2>6, <3>1 DEF BlockOf
      <4> QED
        BY <1>4, <4>1
    <3>2. CASE m = mod /\ ~(source[m].funs[f].main /\ b = 1)
      <4>1. BlockOf(program', m, f, b) = BlockOf(program, m, f, b)
        BY <2>6, <3>2
      <4> QED
        BY <1>4, <4>1
    <3>3. CASE m = mod /\ source[m].funs[f].main /\ b = 1
      <4>1. BlockOf(program, m, f, b) = BlockOf(source, m, f, b)
        BY <2>2, <3>3 DEF BlockOf
      <4>2. PICK loc \in BOOLEAN :
              BlockOf(program', m, f, b)
                = <<Inserted("call", "_init_", loc)>> \o BlockOf(source, m, f, b)
        BY <2>6, <3>3, <4>1
      <4>3. BlockOf(source, m, f, b) \in Seq(Instructions) /\ Plain(BlockOf(source, m, f, b))
        BY SourceBlock
      <4>4. \A to : SourceWoven(BlockOf(program', m, f, b), BlockOf(source, m, f, b), "before", to)
        BY <4>2, <4>3, InitStart DEF SourceWoven
      <4>5. Stage(m, f, b) = "before"
        <5>1. m \in Nat /\ f \in Nat /\ b \in Nat /\ b > 0
          BY SourceBlock
        <5>2. mod <= Len(source)
          BY <1>2, <1>3
        <5>3. f < fun => ~Selects(source[m], source[m].funs[f])
          BY <1>6, <3>3, <5>2 DEF FirstSelected
        <5>4. ~(f < fun) => ~Inside(m, f, b) /\ ~Passed(m, f, b)
          BY <1>1, <1>3, <3>3, <5>1 DEF Inside, Passed
        <5> QED
          BY <5>3, <5>4, StageValues
      <4> QED
        BY <1>4, <4>4, <4>5
    <3> QED
      BY <3>1, <3>2, <3>3
  <2> QED
    BY <1>1, <2>7, WovenThen
<1> QED
  BY <1>5, <1>6 DEF PassInv, TypeOK


LEMMA InitWoven == Init => FirstSelected /\ WeaveInv
<1> SUFFICES ASSUME Init PROVE FirstSelected /\ WeaveInv
  OBVIOUS
<1>1. PassInv
  BY InitHolds
<1>2. program = source /\ mod = 1 /\ fun = 1 /\ blk = 0
  BY DEF Init
<1>3. FirstSelected
  BY <1>2 DEF FirstSelected
<1>4. ASSUME NEW m \in 1 .. Len(source) \ lost, NEW f \in 1 .. Len(source[m].funs),
             NEW b \in 1 .. Len(source[m].funs[f].blocks)
      PROVE  SourceWoven(BlockOf(program, m, f, b), BlockOf(source, m, f, b), Stage(m, f, b), ins)
  <2>1. /\ BlockOf(source, m, f, b) \in Seq(Instructions) /\ Plain(BlockOf(source, m, f, b))
        /\ m \in Nat /\ f \in Nat /\ b \in Nat
    BY <1>1, SourceBlock
  <2>2. ~Inside(m, f, b) /\ ~Passed(m, f, b)
    <3>1. m > 0 /\ f > 0 /\ b > 0
      OBVIOUS
    <3> QED
      BY <1>2, <2>1, <3>1 DEF Inside, Passed
  <2>3. Stage(m, f, b) = "before"
    BY <2>2, StageValues
  <2> QED
    BY <1>2, <2>1, <2>3, PlainStart DEF SourceWoven
<1> QED
  BY <1>3, <1>4 DEF WeaveInv

LEMMA StutterWeaves == WeaveInv /\ UNCHANGED vars => WeaveInv'
<1> SUFFICES ASSUME WeaveInv, UNCHANGED vars PROVE WeaveInv'
  OBVIOUS
<1>1. /\ variant' = variant /\ source' = source /\ program' = program
      /\ mod' = mod /\ fun' = fun /\ blk' = blk /\ ins' = ins /\ lost' = lost
  BY DEF vars
<1>2. ASSUME NEW m \in 1 .. Len(source) \ lost', NEW f \in 1 .. Len(source[m].funs),
             NEW b \in 1 .. Len(source[m].funs[f].blocks)
      PROVE  SourceWoven(BlockOf(program', m, f, b), BlockOf(source, m, f, b),
                         Stage(m, f, b)', ins')
  <2>1. (Inside(m, f, b)' <=> Inside(m, f, b)) /\ (Passed(m, f, b)' <=> Passed(m, f, b))
    BY <1>1 DEF Inside, Passed
  <2>2. Stage(m, f, b)' = Stage(m, f, b)
    BY <1>1, <2>1, SameStage
  <2> QED
    BY <1>1, <2>2, SameWoven
<1> QED
  BY <1>1, <1>2, WovenThen

LEMMA WeaveInvariant == Spec => [](PassInv /\ FirstSelected /\ WeaveInv)
<1>1. PassInv /\ FirstSelected /\ WeaveInv /\ [Next]_vars => WeaveInv'
  <2> SUFFICES ASSUME PassInv, FirstSelected, WeaveInv, [Next]_vars PROVE WeaveInv'
    OBVIOUS
  <2>1. CASE EnterModule \/ SkipFunction \/ LeaveFunction
    BY <2>1, NextModuleOrFunctionWeaves
  <2>2. CASE EnterFunction
    BY <2>2, EnterFunctionWeaves
  <2>3. CASE EndOfBlock
    BY <2>3, EndOfBlockWeaves
  <2>4. CASE VisitStore
    BY <2>4, VisitStoreWeaves
  <2>5. CASE VisitLoad
    BY <2>5, VisitLoadWeaves
  <2>6. CASE VisitInvoke \/ VisitCall
    BY <2>6, VisitLockOperationWeaves DEF VisitInvoke, VisitCall
  <2>7. CASE NoEntryBlock \/ VisitIndirect \/ VisitMisfit
    BY <2>7, DiesWeaves DEF NoEntryBlock, VisitIndirect, VisitMisfit
  <2>8. CASE VisitAtomic
    BY <2>8, VisitAtomicWeaves
  <2>9. CASE VisitOther
    BY <2>9, VisitOtherWeaves
  <2>10. CASE Done \/ UNCHANGED vars
    BY <2>10, StutterWeaves DEF Done
  <2> QED
    BY <2>1, <2>2, <2>3, <2>4, <2>5, <2>6, <2>7, <2>8, <2>9, <2>10 DEF Next, Step, Visit
<1>2. Spec => []PassInv
  BY PassInvariant
<1>3. PassInv /\ FirstSelected /\ [Next]_vars => FirstSelected'
  BY FirstSelectedKeeps
<1> QED
  BY <1>1, <1>2, <1>3, InitWoven, PTL DEF Spec

-----------------------------------------------------------------------------
(* What is woven has the probes that BlocksWoven asks for *)

\* The instructions of a block are numbered.
Numbered(src) == \A k \in 1 .. Len(src) : src[k].id = k

LEMMA NumberedSource ==
  ASSUME NEW p, Compiled(p), NEW m \in 1 .. Len(p), NEW f \in 1 .. Len(p[m].funs),
         NEW b \in 1 .. Len(p[m].funs[f].blocks)
  PROVE  Numbered(BlockOf(p, m, f, b))
BY DEF Compiled, Numbered

LEMMA PlacesById ==
  ASSUME NEW s, NEW src, Numbered(src), NEW N \in Nat, N = Len(src), N > 0,
         NEW pl, PlacedAt(s, src, pl)
  PROVE  /\ \A k \in 0 .. N : Place(s, k) = pl[k]
         /\ Kept(s, src)
<1>1. \A k \in 1 .. N : pl[k] \in 1 .. Len(s) /\ s[pl[k]] = src[k] /\ s[pl[k]].id = k
  BY DEF PlacedAt, Numbered
<1>2. \A j \in 1 .. Len(s) : s[j].id # 0 => \E k \in 1 .. N : j = pl[k]
  BY DEF PlacedAt
<1>3. \A k, l \in 0 .. N : k < l => pl[k] < pl[l]
  BY DEF PlacedAt
<1>4. \A k \in 0 .. N : pl[k] \in Nat
  BY DEF PlacedAt
<1>5. ASSUME NEW k \in 0 .. N PROVE Place(s, k) = pl[k]
  <2>1. CASE k = 0
    <3>1. ~(k > 0)
      BY <2>1
    <3>2. pl[0] = IF s[1].callee = "_init_" THEN 1 ELSE 0
      BY DEF PlacedAt
    <3> QED
      BY <2>1, <3>1, <3>2 DEF Place
  <2>2. CASE k > 0
    <3>1. k \in 1 .. N
      BY <2>2
    <3>2. pl[k] \in 1 .. Len(s) /\ s[pl[k]].id = k
      BY <1>1, <3>1
    <3>3. ASSUME NEW j \in 1 .. Len(s), s[j].id = k PROVE j = pl[k]
      <4>1. s[j].id # 0
        BY <2>2, <3>3
      <4>2. PICK l \in 1 .. N : j = pl[l]
        BY <1>2, <4>1
      <4>3. l = k
        BY <1>1, <3>3, <4>2
      <4> QED
        BY <4>2, <4>3
    <3>4. Place(s, k) = CHOOSE j \in 1 .. Len(s) : s[j].id = k
      BY <2>2 DEF Place
    <3> QED
      BY <3>2, <3>3, <3>4
  <2> QED
    BY <2>1, <2>2
<1>6. Kept(s, src)
  <2> DEFINE old == {j \in 1 .. Len(s) : s[j].id # 0}
  <2>1. ASSUME NEW k \in 1 .. N PROVE pl[k] \in old /\ s[pl[k]] = src[k]
    <3>1. s[pl[k]].id = k /\ k # 0
      BY <1>1
    <3> QED
      BY <1>1, <3>1
  <2>2. ASSUME NEW j \in old PROVE \E k \in 1 .. N : j = pl[k] /\ s[j] = src[k] /\ s[j].id = k
    BY <1>1, <1>2
  <2> HIDE DEF old
  <2>3. {s[j] : j \in old} = {src[k] : k \in 1 .. N}
    BY <2>1, <2>2
  <2>4. ASSUME NEW i \in old, NEW j \in old, i < j PROVE s[i].id < s[j].id
    <3>1. PICK k \in 1 .. N : i = pl[k] /\ s[i].id = k
      BY <2>2
    <3>2. PICK l \in 1 .. N : j = pl[l] /\ s[j].id = l
      BY <2>2
    <3>3. k \in 0 .. N /\ l \in 0 .. N
      OBVIOUS
    <3>4. pl[k] \in Nat /\ pl[l] \in Nat /\ pl[k] < pl[l]
      BY <1>4, <2>4, <3>1, <3>2, <3>3
    <3>5. l < k => pl[l] < pl[k]
      BY <1>3, <3>3
    <3>6. k < l
      BY <3>4, <3>5
    <3> QED
      BY <3>1, <3>2, <3>6
  <2>5. Len(s) \in old
    <3>1. pl[N] = Len(s) /\ N \in 1 .. N
      BY DEF PlacedAt
    <3> QED
      BY <2>1, <3>1
  <2>6. Kept(s, src) <=> /\ {s[j] : j \in old} = {src[k] : k \in 1 .. N}
                         /\ \A i, j \in old : i < j => s[i].id < s[j].id
                         /\ Len(s) \in old
    BY DEF Kept, old
  <2> QED
    BY <2>3, <2>4, <2>5, <2>6
<1> QED
  BY <1>5, <1>6

Shapes == Opcodes \X Callees

\* Between places p and q is what belongs there.
Between(s, p, q, behind, front) == Shape(SubSeq(s, p + 1, q - 1)) = behind \o front

LEMMA GapShape ==
  ASSUME NEW s \in Seq(Instructions), NEW p \in Nat, NEW q \in Nat, q <= Len(s),
         NEW behind \in Seq(Shapes), NEW front \in Seq(Shapes), Gap(s, p, q, behind, front)
  PROVE  Between(s, p, q, behind, front)
<1> DEFINE c == Len(behind)
           d == Len(front)
           t == SubSeq(s, p + 1, q - 1)
           u == behind \o front
<1>1. c \in Nat /\ d \in Nat /\ Len(s) \in Nat
  BY LenProperties
<1>2. q = p + c + d + 1
  BY DEF Gap
<1>3. \A j \in 1 .. c : Is(s[p + j], behind[j])
  BY DEF Gap, AreAt
<1>4. \A j \in 1 .. d : Is(s[p + c + j], front[j])
  BY DEF Gap, AreAt
<1>5. Joined(Shapes, u, behind, front)
  BY Concatenation
<1>6. /\ u \in Seq(Shapes) /\ Len(u) = c + d
      /\ \A j \in 1 .. c : u[j] = behind[j]
      /\ \A j \in 1 .. d : u[c + j] = front[j]
  BY <1>5 DEF Joined
<1> HIDE DEF c, d, u
<1>7. \A j \in p + 1 .. q - 1 : j \in 1 .. Len(s)
  BY <1>1
<1>8. \A j \in p + 1 .. q - 1 : s[j] \in Instructions
  BY <1>7, ElementOfSeq
<1>9. p + 1 \in Int /\ q - 1 \in Int
  OBVIOUS
<1>10. /\ t \in Seq(Instructions)
       /\ Len(t) = IF p + 1 <= q - 1 THEN q - 1 - (p + 1) + 1 ELSE 0
       /\ \A j \in 1 .. q - 1 - (p + 1) + 1 : t[j] = s[p + 1 + j - 1]
  BY <1>8, <1>9, SubSeqProperties
<1> HIDE DEF t
<1>11. Len(t) = c + d
  BY <1>1, <1>2, <1>10
<1>12. ASSUME NEW j \in 1 .. c + d PROVE t[j] \in Instructions /\ <<t[j].op, t[j].callee>> = u[j]
  <2>1. t[j] = s[p + j]
    <3>1. j \in 1 .. q - 1 - (p + 1) + 1 /\ p + 1 + j - 1 = p + j
      BY <1>1, <1>2
    <3> QED
      BY <1>10, <3>1
  <2>2. t[j] \in Instructions
    BY <1>10, <1>11, ElementOfSeq
  <2>3. CASE j <= c
    <3>1. j \in 1 .. c
      BY <1>1, <2>3
    <3>2. Is(s[p + j], behind[j]) /\ u[j] = behind[j]
      BY <1>3, <1>6, <3>1
    <3> QED
      BY <2>1, <2>2, <3>2 DEF Is
  <2>4. CASE j > c
    <3>1. j - c \in 1 .. d /\ c + (j - c) = j /\ p + c + (j - c) = p + j
      BY <1>1, <2>4
    <3>2. Is(s[p + j], front[j - c]) /\ u[j] = front[j - c]
      BY <1>4, <1>6, <3>1
    <3> QED
      BY <2>1, <2>2, <3>2 DEF Is
  <2> QED
    BY <1>1, <2>3, <2>4
<1>13. \A j \in 1 .. c + d : <<t[j].op, t[j].callee>> \in Shapes
  BY <1>12 DEF Shapes, Instructions
<1>14. Shape(t) = [j \in 1 .. c + d |-> <<t[j].op, t[j].callee>>]
  BY <1>11 DEF Shape
<1>15. Shape(t) \in Seq(Shapes) /\ Len(Shape(t)) = c + d
  BY <1>1, <1>13, <1>14, IsASeq
<1>16. \A j \in 1 .. c + d : Shape(t)[j] = u[j]
  BY <1>12, <1>14
<1>17. Shape(t) = u
  BY <1>6, <1>15, <1>16, SeqEqual
<1> QED
  BY <1>17 DEF Between, t, u


\* What belongs around an instruction are opcodes and callees.
LEMMA ShapesAround ==
  ASSUME NEW x
  PROVE  Before(x) \in Seq(Shapes) /\ After(x) \in Seq(Shapes)
<1>1. CASE x.op = "store" /\ x.loc
  <2>1. Before(x) = <<Probe>>
    BY <1>1 DEF Before
  <2> QED
    BY <2>1 DEF Shapes, Probe, Opcodes, Callees, After
<1>2. CASE ~(x.op = "store" /\ x.loc) /\ x.op \in {"invoke", "call"} /\ x.loc /\ x.callee \in DOMAIN Hooks(x.op)
  <2> DEFINE n == Hooks(x.op)[x.callee]
             loads == [k \in 1 .. n |-> <<"load", "none">>]
  <2>1. n \in Nat
    BY <1>2, HooksLoads
  <2>2. Before(x) = loads \o <<LockProbeShape>>
    BY <1>2 DEF Before
  <2> HIDE DEF n
  <2>3. <<"load", "none">> \in Shapes
    BY DEF Shapes, Opcodes, Callees
  <2>4. loads \in Seq(Shapes)
    BY <2>1, <2>3, IsASeq
  <2>5. <<LockProbeShape>> \in Seq(Shapes)
    BY DEF Shapes, LockProbeShape, Opcodes, Callees
  <2> HIDE DEF loads
  <2>6. Before(x) \in Seq(Shapes)
    BY <2>2, <2>4, <2>5, ConcatProperties
  <2>7. After(x) = <<>>
    BY <1>2 DEF After
  <2> QED
    BY <2>6, <2>7
<1>3. CASE /\ ~(x.op = "store" /\ x.loc)
           /\ ~(x.op \in {"invoke", "call"} /\ x.loc /\ x.callee \in DOMAIN Hooks(x.op))
  <2>1. Before(x) = <<>>
    BY <1>3 DEF Before
  <2>2. After(x) = <<>> \/ After(x) = <<Probe>>
    BY DEF After
  <2>3. <<>> \in Seq(Shapes)
    OBVIOUS
  <2>4. <<Probe>> \in Seq(Shapes)
    BY DEF Shapes, Probe, Opcodes, Callees
  <2> QED
    BY <2>1, <2>2, <2>3, <2>4
<1> QED
  BY <1>1, <1>2, <1>3

\* The first v instructions are those that the pass has been at.
LEMMA VisitedAre ==
  ASSUME PassInv, NEW m \in 1 .. Len(source), NEW f \in 1 .. Len(source[m].funs),
         NEW b \in 1 .. Len(source[m].funs[f].blocks),
         NEW N \in Nat, N = Len(BlockOf(source, m, f, b)),
         NEW v \in 0 .. N, NEW pl,
         Stops(BlockOf(source, m, f, b)) \subseteq Nat \ {0},
         Reached(Stage(m, f, b), Stops(BlockOf(source, m, f, b)), N, pl, v, ins),
         \A k \in 0 .. N : Place(BlockOf(program, m, f, b), k) = pl[k],
         \A k \in 0 .. N : pl[k] \in Nat,
         \A k, l \in 0 .. N : k < l => pl[k] < pl[l],
         NEW k \in 1 .. N
  PROVE  Visited(m, f, b, k) <=> k <= v
<1> DEFINE src == BlockOf(source, m, f, b)
           stops == Stops(src)
           selected == Selects(source[m], source[m].funs[f])
           free == \A l \in 1 .. k - 1 : ~StopsAt(src[l])
<1>1. Visited(m, f, b, k) <=>
        selected /\ free /\ (Passed(m, f, b) \/ (Inside(m, f, b) /\ pl[k] < ins))
  <2>1. Place(BlockOf(program, m, f, b), k) = pl[k]
    OBVIOUS
  <2> QED
    BY <2>1 DEF Visited, BlockOf
<1>2. \A l \in 1 .. N : l \in stops <=> StopsAt(src[l])
  BY DEF Stops
<1>3. \A l \in stops : l \in 1 .. N
  BY DEF Stops
<1>4. free <=> \A l \in stops : l >= k
  <2> HIDE DEF stops
  <2>1. ASSUME free, NEW l \in stops PROVE l >= k
    <3>1. l \in 1 .. N /\ StopsAt(src[l])
      BY <1>2, <1>3
    <3>2. ~(l \in 1 .. k - 1)
      BY <2>1, <3>1
    <3> QED
      BY <3>1, <3>2
  <2>2. ASSUME \A l \in stops : l >= k, NEW l \in 1 .. k - 1 PROVE ~StopsAt(src[l])
    <3>1. l \in 1 .. N /\ ~(l >= k)
      OBVIOUS
    <3> QED
      BY <1>2, <2>2, <3>1
  <2> QED
    BY <2>1, <2>2
<1>5. ~(Inside(m, f, b) /\ Passed(m, f, b))
  <2>1. mod \in Nat /\ fun \in Nat /\ blk \in Nat
    BY DEF PassInv, TypeOK
  <2> QED
    BY <2>1 DEF Inside, Passed
<1>6. ins \in Nat
  BY DEF PassInv, TypeOK
<1>7. CASE ~selected
  <2>1. Stage(m, f, b) = "before"
    BY <1>7, StageValues
  <2>2. v = 0
    BY <2>1 DEF Reached
  <2> QED
    BY <1>1, <1>7, <2>2
<1>8. CASE selected /\ ~Inside(m, f, b) /\ ~Passed(m, f, b)
  <2>1. Stage(m, f, b) = "before"
    BY <1>8, StageValues
  <2>2. v = 0
    BY <2>1 DEF Reached
  <2> QED
    BY <1>1, <1>8, <2>2
<1>9. CASE selected /\ ~Inside(m, f, b) /\ Passed(m, f, b)
  <2>1. Stage(m, f, b) = "behind"
    BY <1>9, StageValues
  <2>2. (v = N \/ v \in stops) /\ \A l \in stops : v <= l
    BY <2>1 DEF Reached
  <2>3. Visited(m, f, b, k) <=> free
    BY <1>1, <1>9
  <2> HIDE DEF stops, free
  <2>4. ASSUME k <= v PROVE free
    BY <1>3, <1>4, <2>2, <2>4
  <2>5. ASSUME free PROVE k <= v
    <3>1. CASE v = N
      BY <3>1
    <3>2. CASE v \in stops
      BY <1>4, <2>5, <3>2
    <3> QED
      BY <2>2, <3>1, <3>2
  <2> QED
    BY <2>3, <2>4, <2>5
<1>10. CASE selected /\ Inside(m, f, b)
  <2>1. Stage(m, f, b) = "inside"
    BY <1>10, StageValues
  <2>2. /\ \A l \in stops : v < l
        /\ pl[v] < ins \/ (v = 0 /\ ins = 1)
        /\ v < N => ins <= pl[v + 1]
    BY <2>1 DEF Reached
  <2>3. Visited(m, f, b, k) <=> free /\ pl[k] < ins
    BY <1>1, <1>5, <1>10
  <2> HIDE DEF stops, free
  <2>4. ASSUME k <= v PROVE free /\ pl[k] < ins
    <3>1. free
      BY <1>3, <1>4, <2>2, <2>4
    <3>2. pl[v] < ins
      BY <2>2, <2>4
    <3>3. pl[k] \in Nat /\ pl[v] \in Nat /\ (k < v => pl[k] < pl[v])
      BY <2>4
    <3>4. pl[k] <= pl[v]
      BY <2>4, <3>3
    <3> QED
      BY <1>6, <3>1, <3>2, <3>3, <3>4
  <2>5. ASSUME ~(k <= v) PROVE ~(pl[k] < ins)
    <3>1. v < N /\ v + 1 \in 0 .. N /\ (v + 1 < k \/ v + 1 = k)
      BY <2>5
    <3>2. ins <= pl[v + 1]
      BY <2>2, <3>1
    <3>3. pl[k] \in Nat /\ pl[v + 1] \in Nat /\ (v + 1 < k => pl[v + 1] < pl[k])
      BY <3>1
    <3>4. pl[v + 1] <= pl[k]
      BY <3>1, <3>3
    <3> QED
      BY <1>6, <3>2, <3>3, <3>4
  <2> QED
    BY <2>3, <2>4, <2>5
<1> QED
  BY <1>7, <1>8, <1>9, <1>10


\* A gap of BlocksWoven.
GapWoven(m, f, b, k) ==
  LET src == BlockOf(source, m, f, b)
      new == BlockOf(program, m, f, b)
  IN  Shape(SubSeq(new, Place(new, k) + 1, Place(new, k + 1) - 1)) =
        (IF k > 0 /\ Visited(m, f, b, k) THEN After(src[k]) ELSE <<>>)
        \o (IF Visited(m, f, b, k + 1) THEN Before(src[k + 1]) ELSE <<>>)

LEMMA WovenHasProbes ==
  ASSUME PassInv, WeaveInv, NEW m \in 1 .. Len(source) \ lost, NEW f \in 1 .. Len(source[m].funs),
         NEW b \in 1 .. Len(source[m].funs[f].blocks)
  PROVE  /\ Kept(BlockOf(program, m, f, b), BlockOf(source, m, f, b))
         /\ \A k \in 0 .. Len(BlockOf(source, m, f, b)) - 1 : GapWoven(m, f, b, k)
<1> DEFINE src == BlockOf(source, m, f, b)
           new == BlockOf(program, m, f, b)
           A == Afters(src)
           B == Befores(src)
           stops == Stops(src)
           N == Len(src)
<1>1. /\ src \in Seq(Instructions) /\ Plain(src) /\ new \in Seq(Instructions)
      /\ m \in Nat /\ f \in Nat /\ b \in Nat
  BY SourceBlock
<1>2. N \in Nat /\ N > 0
  BY <1>1, LenProperties DEF Plain
<1>3. Numbered(src)
  <2>1. Compiled(source)
    BY DEF PassInv
  <2>2. m \in 1 .. Len(source)
    OBVIOUS
  <2> QED
    BY <2>1, <2>2, NumberedSource
<1>4. stops \subseteq Nat \ {0}
  BY <1>1, SourceSides
<1>5. SourceWoven(new, src, Stage(m, f, b), ins)
  BY DEF WeaveInv
<1>v. PICK v \in 0 .. N : \E pl :
        WovenBy(new, src, pl, A, B, v) /\ Reached(Stage(m, f, b), stops, N, pl, v, ins)
  BY <1>5 DEF SourceWoven, BlockWoven
<1>6. PICK pl : WovenBy(new, src, pl, A, B, v) /\ Reached(Stage(m, f, b), stops, N, pl, v, ins)
  BY <1>v
<1>7. PlacedAt(new, src, pl) /\ Gaps(new, N, pl, A, B, v)
  BY <1>6 DEF WovenBy
<1>8. (\A k \in 0 .. N : Place(new, k) = pl[k]) /\ Kept(new, src)
  BY <1>2, <1>3, <1>7, PlacesById
<1>9. /\ \A k \in 0 .. N : pl[k] \in Nat
      /\ \A k, l \in 0 .. N : k < l => pl[k] < pl[l]
      /\ \A k \in 1 .. N : pl[k] <= Len(new)
  BY <1>7 DEF PlacedAt
<1>10. \A k \in 1 .. N : Visited(m, f, b, k) <=> k <= v
  BY <1>2, <1>4, <1>6, <1>8, <1>9, VisitedAre
<1>11. ASSUME NEW k \in 0 .. N - 1 PROVE GapWoven(m, f, b, k)
  <2>1. /\ k \in 0 .. N /\ k + 1 \in 0 .. N /\ k + 1 \in 1 .. N /\ (k + 1) - 1 = k
        /\ (k > 0 => k \in 1 .. N)
    BY <1>2
  <2>2. Gap(new, pl[k], pl[k + 1], Behind(A, v, k), InFront(B, v, k + 1))
    BY <1>7, <2>1 DEF Gaps
  <2>3. Behind(A, v, k) = IF k > 0 /\ Visited(m, f, b, k) THEN After(src[k]) ELSE <<>>
    <3>1. CASE k > 0 /\ k <= v
      BY <1>10, <2>1, <3>1 DEF Behind, Afters
    <3>2. CASE ~(k > 0 /\ k <= v)
      BY <1>10, <2>1, <3>2 DEF Behind
    <3> QED
      BY <3>1, <3>2
  <2>4. InFront(B, v, k + 1) = IF Visited(m, f, b, k + 1) THEN Before(src[k + 1]) ELSE <<>>
    <3>1. Visited(m, f, b, k + 1) <=> k + 1 <= v
      BY <1>10, <2>1
    <3> QED
      BY <2>1, <3>1 DEF InFront, Befores
  <2>5. Behind(A, v, k) \in Seq(Shapes) /\ InFront(B, v, k + 1) \in Seq(Shapes)
    <3>1. <<>> \in Seq(Shapes)
      OBVIOUS
    <3> QED
      BY <2>3, <2>4, <3>1, ShapesAround
  <2>6. pl[k] \in Nat /\ pl[k + 1] \in Nat /\ pl[k + 1] <= Len(new)
    BY <1>9, <2>1
  <2>7. Shape(SubSeq(new, pl[k] + 1, pl[k + 1] - 1)) = Behind(A, v, k) \o InFront(B, v, k + 1)
    <3>1. Between(new, pl[k], pl[k + 1], Behind(A, v, k), InFront(B, v, k + 1))
      BY <1>1, <2>2, <2>5, <2>6, GapShape
    <3> QED
      BY <3>1 DEF Between
  <2>8. Place(new, k) = pl[k] /\ Place(new, k + 1) = pl[k + 1]
    BY <1>8, <2>1
  <2> QED
    BY <2>3, <2>4, <2>7, <2>8, Zenon DEF GapWoven
<1> QED
  BY <1>8, <1>11

LEMMA WovenMeans == PassInv /\ WeaveInv => BlocksWoven
<1> SUFFICES ASSUME PassInv, WeaveInv PROVE BlocksWoven
  OBVIOUS
<1> QED
  BY WovenHasProbes, Zenon DEF BlocksWoven, GapWoven, BlockOf

(***************************************************************************)
(* Inserting while iterating works, for every program and either version   *)
(* of the pass: in every block, at every moment, the instructions of the   *)
(* compiler are all there and in their order, every access that the pass   *)
(* has been at has its probe, on the right side and once, and nothing else *)
(* has been put in.                                                        *)
(***************************************************************************)
THEOREM InsertionWorks == Spec => []BlocksWoven
BY WeaveInvariant, WovenMeans, PTL
-----------------------------------------------------------------------------
(* Whether main calls _init_ *)

AnySelected(m) == \E g \in 1 .. Len(source[m].funs) : Selects(source[m], source[m].funs[g])

\* Only modules of selected functions change, and those that are done call _init_.
SelectedInv ==
  \A m \in 1 .. Len(source) :
    /\ program[m] # source[m] => AnySelected(m)
    /\ m < mod /\ m \notin lost /\ AnySelected(m) => Opened(program, source, m)

LEMMA SelectedKeeps == PassInv /\ FirstSelected /\ SelectedInv /\ [Next]_vars => SelectedInv'
<1> SUFFICES ASSUME PassInv, FirstSelected, SelectedInv, [Next]_vars PROVE SelectedInv'
  OBVIOUS
<1>1. /\ mod \in Nat /\ program \in Seq(Modules) /\ source \in Seq(Modules)
      /\ Len(program) = Len(source) /\ OpenedInv(program, source, mod, initial)
  BY DEF PassInv, TypeOK, SameFrame
\* The program stays as it is, and no module is done.
<1>2. ASSUME variant' = variant, source' = source, program' = program,
             (mod' = mod /\ lost' = lost) \/ (mod' = mod + 1 /\ lost' = lost \cup {mod})
      PROVE  SelectedInv'
  <2> SUFFICES ASSUME NEW m \in 1 .. Len(source)
               PROVE  /\ program[m] # source[m] => AnySelected(m)'
                      /\ m < mod' /\ m \notin lost' /\ AnySelected(m)' => Opened(program, source, m)
    BY <1>2 DEF SelectedInv
  <2>1. AnySelected(m)' <=> AnySelected(m)
    BY <1>2, SameSelection DEF AnySelected
  <2>2. m < mod' /\ m \notin lost' => m < mod /\ m \notin lost
    BY <1>1, <1>2
  <2> QED
    BY <2>1, <2>2 DEF SelectedInv
\* A module of a selected function changes, the one that the pass is in.
<1>3. ASSUME variant' = variant, source' = source, mod' = mod, lost' = lost, AnySelected(mod),
             \A m \in 1 .. Len(program) : m # mod => program'[m] = program[m]
      PROVE  SelectedInv'
  <2> SUFFICES ASSUME NEW m \in 1 .. Len(source)
               PROVE  /\ program'[m] # source[m] => AnySelected(m)'
                      /\ m < mod /\ m \notin lost /\ AnySelected(m)' => Opened(program', source, m)
    BY <1>3 DEF SelectedInv
  <2>1. AnySelected(m)' <=> AnySelected(m)
    BY <1>3, SameSelection DEF AnySelected
  <2>2. CASE m = mod
    BY <1>1, <1>3, <2>1, <2>2
  <2>3. CASE m # mod
    <3>1. program'[m] = program[m]
      BY <1>1, <1>3, <2>3
    <3>2. Opened(program', source, m) <=> Opened(program, source, m)
      BY <3>1 DEF Opened, BlockOf
    <3> QED
      BY <2>1, <3>1, <3>2 DEF SelectedInv
  <2> QED
    BY <2>2, <2>3
<1>4. CASE EnterModule
  <2>1. /\ variant' = variant /\ source' = source /\ program' = program /\ mod' = mod + 1
        /\ lost' = lost /\ mod <= Len(program) /\ fun > Len(program[mod].funs)
    BY <1>4 DEF EnterModule, InModule
  <2>2. AnySelected(mod) => Opened(program, source, mod)
    <3>1. mod \in 1 .. Len(source)
      BY <1>1, <2>1, LenProperties DEF PassInv, TypeOK
    <3>2. CASE initial
      BY <1>1, <3>1, <3>2 DEF OpenedInv
    <3>3. CASE ~initial
      <4>1. Len(program[mod].funs) = Len(source[mod].funs)
        BY <3>1 DEF PassInv, SameFrame
      <4>2. Len(source[mod].funs) \in Nat /\ fun \in Nat
        <5>1. source[mod] \in Modules
          BY <1>1, <3>1, ElementOfSeq
        <5> QED
          BY <5>1, LenProperties DEF Modules, PassInv, TypeOK
      <4>3. mod <= Len(source)
        BY <1>1, <2>1
      <4>4. ASSUME NEW f \in 1 .. Len(source[mod].funs) PROVE f < fun
        BY <2>1, <4>1, <4>2
      <4> QED
        BY <3>3, <4>3, <4>4 DEF FirstSelected, AnySelected
    <3> QED
      BY <3>2, <3>3, <1>1 DEF PassInv, TypeOK
  <2> SUFFICES ASSUME NEW m \in 1 .. Len(source)
               PROVE  /\ program[m] # source[m] => AnySelected(m)'
                      /\ m < mod + 1 /\ m \notin lost /\ AnySelected(m)' =>
                           Opened(program, source, m)
    BY <2>1 DEF SelectedInv
  <2>3. AnySelected(m)' <=> AnySelected(m)
    BY <2>1, SameSelection DEF AnySelected
  <2>4. m < mod + 1 => m < mod \/ m = mod
    BY <1>1
  <2> QED
    BY <2>2, <2>3, <2>4 DEF SelectedInv
<1>5. CASE NoEntryBlock \/ VisitIndirect \/ VisitMisfit
  BY <1>2, <1>5 DEF NoEntryBlock, VisitIndirect, VisitMisfit, Dies
<1>6. CASE SkipFunction \/ LeaveFunction \/ EndOfBlock \/ VisitAtomic
  BY <1>2, <1>6 DEF SkipFunction, LeaveFunction, EndOfBlock, VisitAtomic, LeaveBlock
<1>7. CASE EnterFunction
  <2>1. /\ variant' = variant /\ source' = source /\ mod' = mod /\ lost' = lost
        /\ InFunction /\ Selects(program[mod], F)
    BY <1>7 DEF EnterFunction
  <2>2. AnySelected(mod)
    BY <2>1, Here DEF AnySelected
  <2>3. \E x : program' = [program EXCEPT ![mod] = x]
    <3>1. program = [program EXCEPT ![mod] = program[mod]]
      BY <1>1
    <3>2. CASE initial
      BY <1>7, <3>1, <3>2 DEF EnterFunction
    <3>3. CASE ~initial
      <4>1. program' = [program EXCEPT ![mod] = Initialized(program[mod])]
        BY <1>7, <3>3 DEF EnterFunction, FunctionInitialized
      <4> QED
        BY <4>1
    <3> QED
      BY <3>2, <3>3
  <2>4. \A m \in 1 .. Len(program) : m # mod => program'[m] = program[m]
    BY <1>1, <2>3
  <2> QED
    BY <1>3, <2>1, <2>2, <2>4
<1>8. CASE VisitStore \/ VisitLoad \/ VisitInvoke \/ VisitCall \/ VisitOther
  <2>1. AtInstruction /\ \E before, after : Weave(before, after)
    BY <1>8 DEF VisitStore, VisitLoad, VisitInvoke, VisitCall, VisitLockOperation, VisitOther
  <2>2. /\ variant' = variant /\ source' = source /\ mod' = mod /\ lost' = lost
    BY <2>1 DEF Weave
  <2>3. PICK w : program' = WithBlock(program, mod, fun, blk, w)
    BY <2>1 DEF Weave, WithBlock
  <2>4. \A m \in 1 .. Len(program) : m # mod => program'[m] = program[m]
    BY <1>1, <2>3 DEF WithBlock
  <2>5. AnySelected(mod)
    <3>1. InFunction /\ blk > 0
      BY <2>1 DEF AtInstruction, InBlock, PassInv, TypeOK
    <3> QED
      BY <3>1, Here DEF PassInv, PositionInv, AnySelected
  <2> QED
    BY <1>3, <2>2, <2>4, <2>5
<1>9. CASE Done \/ UNCHANGED vars
  BY <1>2, <1>9 DEF Done, vars
<1> QED
  BY <1>4, <1>5, <1>6, <1>7, <1>8, <1>9 DEF Next, Step, Visit

LEMMA SelectedInvariant == Spec => [](PassInv /\ SelectedInv)
<1>1. Init => SelectedInv
  BY DEF Init, SelectedInv
<1> QED
  BY <1>1, SelectedKeeps, WeaveInvariant, PTL DEF Spec

\* The first block of main has a first instruction.
LEMMA MainBlock ==
  ASSUME PassInv, NEW m \in 1 .. Len(source), NEW f \in 1 .. Len(source[m].funs)
  PROVE  /\ f \in 1 .. Len(program[m].funs) /\ 1 \in 1 .. Len(program[m].funs[f].blocks)
         /\ 1 \in 1 .. Len(BlockOf(program, m, f, 1))
<1>1. /\ Compiled(source) /\ SameFrame(source, program) /\ BlocksInv(program, source)
      /\ source \in Seq(Modules) /\ program \in Seq(Modules) /\ Len(program) = Len(source)
  BY DEF PassInv, TypeOK, SameFrame
<1>2. Len(source[m].funs[f].blocks) > 0 /\ Len(source[m].funs[f].blocks) \in Nat
  BY <1>1, PlainSource, Parts, LenProperties
<1>3. /\ Len(program[m].funs) = Len(source[m].funs)
      /\ Len(program[m].funs[f].blocks) = Len(source[m].funs[f].blocks)
  BY <1>1 DEF SameFrame
<1>4. 1 \in 1 .. Len(source[m].funs[f].blocks) /\ 1 \in 1 .. Len(program[m].funs[f].blocks)
  BY <1>2, <1>3
<1>5. Terminated(BlockOf(program, m, f, 1))
  BY <1>1, <1>4 DEF BlocksInv, BlockInv
<1>6. BlockOf(program, m, f, 1) \in Seq(Instructions)
  BY <1>1, <1>3, <1>4, Parts
<1> QED
  BY <1>3, <1>4, <1>5, <1>6, LenProperties DEF Terminated

LEMMA OpenedWhereSelected == PassInv /\ SelectedInv => OpenedIffSelected
<1> SUFFICES ASSUME PassInv, SelectedInv,
                    NEW m \in (1 .. mod - 1) \ lost, NEW f \in 1 .. Len(source[m].funs),
                    source[m].funs[f].main
             PROVE  InitCalls(m) # {} <=> AnySelected(m)
  BY DEF OpenedIffSelected, AnySelected
<1>1. /\ m \in 1 .. Len(source) /\ m < mod /\ Compiled(source) /\ Len(program) = Len(source)
  <2>1. Len(source) \in Nat
    BY LenProperties DEF PassInv, TypeOK
  <2> QED
    BY <2>1 DEF PassInv, TypeOK, SameFrame
<1>2. ASSUME AnySelected(m) PROVE InitCalls(m) # {}
  <2>1. Opened(program, source, m)
    BY <1>1, <1>2 DEF SelectedInv
  <2>2. BlockOf(program, m, f, 1)[1].callee \in {"_init_"}
    BY <2>1 DEF Opened
  <2>3. /\ f \in 1 .. Len(program[m].funs) /\ 1 \in 1 .. Len(program[m].funs[f].blocks)
        /\ 1 \in 1 .. Len(BlockOf(program, m, f, 1))
    BY <1>1, MainBlock
  <2>4. <<f, 1, 1>> \in InitCalls(m)
    BY <2>2, <2>3, CallPlaces DEF InitCalls
  <2> QED
    BY <2>4
<1>3. ASSUME InitCalls(m) # {} PROVE AnySelected(m)
  <2>1. program[m] # source[m]
    <3> SUFFICES ASSUME program[m] = source[m] PROVE FALSE
      OBVIOUS
    <3>1. PICK z : z \in CallsIn(m, {"_init_"})
      BY <1>3 DEF InitCalls
    <3>2. PICK g \in 1 .. Len(program[m].funs) : \E b \in 1 .. Len(program[m].funs[g].blocks) :
            \E j \in 1 .. Len(BlockOf(program, m, g, b)) :
              BlockOf(program, m, g, b)[j].callee \in {"_init_"}
      BY <3>1, CallPlaces
    <3>3. PICK b \in 1 .. Len(source[m].funs[g].blocks) :
            \E j \in 1 .. Len(BlockOf(source, m, g, b)) :
              BlockOf(source, m, g, b)[j].callee \in {"_init_"}
      BY <3>2 DEF BlockOf
    <3>4. Plain(BlockOf(source, m, g, b))
      BY <1>1, <3>2, <3>3, PlainSource
    <3> QED
      BY <3>3, <3>4 DEF Plain, Added
  <2> QED
    BY <1>1, <2>1 DEF SelectedInv
<1> QED
  BY <1>2, <1>3

(***************************************************************************)
(* For every program and version of the pass: a module of main that has    *)
(* been done calls _init_ exactly if a function of it is selected, what-   *)
(* ever other modules hold and whichever opt died on.  So the log is not   *)
(* opened for the probes of other modules if nothing is selected in        *)
(* the module of main.                                                     *)
(***************************************************************************)
THEOREM OpensWhereSelected == Spec => []OpenedIffSelected
BY SelectedInvariant, OpenedWhereSelected, PTL
=============================================================================
