----------------------------- MODULE MCProbePass -----------------------------
(***************************************************************************)
(* Programs for ProbePass.  The first set takes the loop over a block to   *)
(* its limits: every block of up to two instructions and a terminator,     *)
(* followed by a second block with a load.  The second takes the loop over *)
(* functions and modules to its limits: programs of one module as rustc    *)
(* makes them and of two as cargo does, with functions of every kind.      *)
(***************************************************************************)
EXTENDS ProbePass

Instr(op, callee, loc) == [op |-> op, callee |-> callee, loc |-> loc, id |-> 0]

\* Instructions are numbered by their place.
Number(s) == [k \in 1 .. Len(s) |-> [s[k] EXCEPT !.id = k]]

RustCallees == {"lock", "guard_drop", "read", "read_drop", "write", "write_drop",
                "misfit", "atomic", "indirect", "fn"}

CallsOf(op) ==
  {Instr(op, c, TRUE) : c \in RustCallees} \cup {Instr(op, c, FALSE) : c \in {"lock", "indirect"}}

Accesses == {Instr(op, "none", loc) : op \in {"load", "store"}, loc \in BOOLEAN}
Branch == Instr("other", "none", TRUE)

BodyInstrs == Accesses \cup CallsOf("call")
Terminators == {Branch} \cup CallsOf("invoke")

LoadBlock == Number(<<Instr("load", "none", TRUE), Branch>>)

BlockPrograms ==
  {<<[hashed |-> h, declares |-> FALSE,
      funs |-> <<[main |-> FALSE, own |-> TRUE, foreign |-> FALSE, dir |-> "own",
                  blocks |-> <<Number(Append(s, t)), LoadBlock>>]>>]>>
     : h \in BOOLEAN, s \in UNION {[1 .. n -> BodyInstrs] : n \in 0 .. 2}, t \in Terminators}

StoreBlock == Number(<<Instr("store", "none", TRUE), Branch>>)
IndirectBlock == Number(<<Instr("call", "indirect", TRUE), Branch>>)

Function(main, own, foreign, dir, block) ==
  [main |-> main, own |-> own, foreign |-> foreign, dir |-> dir, blocks |-> <<block>>]

Mains == {Function(TRUE, own, FALSE, d, b)
            : own \in BOOLEAN, d \in {"none", "own"}, b \in {StoreBlock, IndirectBlock}}
Others == {Function(FALSE, TRUE, foreign, d, b)
             : foreign \in BOOLEAN, d \in {"cargo", "own"}, b \in {LoadBlock, IndirectBlock}}

\* Modules with main (before or after another function), and without.
MainFuns == {<<f>> : f \in Mains} \cup {<<f, g>> : f \in Mains, g \in Others}
              \cup {<<g, f>> : f \in Mains, g \in Others}
OtherFuns == {<<g>> : g \in Others} \cup {<<g, h>> : g \in Others, h \in Others}

Module(hashed, declares, funs) == [hashed |-> hashed, declares |-> declares, funs |-> funs]

ModulePrograms ==
  {<<Module(h, FALSE, s)>> : h \in BOOLEAN, s \in MainFuns}
  \cup {<<Module(TRUE, FALSE, s), Module(TRUE, d, r)>>
          : d \in BOOLEAN, s \in MainFuns, r \in OtherFuns}
  \cup {<<Module(TRUE, d, <<g>>), Module(TRUE, FALSE, s)>>
          : d \in BOOLEAN, s \in MainFuns, g \in Others}

AllPrograms == BlockPrograms \cup ModulePrograms
=============================================================================
