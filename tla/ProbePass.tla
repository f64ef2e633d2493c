------------------------------ MODULE ProbePass ------------------------------
(***************************************************************************)
(* The LLVM pass that puts the probe calls into a program, and the build   *)
(* scripts that run it on the modules of the program one after the other.  *)
(*                                                                         *)
(* The pass inserts instructions into the basic block it is iterating      *)
(* over: what it puts in front of the current instruction moves that one,  *)
(* and what it puts behind is visited next.  It runs once per function but *)
(* also changes another function, main, when it meets the first function   *)
(* that it selects.                                                        *)
(*                                                                         *)
(* There are two versions of it, HelloWorld.cpp and function.cpp.  The one *)
(* that is built is HelloWorld.cpp, whose run() returns in its first line: *)
(* this is the variant "committed".  "HelloWorld" is the code below the    *)
(* two early returns, and "function" is function.cpp.                      *)
(*                                                                         *)
(* An instruction is what the pass sees of it: its opcode, the function it *)
(* calls, and whether it has a debug location.  id is its place in its     *)
(* block before the pass, and 0 for an instruction that the pass inserted. *)
(***************************************************************************)
EXTENDS Naturals, Sequences, FiniteSets

CONSTANTS
  Variants,  \* the versions of the pass
  Programs   \* the programs: sequences of modules

ASSUME VariantsAssumption == Variants \subseteq {"committed", "HelloWorld", "function"}

Opcodes == {"store", "load", "invoke", "call", "other"}
\* "misfit" has the name of a lock operation, but not the arguments that one has.
Callees == {"lock", "guard_drop", "read", "read_drop", "write", "write_drop", "misfit",
            "atomic", "indirect", "fn", "none", "_init_", "_probe_", "_probe_lock_"}

Instructions == [op : Opcodes, callee : Callees, loc : BOOLEAN, id : Nat]

(***************************************************************************)
(* A function: whether it is main, whether its name contains the name of   *)
(* the crate, or "core" or "std", and the directory its debug information  *)
(* names.  A module: whether its file is named crate-hash.ll (cargo) or    *)
(* crate.ll (rustc), whether it declares main without a body, and the      *)
(* functions it has bodies of, which are those the pass is run on.         *)
(***************************************************************************)
Functions == [main : BOOLEAN, own : BOOLEAN, foreign : BOOLEAN,
              dir : {"none", "cargo", "own"}, blocks : Seq(Seq(Instructions))]
Modules == [hashed : BOOLEAN, declares : BOOLEAN, funs : Seq(Functions)]

BlockOf(p, m, f, b) == p[m].funs[f].blocks[b]

(***************************************************************************)
(* What the compiler makes: functions with at least one block, blocks that *)
(* end in a terminator, no call of the runtime, and a body of main at most *)
(* once, and not in a module that only declares it.                        *)
(***************************************************************************)
Compiled(p) ==
  /\ p \in Seq(Modules)
  /\ \A m \in 1 .. Len(p) : \A f \in 1 .. Len(p[m].funs) :
       /\ Len(p[m].funs[f].blocks) > 0
       /\ ~(p[m].declares /\ p[m].funs[f].main)
       /\ \A b \in 1 .. Len(p[m].funs[f].blocks) :
            /\ Len(BlockOf(p, m, f, b)) > 0
            /\ BlockOf(p, m, f, b)[Len(BlockOf(p, m, f, b))].op \in {"invoke", "other"}
            /\ \A k \in 1 .. Len(BlockOf(p, m, f, b)) :
                 /\ BlockOf(p, m, f, b)[k].callee \notin {"_init_", "_probe_", "_probe_lock_"}
                 /\ BlockOf(p, m, f, b)[k].id = k
  /\ \A m, n \in 1 .. Len(p) : \A f \in 1 .. Len(p[m].funs), g \in 1 .. Len(p[n].funs) :
       p[m].funs[f].main /\ p[n].funs[g].main => m = n /\ f = g

ASSUME ProgramsAssumption == \A p \in Programs : Compiled(p)

VARIABLES
  variant,  \* the version of the pass
  source,   \* the program as it was
  program,  \* the program as it is
  initial,  \* the pass's field: has initialization been called?
  mod, fun, blk, ins,  \* position: module, function, block, instruction
  lost      \* modules opt crashed on, and so wrote no output for

vars == <<variant, source, program, initial, mod, fun, blk, ins, lost>>

-----------------------------------------------------------------------------
InModule == mod <= Len(program)
F == program[mod].funs[fun]
Block == F.blocks[blk]
I == Block[ins]

InFunction == InModule /\ fun <= Len(program[mod].funs)
InBlock == InFunction /\ blk \in 1 .. Len(F.blocks)
AtInstruction == InBlock /\ ins <= Len(Block)

Inserted(op, callee, loc) == [op |-> op, callee |-> callee, loc |-> loc, id |-> 0]

\* The filter of HelloWorld.cpp: filename is the module's name up to the last "-".
HelloWorldSelects(module, f) ==
  module.hashed /\ f.own /\ ~f.foreign /\ f.dir = "own"

\* The filter of function.cpp: filename is the module's name up to ".ll".
FunctionSelects(module, f) ==
  ~module.hashed /\ f.own /\ ~f.foreign

Selects(module, f) ==
  CASE variant = "committed"  -> FALSE
    [] variant = "HelloWorld" -> HelloWorldSelects(module, f)
    [] variant = "function"   -> FunctionSelects(module, f)

\* main starts with a call of _init_; other functions stay as they are.
CallingInit(f) ==
  IF ~f.main THEN f
  ELSE [f EXCEPT !.blocks[1] = <<Inserted("call", "_init_", f.blocks[1][1].loc)>> \o @]

\* initialization: main is sought in the module.
Initialized(module) ==
  [module EXCEPT !.funs = [k \in DOMAIN module.funs |-> CallingInit(module.funs[k])]]

\* function.cpp has the same initialization.
FunctionInitialized(module) == Initialized(module)

(***************************************************************************)
(* What the pass puts in front of a lock operation: how many loads it      *)
(* takes to get at the address of the lock, for each operation it knows.   *)
(***************************************************************************)
InvokeHooks ==
  [lock |-> 0, guard_drop |-> 2, read |-> 0, read_drop |-> 1, write |-> 0, write_drop |-> 2,
   misfit |-> 0]

CallHooks ==
  [read |-> 0, read_drop |-> 1, write |-> 0, write_drop |-> 2, misfit |-> 0]

FunctionInvokeHooks ==
  [lock |-> 0, guard_drop |-> 2, read |-> 0, read_drop |-> 1, write |-> 0, write_drop |-> 2,
   misfit |-> 0]

Hooks(op) ==
  CASE op = "invoke" -> IF variant = "function" THEN FunctionInvokeHooks ELSE InvokeHooks
    [] op = "call"   -> IF variant = "function" THEN <<>> ELSE CallHooks
    [] OTHER         -> <<>>

-----------------------------------------------------------------------------
(* Iterating over the modules, functions and blocks *)

\* Mutant: the field of one pass object serves all modules.
EnterModuleKeepsInitial ==
  /\ InModule /\ fun > Len(program[mod].funs)
  /\ mod' = mod + 1 /\ fun' = 1
  /\ UNCHANGED <<variant, source, program, initial, blk, ins, lost>>

\* opt has done a module; the scripts start it again for the next.
EnterModule ==
  /\ InModule /\ fun > Len(program[mod].funs)
  /\ mod' = mod + 1 /\ fun' = 1
  /\ initial' = FALSE
  /\ UNCHANGED <<variant, source, program, blk, ins, lost>>

\* Mutant: the script tries the module again.
DiesRetry ==
  /\ lost' = lost \cup {mod}
  /\ program' = [program EXCEPT ![mod] = source[mod]]
  /\ fun' = 1 /\ blk' = 0 /\ ins' = 1
  /\ initial' = FALSE
  /\ UNCHANGED <<variant, source, mod>>

\* Mutant: the field of the pass outlives opt.
DiesKeepsInitial ==
  /\ lost' = lost \cup {mod}
  /\ mod' = mod + 1 /\ fun' = 1 /\ blk' = 0 /\ ins' = 1
  /\ UNCHANGED <<variant, source, program, initial>>

\* opt dies and writes no output; the script goes on with the next module.
Dies ==
  /\ lost' = lost \cup {mod}
  /\ mod' = mod + 1 /\ fun' = 1 /\ blk' = 0 /\ ins' = 1
  /\ initial' = FALSE
  /\ UNCHANGED <<variant, source, program>>

SkipFunction ==
  /\ InFunction /\ blk = 0
  /\ ~Selects(program[mod], F)
  /\ fun' = fun + 1
  /\ UNCHANGED <<variant, source, program, initial, mod, blk, ins, lost>>

EnterFunction ==
  /\ InFunction /\ blk = 0
  /\ Selects(program[mod], F)
  /\ initial \/ ~program[mod].declares
  /\ program' = IF initial THEN program
                ELSE [program EXCEPT ![mod] = IF variant = "function"
                                                THEN FunctionInitialized(@) ELSE Initialized(@)]
  /\ initial' = TRUE
  /\ blk' = 1 /\ ins' = 1
  /\ UNCHANGED <<variant, source, mod, fun, lost>>

\* initialization: a main without a body has no first block to put the call in.
NoEntryBlock ==
  /\ InFunction /\ blk = 0
  /\ Selects(program[mod], F)
  /\ ~initial /\ program[mod].declares
  /\ Dies

LeaveFunction ==
  /\ InFunction /\ blk > Len(F.blocks)
  /\ fun' = fun + 1 /\ blk' = 0
  /\ UNCHANGED <<variant, source, program, initial, mod, ins, lost>>

LeaveBlock ==
  /\ blk' = blk + 1 /\ ins' = 1
  /\ UNCHANGED <<variant, source, program, initial, mod, fun, lost>>

EndOfBlock == InBlock /\ ins > Len(Block) /\ LeaveBlock

-----------------------------------------------------------------------------
(* Visiting an instruction *)

\* Instructions are put around the current one; then the iterator moves on by one.
Weave(before, after) ==
  /\ program' = [program EXCEPT ![mod].funs[fun].blocks[blk] =
                   SubSeq(@, 1, ins - 1) \o before \o <<@[ins]>> \o after
                     \o SubSeq(@, ins + 1, Len(@))]
  /\ ins' = ins + Len(before) + 1
  /\ UNCHANGED <<variant, source, initial, mod, fun, blk, lost>>

\* The probe of a store has the debug location of the store.
StoreProbe == <<Inserted("call", "_probe_", TRUE)>>

VisitStore ==
  /\ AtInstruction /\ I.op = "store" /\ I.loc
  /\ Weave(StoreProbe, <<>>)

\* The builder of a load is moved on by one, and takes the location it finds there.
LoadProbe == <<Inserted("call", "_probe_", Block[ins + 1].loc)>>

\* Mutant: the builder is left in front of the load.
VisitLoadBefore ==
  /\ AtInstruction /\ I.op = "load" /\ I.loc
  /\ Weave(LoadProbe, <<>>)

VisitLoad ==
  /\ AtInstruction /\ I.op = "load" /\ I.loc
  /\ Weave(<<>>, LoadProbe)

LockProbe(loads) ==
  [k \in 1 .. loads |-> Inserted("load", "none", TRUE)]
    \o <<Inserted("call", "_probe_lock_", TRUE)>>

VisitLockOperation(op) ==
  /\ AtInstruction /\ I.op = op /\ I.loc
  /\ I.callee \in DOMAIN Hooks(op)
  /\ Weave(LockProbe(Hooks(op)[I.callee]), <<>>)

VisitInvoke == VisitLockOperation("invoke")
VisitCall == VisitLockOperation("call")

\* Calls of these opcodes have their callee looked at.
Named == IF variant = "function" THEN {"invoke"} ELSE {"invoke", "call"}

AsksForName == AtInstruction /\ I.op \in Named /\ I.loc

\* getCalledFunction is NULL for an indirect call.
VisitIndirect == AsksForName /\ I.callee = "indirect" /\ Dies

(***************************************************************************)
(* The operand that is taken for the lock does not exist, or is no pointer *)
(* to a guard: undefined behaviour.  Some other operand is taken for it    *)
(* (VisitLockOperation), or opt dies.                                      *)
(***************************************************************************)
VisitMisfit ==
  /\ AtInstruction /\ I.loc
  /\ I.callee = "misfit" /\ I.callee \in DOMAIN Hooks(I.op)
  /\ Dies

StopsAt(x) == variant = "HelloWorld" /\ x.op = "call" /\ x.loc /\ x.callee = "atomic"

\* An atomic operation: the break leaves the loop over the instructions.
VisitAtomic == AtInstruction /\ StopsAt(I) /\ LeaveBlock

VisitOther ==
  /\ AtInstruction
  /\ ~(I.op \in {"store", "load"} /\ I.loc)
  /\ ~(I.loc /\ I.callee \in DOMAIN Hooks(I.op))
  /\ ~(AsksForName /\ I.callee = "indirect")
  /\ ~StopsAt(I)
  /\ Weave(<<>>, <<>>)

\* All modules have been done.
Done == ~InModule /\ UNCHANGED vars

-----------------------------------------------------------------------------
Init ==
  /\ variant \in Variants
  /\ source \in Programs
  /\ program = source
  /\ initial = FALSE
  /\ mod = 1 /\ fun = 1 /\ blk = 0 /\ ins = 1
  /\ lost = {}

Visit ==
  \/ VisitStore \/ VisitLoad \/ VisitInvoke \/ VisitCall
  \/ VisitIndirect \/ VisitMisfit \/ VisitAtomic \/ VisitOther

Step ==
  \/ EnterModule \/ SkipFunction \/ EnterFunction \/ NoEntryBlock \/ LeaveFunction
  \/ EndOfBlock \/ Visit

Next == Step \/ Done

Spec == Init /\ [][Next]_vars

\* opt is a sequential program: it goes on as long as it can.
FairSpec == Spec /\ WF_vars(Step)

-----------------------------------------------------------------------------
TypeOK ==
  /\ variant \in Variants
  /\ source \in Seq(Modules)
  /\ program \in Seq(Modules)
  /\ initial \in BOOLEAN
  /\ mod \in 1 .. Len(source) + 1
  /\ fun \in Nat /\ blk \in Nat /\ ins \in Nat
  /\ lost \subseteq 1 .. mod - 1

\* The position has passed block b of function f of module m.
Passed(m, f, b) == m < mod \/ (m = mod /\ (f < fun \/ (f = fun /\ b < blk)))

Inside(m, f, b) == m = mod /\ f = fun /\ b = blk

\* The original instructions are all there, in their order, and the last one is the last.
Kept(block, src) ==
  LET old == {j \in 1 .. Len(block) : block[j].id # 0}
  IN  /\ {block[j] : j \in old} = {src[k] : k \in 1 .. Len(src)}
      /\ \A i, j \in old : i < j => block[i].id < block[j].id
      /\ Len(block) \in old

\* The place of the k-th original instruction of a block.  0 stands for the
\* begin of the block, which is behind the call of _init_.
Place(block, k) ==
  IF k > 0 THEN CHOOSE j \in 1 .. Len(block) : block[j].id = k
  ELSE IF block[1].callee = "_init_" THEN 1 ELSE 0

Shape(block) == [j \in 1 .. Len(block) |-> <<block[j].op, block[j].callee>>]

Probe == <<"call", "_probe_">>
LockProbeShape == <<"call", "_probe_lock_">>

\* What ought to be in front of an instruction.
Before(x) ==
  CASE x.op = "store" /\ x.loc -> <<Probe>>
    [] x.op \in {"invoke", "call"} /\ x.loc /\ x.callee \in DOMAIN Hooks(x.op) ->
         [k \in 1 .. Hooks(x.op)[x.callee] |-> <<"load", "none">>] \o <<LockProbeShape>>
    [] OTHER -> <<>>

\* What ought to be behind it.
After(x) == IF x.op = "load" /\ x.loc THEN <<Probe>> ELSE <<>>

\* Has the pass been at the k-th original instruction of the block?
Visited(m, f, b, k) ==
  LET src == source[m].funs[f].blocks[b]
      new == program[m].funs[f].blocks[b]
  IN  /\ Selects(source[m], source[m].funs[f])
      /\ \A l \in 1 .. k - 1 : ~StopsAt(src[l])
      /\ Passed(m, f, b) \/ (Inside(m, f, b) /\ Place(new, k) < ins)

(***************************************************************************)
(* Inserting while iterating works.  At any moment the original            *)
(* instructions are all there, in their order, and between any two of them *)
(* is exactly what belongs behind the first, if it has been visited, and   *)
(* in front of the second: no access without its probe, none with two, no  *)
(* probe for a probe, none on the wrong side.  What follows an atomic      *)
(* operation in its block, and functions that are not selected, stay as    *)
(* they were.                                                              *)
(***************************************************************************)
BlocksWoven ==
  \A m \in 1 .. Len(source) \ lost : \A f \in 1 .. Len(source[m].funs) :
    \A b \in 1 .. Len(source[m].funs[f].blocks) :
      LET src == source[m].funs[f].blocks[b]
          new == program[m].funs[f].blocks[b]
      IN  /\ Kept(new, src)
          /\ \A k \in 0 .. Len(src) - 1 :
               Shape(SubSeq(new, Place(new, k) + 1, Place(new, k + 1) - 1)) =
                 (IF k > 0 /\ Visited(m, f, b, k) THEN After(src[k]) ELSE <<>>)
                 \o (IF Visited(m, f, b, k + 1) THEN Before(src[k + 1]) ELSE <<>>)

\* The places in module m where one of the given functions is called.
CallsIn(m, callees) ==
  UNION {UNION {{<<f, b, j>> : j \in {k \in 1 .. Len(program[m].funs[f].blocks[b]) :
                                       program[m].funs[f].blocks[b][k].callee \in callees}}
                  : b \in 1 .. Len(program[m].funs[f].blocks)}
           : f \in 1 .. Len(program[m].funs)}

InitCalls(m) == CallsIn(m, {"_init_"})
HasProbe(m) == CallsIn(m, {"_probe_", "_probe_lock_"}) # {}

(***************************************************************************)
(* The log is opened once and before it is used: a program never gets two  *)
(* calls of _init_, and if the module of main has a probe, the first       *)
(* instruction of main is the call of _init_, before the probes of main    *)
(* itself.                                                                 *)
(***************************************************************************)
InitOnceAndFirst ==
  /\ \A m, n \in 1 .. Len(program) : InitCalls(m) # {} /\ InitCalls(n) # {} => m = n
  /\ \A m \in 1 .. Len(program) \ lost : \A f \in 1 .. Len(program[m].funs) :
       program[m].funs[f].main /\ HasProbe(m) => InitCalls(m) = {<<f, 1, 1>>}

(***************************************************************************)
(* Whether the log of a program is opened depends on the module of main    *)
(* alone: when the pass has been through it, main calls _init_ exactly if  *)
(* a function of that module is selected, even if none has a probe, and    *)
(* whatever the pass met in other modules, of which opt may have died.     *)
(* So nobody opens the log for the probes of other modules if the pass     *)
(* selects nothing in the module of main.                                  *)
(***************************************************************************)
OpenedIffSelected ==
  \A m \in (1 .. mod - 1) \ lost : \A f \in 1 .. Len(source[m].funs) :
    source[m].funs[f].main =>
      (InitCalls(m) # {} <=>
         \E g \in 1 .. Len(source[m].funs) : Selects(source[m], source[m].funs[g]))

(***************************************************************************)
(* The pass ends, although the blocks grow while it iterates over them.    *)
(***************************************************************************)
Terminates == <>(mod > Len(source))
=============================================================================
