------------------------------ MODULE FuncInfo ------------------------------
(***************************************************************************)
(* The purity analysis of the optimizer (FuncInfo): which functions of the *)
(* module have no effect but their result.  trivial_mark looks at each     *)
(* function by itself; then impurity spreads to the callers, breadth       *)
(* first, along the use lists of the functions.                            *)
(*                                                                         *)
(* A program is what the pass reads of the IR.  Functions and instructions *)
(* are numbered in the order of the module; 0 stands for an operand that   *)
(* is not an instruction (a global variable, an argument, a constant).     *)
(***************************************************************************)
EXTENDS Integers, Sequences

CONSTANT Programs

Kind == {"alloca", "gep", "load", "store", "call", "br", "ret", "op"}

IsFunction(f) == f \in [decl : BOOLEAN, main : BOOLEAN, array : BOOLEAN]

\* The instructions of n functions: the function an instruction is in, its
\* operands that are instructions, the operand it takes its address from and
\* the function it calls (or 0).
IsBody(ins, m, n) ==
  \A i \in 1..m :
    /\ ins[i] \in [fn : 1..n, kind : Kind, ops : SUBSET (1..m), base : 0..m, callee : 0..n]
    /\ ins[i].kind = "call" <=> ins[i].callee # 0
    /\ ins[i].base < i
    /\ \A j \in ins[i].ops : ins[j].fn = ins[i].fn

ASSUME FuncInfoAssumption ==
  \A p \in Programs :
    /\ p.fns \in Nat /\ p.size \in Nat
    /\ \A f \in 1..p.fns : IsFunction(p.fun[f])
    /\ IsBody(p.ins, p.size, p.fns)

VARIABLES
  prog,       \* the module m_
  phase,      \* "trivial", "process" or "ready"
  next,       \* position of the first loop of run
  is_pure,
  worklist,
  callers     \* the uses of the function in process that are still to visit

fiVars == <<prog, phase, next, is_pure, worklist, callers>>

Fns    == 1..prog.fns
Ins    == 1..prog.size
fun    == prog.fun
ins    == prog.ins

Init ==
  /\ prog \in Programs
  /\ phase = "trivial"
  /\ next = 1
  /\ is_pure = [f \in Fns |-> FALSE]
  /\ worklist = <<>>
  /\ callers = {}

-----------------------------------------------------------------------------
\* get_first_addr, followed by the test that the address is an alloca.
IsLocal ==
  LET addr[v \in 0..prog.size] ==
        IF v = 0 THEN FALSE
        ELSE IF ins[v].kind \in {"alloca", "load"} THEN ins[v].kind = "alloca"
        ELSE addr[ins[v].base]
  IN  addr

\* is_side_effect_inst, with is_local_load and is_local_store.
IsSideEffect(i) == ins[i].kind \in {"store", "load"} /\ ~IsLocal[ins[i].base]

\* The reasons of trivial_mark.
TriviallyImpure(f) ==
  \/ fun[f].decl
  \/ fun[f].main
  \/ fun[f].array
  \/ \E i \in Ins : ins[i].fn = f /\ IsSideEffect(i)

\* trivial_mark and the enqueueing of an impure function.
TrivialMark ==
  /\ phase = "trivial"
  /\ next \in Fns
  /\ is_pure' = [is_pure EXCEPT ![next] = ~TriviallyImpure(next)]
  /\ worklist' = IF TriviallyImpure(next) THEN Append(worklist, next) ELSE worklist
  /\ next' = next + 1
  /\ UNCHANGED <<prog, phase, callers>>

TrivialDone ==
  /\ phase = "trivial"
  /\ next \notin Fns
  /\ phase' = "process"
  /\ UNCHANGED <<prog, next, is_pure, worklist, callers>>

\* The head of the work list is taken; process goes over its use list.
Process ==
  /\ phase = "process"
  /\ callers = {}
  /\ worklist # <<>>
  /\ callers' = {i \in Ins : ins[i].callee = Head(worklist)}
  /\ worklist' = Tail(worklist)
  /\ UNCHANGED <<prog, phase, next, is_pure>>

\* Mutant: a caller is marked but not put on the work list.
EnqueueForgotten(w, f) == w

Enqueue(w, f) == Append(w, f)

\* One use: the function around the call becomes impure.  The passes before
\* this one decide the order of a use list.
ProcessUse ==
  /\ phase = "process"
  /\ \E i \in callers :
       /\ callers' = callers \ {i}
       /\ IF is_pure[ins[i].fn]
          THEN /\ is_pure' = [is_pure EXCEPT ![ins[i].fn] = FALSE]
               /\ worklist' = Enqueue(worklist, ins[i].fn)
          ELSE UNCHANGED <<is_pure, worklist>>
  /\ UNCHANGED <<prog, phase, next>>

FuncInfoDone ==
  /\ phase = "process"
  /\ callers = {}
  /\ worklist = <<>>
  /\ phase' = "ready"
  /\ UNCHANGED <<prog, next, is_pure, worklist, callers>>

FuncInfoNext ==
  \/ TrivialMark
  \/ TrivialDone
  \/ Process
  \/ ProcessUse
  \/ FuncInfoDone

-----------------------------------------------------------------------------
(***************************************************************************)
(* Properties.                                                             *)
(***************************************************************************)

FuncInfoTypeOK ==
  /\ phase \in {"trivial", "process", "ready"}
  /\ next \in 1..(prog.fns + 1)
  /\ is_pure \in [Fns -> BOOLEAN]
  /\ worklist \in Seq(Fns)
  /\ callers \in SUBSET Ins

\* A set of functions that holds every trivially impure one and every caller
\* of one of its members.
ImpureClosed(S) ==
  /\ \A f \in Fns : TriviallyImpure(f) => f \in S
  /\ \A i \in Ins : ins[i].callee \in S => ins[i].fn \in S

\* f reaches an impure function through calls: it is in the least closed set.
ReachesImpure(f) == \A S \in SUBSET Fns : ImpureClosed(S) => f \in S

\* When the analysis is done, a function is pure exactly if no chain of calls
\* leads from it to a function with a side effect of its own, whatever the
\* recursion among them.
PurityExact ==
  phase = "ready" => \A f \in Fns : is_pure[f] <=> ~ReachesImpure(f)
=============================================================================
