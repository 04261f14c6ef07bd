------------------------------ MODULE DeadCode ------------------------------
(***************************************************************************)
(* Dead code elimination (DeadCode): mark what the critical instructions   *)
(* need, sweep the rest, and repeat until a round erases nothing.  It runs *)
(* on the purity FuncInfo computed once, at the start.                     *)
(***************************************************************************)
EXTENDS FuncInfo, FiniteSets

VARIABLES
  step,       \* "idle", "mark", "unuse" or "done"
  func,       \* position of the loop over the functions
  changed,
  alive,      \* the instructions in the blocks
  uses,       \* the use lists: <<v, i>> when v's list has an entry of i
  marked,
  work_list,
  wait_del,
  rest        \* the part of wait_del that still has to leave the use lists

dcVars == <<step, func, changed, alive, uses, marked, work_list, wait_del, rest>>
vars   == <<fiVars, dcVars>>

\* The values an instruction uses; a function f is the value -f.
Operands(i) == ins[i].ops \cup (IF ins[i].callee = 0 THEN {} ELSE {-ins[i].callee})

UsesOf(S) == UNION {{<<v, i>> : v \in Operands(i)} : i \in S}

DCInit ==
  /\ Init
  /\ step = "idle"
  /\ func = 1
  /\ changed = FALSE
  /\ alive = Ins
  /\ uses = UsesOf(Ins)
  /\ marked = {}
  /\ work_list = <<>>
  /\ wait_del = {}
  /\ rest = {}

\* func_info->run().
Analyse ==
  /\ FuncInfoNext
  /\ UNCHANGED dcVars

-----------------------------------------------------------------------------
\* Mutant: a call that returns nothing that is used is not critical.
CallsNotCritical(i) == ins[i].kind \in {"br", "ret", "store"}

is_critical(i) ==
  IF ins[i].kind = "call" THEN ~is_pure[ins[i].callee]
  ELSE ins[i].kind \in {"br", "ret", "store"}

\* The sequences that list every element of S once.
Listings(S) ==
  {s \in [1..Cardinality(S) -> S] : \A x \in S : \E k \in 1..Cardinality(S) : s[k] = x}

\* The first part of mark(func): the critical instructions, in block order.
MarkCritical ==
  LET critical == {i \in alive : ins[i].fn = func /\ is_critical(i)} IN
  /\ phase = "ready"
  /\ step = "idle"
  /\ func \in Fns
  /\ marked' = critical
  /\ \E s \in Listings(critical) :
       /\ \A j, k \in DOMAIN s : j < k => s[j] < s[k]
       /\ work_list' = s
  /\ step' = "mark"
  /\ UNCHANGED <<fiVars, func, changed, alive, uses, wait_del, rest>>

\* Mutant: only instructions that are critical themselves are kept.
NoDefs(i) == {}

\* The operands that mark(ins) reaches.
NewDefs(i) == {d \in ins[i].ops : d \notin marked /\ ins[d].fn = ins[i].fn}

\* mark(ins) for the head of the work list.
MarkInstr ==
  /\ step = "mark"
  /\ work_list # <<>>
  /\ marked' = marked \cup NewDefs(Head(work_list))
  /\ \E s \in Listings(NewDefs(Head(work_list))) : work_list' = Tail(work_list) \o s
  /\ UNCHANGED <<fiVars, step, func, changed, alive, uses, wait_del, rest>>

\* The unmarked instructions of the function.
Collect == {i \in alive : ins[i].fn = func /\ i \notin marked}

\* sweep: the instructions to erase are collected.
Sweep ==
  /\ step = "mark"
  /\ work_list = <<>>
  /\ wait_del' = Collect
  /\ rest' = Collect
  /\ step' = "unuse"
  /\ UNCHANGED <<fiVars, func, changed, alive, uses, marked, work_list>>

\* Mutant: an instruction is erased as soon as it has left the use lists.
EraseAtOnce(i) == alive' = alive \ {i}

\* remove_use_of_ops leaves the blocks alone.
StillInBlock(i) == alive' = alive

\* Mutant: the use lists keep their entries.
UsesKept(i) == uses

\* remove_use for every operand of i.
UsesWithout(i) == {u \in uses : u[2] # i}

\* sweep: one remove_use_of_ops, in the order of an unordered set.
RemoveUseOfOps ==
  /\ step = "unuse"
  /\ \E i \in rest :
       /\ uses' = UsesWithout(i)
       /\ rest' = rest \ {i}
       /\ StillInBlock(i)
  /\ UNCHANGED <<fiVars, step, func, changed, marked, work_list, wait_del>>

\* Mutant: every sweep counts as a change.
AlwaysChanged == TRUE

\* The result of sweep, joined to the round's.
ChangedAfterSweep == changed \/ wait_del # {}

\* Mutant: the iterator over the functions advances twice.
SkipFunction == func + 2

\* ++ on the iterator over the functions.
NextFunction == func + 1

\* sweep: the erasure, and the next function of the round.
Erase ==
  /\ step = "unuse"
  /\ rest = {}
  /\ alive' = alive \ wait_del
  /\ changed' = ChangedAfterSweep
  /\ func' = NextFunction
  /\ step' = "idle"
  /\ UNCHANGED <<fiVars, uses, marked, work_list, wait_del, rest>>

\* The end of a round: another one if this one erased something.
EndRound ==
  /\ phase = "ready"
  /\ step = "idle"
  /\ func \notin Fns
  /\ IF changed
     THEN func' = 1 /\ changed' = FALSE /\ UNCHANGED step
     ELSE step' = "done" /\ UNCHANGED <<func, changed>>
  /\ UNCHANGED <<fiVars, alive, uses, marked, work_list, wait_del, rest>>

Next ==
  \/ Analyse
  \/ MarkCritical
  \/ MarkInstr
  \/ Sweep
  \/ RemoveUseOfOps
  \/ Erase
  \/ EndRound

Spec == DCInit /\ [][Next]_vars /\ WF_vars(Next)

-----------------------------------------------------------------------------
(***************************************************************************)
(* Properties.                                                             *)
(***************************************************************************)

\* The types of the state of both passes.
TypeOK ==
  /\ FuncInfoTypeOK
  /\ step \in {"idle", "mark", "unuse", "done"}
  /\ func \in 1..(prog.fns + 1)
  /\ changed \in BOOLEAN
  /\ alive \in SUBSET Ins
  /\ uses \in SUBSET (Int \X Ins)
  /\ marked \in SUBSET Ins
  /\ work_list \in Seq(Ins)
  /\ wait_del \in SUBSET Ins
  /\ rest \in SUBSET Ins

\* sweep never leaves an instruction in a block whose operand is gone.
NoDanglingOperand == \A i \in alive : ins[i].ops \subseteq alive

\* remove_use_of_ops goes through the operands of an instruction, dead ones
\* too: all of them still exist.
NoUseAfterErase == \A i \in rest : ins[i].ops \subseteq alive

\* Between two sweeps the use lists say exactly which instructions use what:
\* the passes that follow walk them.
UseListsExact == step \in {"idle", "mark", "done"} => uses = UsesOf(alive)

\* The effects of a program, by what the functions do and not by is_pure.
Effect(i) == \/ ins[i].kind \in {"br", "ret", "store"}
             \/ ins[i].kind = "call" /\ ReachesImpure(ins[i].callee)

\* The least set that holds the effects and what they depend on.
Needed ==
  LET effects == {j \in Ins : Effect(j)}
      closed  == {S \in SUBSET Ins : /\ effects \subseteq S
                                     /\ \A j \in S : ins[j].ops \subseteq S}
  IN  {i \in Ins : \A S \in closed : i \in S}

\* Only dead instructions are erased and, at the end, all of them are.
ErasesExactlyTheDead ==
  /\ Needed \subseteq alive
  /\ step = "done" => alive = Needed

\* The pass ends.
Terminates == <>(step = "done")
=============================================================================
