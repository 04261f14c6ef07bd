----------------------------- MODULE Mem2RegRun -----------------------------
(***************************************************************************)
(* Mem2Reg composed with the machine its output runs on: when the pass is  *)
(* done, the function as the builder made it and the function in SSA form  *)
(* are executed along the same path, instruction by instruction.  The      *)
(* branches are taken in any way.                                          *)
(*                                                                         *)
(* A machine value is a constant or Undef.  The phis of a block take their *)
(* operands in parallel when it is entered, and one without an operand for *)
(* the block control came from is undef (PhiInst::print).                  *)
(***************************************************************************)
EXTENDS Mem2Reg

VARIABLES
  at, ep,    \* the block and the position in it (0 before the start)
  mem, val,  \* memory and load results of the builder's function
  mem2, val2 \* the same, and the phis, of the function in SSA form

run_vars == <<at, ep, mem, val, mem2, val2>>
all_vars == <<vars, run_vars>>

Undef == -1

Start == [v \in Var |-> IF v \in Outside THEN 0 ELSE Undef]

RunInit ==
  /\ Init
  /\ at = 0
  /\ ep = 0
  /\ mem = Start
  /\ val = [l \in Loads |-> Undef]
  /\ mem2 = Start
  /\ val2 = [l \in Loads \cup {<<"phi", b, v>> : b \in Block, v \in Promoted} |->
               Undef]

\* The values of an operand in the two functions.
Eval(v)  == IF v[1] = "const" THEN v[2] ELSE val[v]
Eval2(v) == IF v[1] = "const" THEN v[2] ELSE val2[v]

\* The value of b's phi for v when control comes from p.
PhiValue(b, v, p) ==
  LET from == {k \in DOMAIN args[b][v] : args[b][v][k].bb = p} IN
    IF from = {} THEN Undef
    ELSE Eval2(args[b][v][CHOOSE k \in from : TRUE].val)

EnterBlock(b, p) ==
  /\ at' = b
  /\ ep' = 1
  /\ val2' = [d \in DOMAIN val2 |->
                IF d[1] = "phi" /\ d[2] = b /\ d[3] \in phi[b]
                THEN PhiValue(b, d[3], p) ELSE val2[d]]
  /\ UNCHANGED <<vars, mem, val, mem2>>

Call ==
  /\ pc = "done"
  /\ at = 0
  /\ EnterBlock(Entry, 0)

Branch(b) ==
  /\ at # 0
  /\ ep > Len(code[at])
  /\ b \in g[at]
  /\ EnterBlock(b, at)

Gone == <<at, ep>> \in erased

ExecLoad ==
  /\ at # 0
  /\ IsLoad(at, ep)
  /\ LET l == <<"load", at, ep>>
         a == code[at][ep].lval
     IN  /\ val' = [val EXCEPT ![l] = mem[a]]
         /\ val2' = IF Gone THEN val2 ELSE [val2 EXCEPT ![l] = mem2[a]]
  /\ ep' = ep + 1
  /\ UNCHANGED <<vars, at, mem, mem2>>

ExecStore ==
  /\ at # 0
  /\ IsStore(at, ep)
  /\ LET ins == code[at][ep] IN
       /\ mem' = [mem EXCEPT ![ins.lval] = Eval(ins.rval)]
       /\ mem2' = IF Gone THEN mem2
                  ELSE [mem2 EXCEPT ![ins.lval] = Eval2(Operand(ins.rval))]
  /\ ep' = ep + 1
  /\ UNCHANGED <<vars, at, val, val2>>

PassStep == Next /\ UNCHANGED run_vars

RunNext ==
  \/ PassStep
  \/ Call
  \/ \E b \in Block : Branch(b)
  \/ ExecLoad
  \/ ExecStore

RunSpec == RunInit /\ [][RunNext]_all_vars

-----------------------------------------------------------------------------
(***************************************************************************)
(* Properties.                                                             *)
(***************************************************************************)

\* The promotion changes no result: wherever the value of a load may be used
\* (later in its block and in the blocks it dominates), the operand its users
\* have in SSA form holds the value the load read from memory, if that was
\* ever set.
LoadsAgree ==
  at # 0 =>
    \A l \in Loads :
      LET usable == (l[2] = at /\ l[3] < ep) \/ SDomIn(g, l[2], at) IN
        val[l] # Undef /\ usable => Eval2(use[l]) = val[l]
=============================================================================
