--------------------------------- MODULE GVN ---------------------------------
(***************************************************************************)
(* Global value numbering on one function in SSA form: GVN::               *)
(* detectEquivalences, which finds for every block a partition of the      *)
(* values into congruence classes, and GVN::replace_cc_members, which      *)
(* replaces members by the leaders of their classes.                       *)
(*                                                                         *)
(* A function is [blocks, pre]: for every block, in the order of the list, *)
(* its instructions and its predecessors; block 1 is the entry.  An        *)
(* instruction is [id, op, args], id 0 if it has no result.  Values are    *)
(*   <<"ins", id>>  <<"arg", n>>  <<"global", name>>  <<"const", n, type>> *)
(*   <<"block", b>>  <<"func", name>>                                      *)
(* and a phi has args <<v1, b1, v2, b2>>.  The constructors of Expression  *)
(* are tuples with the name of the class first; a class of a partition is  *)
(* [leader, expr, members] and a partition a function from index_.         *)
(***************************************************************************)
EXTENDS Integers, Sequences, TLC, FiniteSetsExt, SequencesExt

CONSTANTS
  SSAFunctions, \* the functions
  Arguments,    \* how many arguments they have
  Globals,      \* the global variables, in order
  PureFunctions,\* what FuncInfo found
  Heaps,        \* orders of the instructions on the heap, see Address
  MaxRounds     \* bound on the rounds of detectEquivalences

VARIABLES
  source,             \* the function before the pass
  fn,                 \* the function
  heap,
  pin, pout,          \* pin_, pout_
  next_value_number,
  pc,                 \* entry copy join transfer round replace done undefined
  bb,                 \* the block that is processed
  i,                  \* the phi, predecessor or instruction of bb
  work,               \* the local partition: pout in the entry, pin in a round
  ori_pout,
  changed,
  num,                \* rounds that are over
  left                \* the blocks whose classes are not yet replaced

vars == <<source, fn, heap, pin, pout, next_value_number, pc, bb, i, work,
          ori_pout, changed, num, left>>

Null == <<"null">>

Blocks == 1..Len(fn.blocks)
Instrs(f) == UNION {Range(f.blocks[b]) : b \in 1..Len(f.blocks)}
Instr(v)  == CHOOSE x \in Instrs(fn) : x.id = v[2]
Result(x) == <<"ins", x.id>>
IsPhi(v)  == v[1] = "ins" /\ Instr(v).op = "phi"
IsConst(v) == v[1] = "const"
Const(n, t) == <<"const", n, t>>

BinaryOps  == {"add", "sub", "mul", "sdiv", "fadd", "fsub", "fmul", "fdiv"}
CompareOps == {"eq", "ne", "gt", "ge", "lt", "le"}
ConvertOps == {"sitofp", "fptosi", "zext"}

-----------------------------------------------------------------------------
(***************************************************************************)
(* Constants.  A float is counted in halves.                               *)
(***************************************************************************)
Quot(a, b) ==
  LET q == (IF a < 0 THEN -a ELSE a) \div (IF b < 0 THEN -b ELSE b) IN
  IF (a < 0) # (b < 0) THEN -q ELSE q

\* The number an operation yields.
Value2(op, a, b) ==
  CASE op \in {"add", "fadd"} -> a + b
    [] op \in {"sub", "fsub"} -> a - b
    [] op = "mul"  -> a * b
    [] op = "fmul" -> Quot(a * b, 2)
    [] op = "sdiv" -> Quot(a, b)
    [] op = "fdiv" -> Quot(2 * a, b)
    [] op = "eq" -> IF a = b THEN 1 ELSE 0
    [] op = "ne" -> IF a # b THEN 1 ELSE 0
    [] op = "gt" -> IF a > b THEN 1 ELSE 0
    [] op = "ge" -> IF a >= b THEN 1 ELSE 0
    [] op = "lt" -> IF a < b THEN 1 ELSE 0
    [] op = "le" -> IF a <= b THEN 1 ELSE 0

Value1(op, a) == CASE op = "sitofp" -> 2 * a [] op = "fptosi" -> Quot(a, 2)
                   [] op = "zext" -> a

TypeOf(op) == CASE op \in CompareOps -> "i1"
                [] op \in {"fadd", "fsub", "fmul", "fdiv", "sitofp"} -> "float"
                [] OTHER -> "i32"

\* ConstFolder::compute; an instruction it does not fold gives the null pointer.
Fold2(op, c, d) ==
  IF op \in BinaryOps \cup CompareOps THEN Const(Value2(op, c[2], d[2]), TypeOf(op))
  ELSE Null
Fold1(op, c)    == Const(Value1(op, c[2]), TypeOf(op))

-----------------------------------------------------------------------------
(***************************************************************************)
(* Expressions:                                                            *)
(*   <<"const", c, isbool>>  <<"arg", n>>  <<"global", name>>              *)
(*   <<"bin", op, l, r>>  <<"cmp", op, l, r>>  <<"single", l>>             *)
(*   <<"func", call, f, args, pure>>  <<"gep", ptr, idx1, idx2>>           *)
(*   <<"load", instr, l>>  <<"alloca", instr>>  <<"var", value, expr>>     *)
(*   <<"valf", c, bb>>, the copy of a constant to a phi at the end of bb   *)
(*   <<"phi", l, r, object>>, object standing for the address of the       *)
(*                            expression, which valuePhiFunc compares      *)
(***************************************************************************)
RECURSIVE Equiv(_, _)

\* The equiv methods, for expressions of the same kind.
SameFunc(e, f) ==
  IF e[5] THEN /\ e[3] = f[3]
               /\ Len(e[4]) = Len(f[4])
               /\ \A k \in 1..Len(e[4]) : Equiv(e[4][k], f[4][k])
  ELSE e[2] = f[2]
SameVar(e, f)    == IF e[2] = f[2] THEN TRUE ELSE Equiv(e[3], f[3])
SameLeaf(e, f)   == e = f
SameGep(e, f)    == \A k \in 2..4 : Equiv(e[k], f[k])
SameLoad(e, f)   == e[2] = f[2] /\ Equiv(e[3], f[3])
SameSingle(e, f) == Equiv(e[2], f[2])
SameBinary(e, f) == e[2] = f[2] /\ Equiv(e[3], f[3]) /\ Equiv(e[4], f[4])
SamePhi(e, f)    == Equiv(e[2], f[2]) /\ Equiv(e[3], f[3])

Equiv(e, f) ==
  /\ e[1] = f[1]
  /\ CASE e[1] \in {"bin", "cmp"} -> SameBinary(e, f)
       [] e[1] = "phi"    -> SamePhi(e, f)
       [] e[1] = "func"   -> SameFunc(e, f)
       [] e[1] = "var"    -> SameVar(e, f)
       [] e[1] = "load"   -> SameLoad(e, f)
       [] e[1] = "gep"    -> SameGep(e, f)
       [] e[1] = "single" -> SameSingle(e, f)
       [] OTHER           -> SameLeaf(e, f)

-----------------------------------------------------------------------------
(***************************************************************************)
(* Partitions.  Their order, and the order of the members of a class, is   *)
(* that of std::set: by index_, and by the addresses of the values.        *)
(***************************************************************************)
\* The heap is <<low, descending>>: whether mem2reg's phis lie below the
\* instructions of the builder, and whether the addresses of instructions and
\* blocks fall as their numbers grow.
Address(v) ==
  IF v[1] # "ins" THEN <<0, 0>>
  ELSE <<IF IsPhi(v) # heap[1] THEN 2 ELSE 1, IF heap[2] THEN -v[2] ELSE v[2]>>

Below(v, w) ==
  LET a == Address(v)
      b == Address(w) IN a[1] < b[1] \/ (a[1] = b[1] /\ a[2] < b[2])

FirstMember(S) == CHOOSE v \in S : \A w \in S \ {v} : Below(v, w)

Class(leader, expr, members) == [leader |-> leader, expr |-> expr, members |-> members]

Top == 0 :> Class(Null, Null, {})

Indices(P) ==
  [n \in 1..Cardinality(DOMAIN P) |->
     CHOOSE k \in DOMAIN P : Cardinality({j \in DOMAIN P : j < k}) = n - 1]

\* The first class in the order of P with one of the indices S, or 0.
FirstOf(S) == IF S = {} THEN 0 ELSE Min(S)

Holding(P, v) == {k \in DOMAIN P : v \in P[k].members}

\* Mutant: every class is compared with the class of the same index.
SameIndexed(P, Q) ==
  /\ DOMAIN P = DOMAIN Q
  /\ \A k \in DOMAIN P : P[k].members = Q[k].members /\ Equiv(P[k].expr, Q[k].expr)

\* partitions ==: classes are compared in the order of their indices.
SamePartition(P, Q) ==
  LET p == Indices(P)
      q == Indices(Q) IN
  /\ Len(p) = Len(q)
  /\ \A k \in 1..Len(p) : /\ P[p[k]].members = Q[q[k]].members
                          /\ Equiv(P[p[k]].expr, Q[q[k]].expr)

\* The expression of an operand: the constant of its class, unless the operand
\* is a phi and the instruction could be folded, or the operand with the
\* expression of its class.
Operand(v, P, folds) ==
  LET e == P[Min(Holding(P, v))].expr IN
  IF IsConst(v) THEN <<"const", v, FALSE>>
  ELSE IF Holding(P, v) = {} THEN Null
  ELSE IF e[1] \in {"arg", "global"} \/ (e[1] = "const" /\ ~(folds /\ IsPhi(v)))
       THEN e ELSE <<"var", v, e>>

\* The arguments of a call: one without a class gets the expression of the
\* argument before it.
CallArgs(args, P) ==
  LET E[k \in 0..Len(args)] ==
        IF k = 0 THEN Null
        ELSE LET e == Operand(args[k], P, FALSE) IN IF e = Null THEN E[k - 1] ELSE e
  IN  [k \in 1..Len(args) |-> E[k]]

\* Binary instructions and compares; two constants are folded.
ValueExpr2(x, P, kind) ==
  LET l == Operand(x.args[1], P, TRUE)
      r == Operand(x.args[2], P, TRUE)
  IN
  IF l[1] = "const" /\ r[1] = "const"
  THEN <<"const", Fold2(x.op, l[2], r[2]), kind = "cmp">>
  ELSE IF l = Null \/ r = Null THEN Null
  ELSE <<kind, x.op, l, r>>

BinaryExpr(x, P) == ValueExpr2(x, P, "bin")
CmpExpr(x, P)    == ValueExpr2(x, P, "cmp")

FuncExpr(x, P) ==
  LET as == CallArgs(Tail(x.args), P) IN
  IF as # <<>> /\ as[1] = Null THEN Null
  ELSE <<"func", Result(x), x.args[1], as, x.args[1] \in PureFunctions>>

GepExpr(x, P) ==
  LET g == [k \in 1..Len(x.args) |-> Operand(x.args[k], P, FALSE)] IN
  IF g[1] = Null \/ g[2] = Null THEN Null
  ELSE <<"gep", g[1], g[2], IF Len(g) > 2 THEN g[3] ELSE Null>>

LoadExpr(x, P) ==
  LET l == Operand(x.args[1], P, FALSE) IN
  IF l = Null THEN Null ELSE <<"load", Result(x), l>>

SingleExpr(x, P) ==
  LET l == Operand(x.args[1], P, TRUE) IN
  IF l[1] = "const" THEN <<"const", Fold1(x.op, l[2]), FALSE>>
  ELSE IF l = Null THEN Null ELSE <<"single", l>>

valueExpr(x, P) ==
  CASE x.op \in BinaryOps  -> BinaryExpr(x, P)
    [] x.op \in CompareOps -> CmpExpr(x, P)
    [] x.op = "call"       -> FuncExpr(x, P)
    [] x.op = "gep"        -> GepExpr(x, P)
    [] x.op = "load"       -> LoadExpr(x, P)
    [] x.op = "alloca"     -> <<"alloca", Result(x)>>
    [] x.op \in ConvertOps -> SingleExpr(x, P)

getVN(P, e) ==
  LET k == FirstOf({j \in DOMAIN P : Equiv(P[j].expr, e)}) IN
  IF k = 0 THEN Null
  ELSE IF P[k].expr[1] = "const" THEN P[k].expr
  ELSE <<"var", P[k].leader, P[k].expr>>

\* What reading a null or a missing operand leads to.
Undefined == <<"undefined">>

RECURSIVE valuePhiFunc(_, _, _)

\* The sum of two phis as a phi of two sums, if both sums have a number at the
\* end of the predecessors.  The class with the very expression of a phi is
\* looked up for its leader, whose operands name the predecessors.  Constants
\* are folded with the operation of the operand of that leader.
valuePhiFunc(e, P, object) ==
  LET lphi  == e[3][3]
      rphi  == e[4][3]
      lc    == FirstOf({k \in DOMAIN P : P[k].expr = lphi})
      rc    == FirstOf({k \in DOMAIN P : P[k].expr = rphi})
      From(c)       == Instr(P[c].leader)
      NoInstr(c, k) == c # 0 /\ (P[c].leader[1] # "ins" \/ From(c).args[k][1] # "ins")
      Sum(c, k, l, r) ==
        IF l[1] = "const" /\ r[1] = "const"
        THEN <<"const", Fold2(Instr(From(c).args[k]).op, l[2], r[2]), FALSE>>
        ELSE <<"bin", e[2], l, r>>
      Out(c, k) == IF From(c).op = "phi" THEN pout[From(c).args[k + 1][2]] ELSE << >>
      Number(c, k, l, r) ==
        LET s == Sum(c, k, l, r)
            n == getVN(Out(c, k), s) IN
        IF s[1] = "const" /\ s[2] = Null THEN Undefined
        ELSE IF n # Null THEN n ELSE valuePhiFunc(s, Out(c, k), object)
      Phi(vi, vj) ==
        IF vi = Undefined \/ vj = Undefined THEN Undefined
        ELSE IF vi = Null \/ vj = Null THEN Null
        ELSE <<"phi", vi, vj, object>>
  IN
  IF ~ /\ e[1] = "bin" /\ e[3][1] = "var" /\ e[4][1] = "var"
       /\ IsPhi(e[3][2]) /\ IsPhi(e[4][2])
       /\ lphi[1] = "phi" /\ rphi[1] = "phi"
  THEN Null
  ELSE IF NoInstr(lc, 1) THEN Null
  ELSE IF rc # 0 /\ P[rc].leader[1] = "ins" /\ From(rc).op # "phi" THEN Undefined
  ELSE IF NoInstr(rc, 3) THEN Null
  ELSE IF lc = 0 \/ rc = 0 THEN Undefined
  ELSE Phi(Number(lc, 1, lphi[2], rphi[2]), Number(rc, 3, lphi[3], rphi[3]))

-----------------------------------------------------------------------------
(***************************************************************************)
(* The functions of the data flow analysis.  They return the partition p   *)
(* and the next value number n.                                            *)
(***************************************************************************)
\* The classes that the loop of transferFunction erases while it iterates.
Erased(P) == {k \in DOMAIN P : k = 0 \/ P[k].members = {}}

\* It may do so only if the partition is empty then: otherwise it goes on from
\* an element that is no longer there.
ErasesWhileIterating(P) == Erased(P) # {} /\ Cardinality(DOMAIN P) > 1

\* Instruction x has the expressions ve and, unless it is null, vpf: it joins
\* the first class with one of them, or gets a class of its own.
Classify(x, Q, n, ve, vpf) ==
  LET IsVpf(k) == vpf # Null /\ Equiv(Q[k].expr, vpf)
      same == {k \in DOMAIN Q : IsVpf(k) \/ Equiv(Q[k].expr, ve)}
      Add(k) == [Q EXCEPT ![k] = Class(@.leader, IF IsVpf(k) THEN vpf ELSE @.expr,
                                       @.members \cup {Result(x)})]
  IN
  IF ve = Null THEN [p |-> Q, n |-> n, ok |-> TRUE]
  ELSE IF vpf = Undefined THEN [p |-> Q, n |-> n, ok |-> FALSE]
  ELSE IF same # {} THEN [p |-> Add(Min(same)), n |-> n, ok |-> TRUE]
  ELSE [p |-> (n :> Class(Result(x), IF vpf # Null THEN vpf ELSE ve, {Result(x)})) @@ Q,
        n |-> n + 1, ok |-> TRUE]

transferFunction(x, P, n) ==
  LET Q == [k \in DOMAIN P \ Erased(P) |->
              [P[k] EXCEPT !.members = @ \ {Result(x)}]]
      WithPhi(ve) == Classify(x, Q, n, ve, valuePhiFunc(ve, Q, <<n, x.id>>))
  IN
  IF x.id = 0 \/ x.op = "phi" THEN [p |-> P, n |-> n, ok |-> TRUE]
  ELSE IF ErasesWhileIterating(P) THEN [p |-> P, n |-> n, ok |-> FALSE]
  ELSE WithPhi(valueExpr(x, Q))

\* The expression that one side of phi v contributes to its class.
PhiSide(v, C) ==
  IF IsConst(v) THEN <<"const", v, FALSE>>
  ELSE IF v \notin C.members THEN Null
  ELSE IF C.expr[1] \in {"const", "arg", "global"} THEN C.expr
  ELSE <<"var", v, C.expr>>

\* Mutant: the class of a phi keeps the leader it had in the predecessor.
OldLeader(v, C) == C.leader

\* The leader of the class that phi v makes of class C and another one.
PhiLeader(v, C) == v

\* The members that two classes share.  If the leaders differ, the first
\* member decides: a phi makes a value phi-function of the two sides.
intersect(Ci, Cj, n) ==
  LET both == Ci.members \cap Cj.members
      v    == FirstMember(both)
      l    == PhiSide(Instr(v).args[1], Ci)
      r    == PhiSide(Instr(v).args[3], Cj)
      lexp == IF IsConst(Instr(v).args[1]) THEN l ELSE Ci.expr
  IN
  IF Ci.leader # Cj.leader /\ IsPhi(v) /\ l # Null /\ r # Null
  THEN Class(PhiLeader(v, Ci),
             IF Equiv(l, r) THEN lexp ELSE <<"phi", l, r, <<n, 0>>>>, both)
  ELSE Class(Ci.leader, Ci.expr, both)

\* Every pair of classes takes a number, also if nothing is shared; the class
\* of two with the same leader keeps its index, and std::set::insert the first
\* class of an index.
join(P, Q, n) ==
  LET p       == Indices(P)
      q       == Indices(Q)
      pairs   == {s \in (1..Len(p)) \X (1..Len(q)) :
                    P[p[s[1]]].members \cap Q[q[s[2]]].members # {}}
      Mine(s) == n + (s[1] - 1) * Len(q) + s[2] - 1
      Ix(s)   == IF P[p[s[1]]].leader = Q[q[s[2]]].leader THEN p[s[1]] ELSE Mine(s)
      First(k) == CHOOSE s \in pairs :
                    Ix(s) = k /\ \A t \in pairs : Ix(t) = k => Mine(s) <= Mine(t)
  IN
  IF P = << >> \/ Q = << >> THEN [p |-> << >>, n |-> n]
  ELSE IF 0 \in DOMAIN P THEN [p |-> Q, n |-> n]
  ELSE IF 0 \in DOMAIN Q \/ SamePartition(P, Q) THEN [p |-> P, n |-> n]
  ELSE [p |-> [k \in {Ix(s) : s \in pairs} |->
                 intersect(P[p[First(k)[1]]], Q[q[First(k)[2]]], Mine(First(k)))],
        n |-> n + Len(p) * Len(q)]

\* Mutant: the phi stays in the class of an earlier round.
NotWithout(P, v) == P

\* The loop that takes v out of its class stops where that class becomes empty
\* and is erased.
Without(P, v) ==
  LET stop == FirstOf({k \in DOMAIN P : P[k].members = {v}})
      rest == IF stop = 0 THEN P ELSE [k \in DOMAIN P \ {stop} |-> P[k]]
  IN  IF 0 \in DOMAIN P THEN P
      ELSE [k \in DOMAIN rest |->
              IF stop = 0 \/ k < stop THEN [rest[k] EXCEPT !.members = @ \ {v}]
              ELSE rest[k]]

\* The loop erases the top class while it stands on it.  The class is the first
\* of two then, and its freed node still leads to the other one.
WithoutTop(P) == [k \in DOMAIN P \ {0} |-> P[k]]

\* copyStatment, for one side: phi x gets the value v at the end of block b.
CopyTo(P, x, v, b, n) ==
  LET Q    == Without(P, Result(x))
      here == {k \in DOMAIN Q : \/ Q[k].expr = <<"valf", v, b>>
                                \/ v \in Q[k].members}
      new  == n :> Class(Result(x), <<"valf", v, b>>, {Result(x)})
  IN
  IF 0 \notin DOMAIN P /\ here # {}
  THEN [p |-> [Q EXCEPT ![Min(here)].members = @ \cup {Result(x)}], n |-> n]
  ELSE IF IsConst(v) THEN [p |-> WithoutTop(new @@ Q), n |-> n + 1]
  ELSE [p |-> Q, n |-> n]

-----------------------------------------------------------------------------
(***************************************************************************)
(* The pass.                                                               *)
(***************************************************************************)
\* initPerFunction, and the classes of the arguments and global variables.
Init ==
  /\ source \in SSAFunctions
  /\ fn = source
  /\ heap \in Heaps
  /\ pin = [b \in Blocks |-> << >>]
  /\ pout = [b \in Blocks |-> IF b = 1 THEN << >> ELSE Top]
  /\ work = [k \in 1..(Arguments + Len(Globals)) |->
               LET v == IF k <= Arguments THEN <<"arg", k>>
                        ELSE <<"global", Globals[k - Arguments]>>
               IN  Class(v, v, {v})]
  /\ next_value_number = Arguments + Len(Globals) + 1
  /\ pc = "entry"
  /\ bb = 1
  /\ i = 1
  /\ ori_pout = << >>
  /\ changed = FALSE
  /\ num = 0
  /\ left = {}

given == <<source, heap>>

\* The next block of the list, or the end of the round.
GoTo(b) ==
  /\ bb' = b
  /\ i' = 1
  /\ pc' = IF b <= Len(fn.blocks) THEN "copy" ELSE "round"

\* An instruction of the entry block, whose partition starts from the classes
\* of the arguments and is computed once.
EntryInstruction ==
  /\ pc = "entry"
  /\ i <= Len(fn.blocks[1])
  /\ \E t \in {transferFunction(fn.blocks[1][i], work, next_value_number)} :
       /\ work' = t.p
       /\ next_value_number' = t.n
       /\ pc' = IF t.ok THEN pc ELSE "undefined"
  /\ i' = i + 1
  /\ UNCHANGED <<given, fn, pin, pout, bb, ori_pout, changed, num, left>>

EntryDone ==
  /\ pc = "entry"
  /\ i > Len(fn.blocks[1])
  /\ pout' = [pout EXCEPT ![1] = work]
  /\ GoTo(2)
  /\ UNCHANGED <<given, fn, pin, next_value_number, work, ori_pout, changed, num, left>>

\* The i-th instruction of the block is a phi: its copies go to the ends of
\* the two predecessors.
copyStatment ==
  LET x == fn.blocks[bb][i]
      l == CopyTo(pout[x.args[2][2]], x, x.args[1], x.args[2], next_value_number)
      m == [pout EXCEPT ![x.args[2][2]] = l.p]
      r == CopyTo(m[x.args[4][2]], x, x.args[3], x.args[4], l.n)
  IN
  /\ pc = "copy"
  /\ i <= Len(fn.blocks[bb]) /\ x.op = "phi"
  /\ pout' = [m EXCEPT ![x.args[4][2]] = r.p]
  /\ next_value_number' = r.n
  /\ i' = i + 1
  /\ UNCHANGED <<given, fn, pin, pc, bb, work, ori_pout, changed, num, left>>

CopiesDone ==
  /\ pc = "copy"
  /\ i <= Len(fn.blocks[bb]) => fn.blocks[bb][i].op # "phi"
  /\ ori_pout' = pout[bb]
  /\ work' = Top
  /\ pc' = "join"
  /\ i' = 1
  /\ UNCHANGED <<given, fn, pin, pout, next_value_number, bb, changed, num, left>>

JoinPredecessor ==
  LET j == join(work, pout[fn.pre[bb][i]], next_value_number) IN
  /\ pc = "join"
  /\ i <= Len(fn.pre[bb])
  /\ work' = j.p
  /\ next_value_number' = j.n
  /\ i' = i + 1
  /\ UNCHANGED <<given, fn, pin, pout, pc, bb, ori_pout, changed, num, left>>

\* The partition at the beginning of the block is the one of the last round.
SkipBlock ==
  /\ pc = "join"
  /\ i > Len(fn.pre[bb])
  /\ num # 0 /\ SamePartition(pin[bb], work)
  /\ GoTo(bb + 1)
  /\ UNCHANGED <<given, fn, pin, pout, next_value_number, work, ori_pout, changed, num, left>>

BeginBlock ==
  /\ pc = "join"
  /\ i > Len(fn.pre[bb])
  /\ ~(num # 0 /\ SamePartition(pin[bb], work))
  /\ pin' = [pin EXCEPT ![bb] = work]
  /\ pout' = [pout EXCEPT ![bb] = work]
  /\ pc' = "transfer"
  /\ i' = 1
  /\ UNCHANGED <<given, fn, next_value_number, bb, work, ori_pout, changed, num, left>>

TransferInstruction ==
  /\ pc = "transfer"
  /\ i <= Len(fn.blocks[bb])
  /\ \E t \in {transferFunction(fn.blocks[bb][i], pout[bb], next_value_number)} :
       /\ pout' = [pout EXCEPT ![bb] = t.p]
       /\ next_value_number' = t.n
       /\ pc' = IF t.ok THEN pc ELSE "undefined"
  /\ i' = i + 1
  /\ UNCHANGED <<given, fn, pin, bb, work, ori_pout, changed, num, left>>

EndBlock ==
  /\ pc = "transfer"
  /\ i > Len(fn.blocks[bb])
  /\ changed' = (changed \/ ~SamePartition(pout[bb], ori_pout))
  /\ GoTo(bb + 1)
  /\ UNCHANGED <<given, fn, pin, pout, next_value_number, work, ori_pout, num, left>>

NextRound ==
  /\ pc = "round"
  /\ changed
  /\ num + 1 < MaxRounds
  /\ changed' = FALSE
  /\ num' = num + 1
  /\ GoTo(2)
  /\ UNCHANGED <<given, fn, pin, pout, next_value_number, work, ori_pout, left>>

\* The fixed point is reached: constants become the leaders of their classes.
SetLeaders ==
  /\ pc = "round"
  /\ ~changed
  /\ pout' = [b \in Blocks |-> [k \in DOMAIN pout[b] |->
                LET C == pout[b][k] IN
                IF C.expr[1] = "const" THEN [C EXCEPT !.leader = C.expr[2]] ELSE C]]
  /\ left' = Blocks
  /\ pc' = "replace"
  /\ UNCHANGED <<given, fn, pin, next_value_number, bb, i, work, ori_pout, changed, num>>

\* Does x, an instruction of block b, count as a user in block c?  A phi is
\* read at the ends of the predecessors of its block.
UserIn(f, x, b, c) == IF x.op = "phi" THEN c \in Range(f.pre[b]) ELSE b = c

\* replace_use_with_when, for the members of class C in block c.
ReplaceMembers(f, C, c) ==
  LET old == {v \in C.members : v # C.leader /\ ~IsPhi(v)} IN
  [f EXCEPT !.blocks = [b \in DOMAIN f.blocks |-> [k \in DOMAIN f.blocks[b] |->
     LET x == f.blocks[b][k] IN
     IF ~UserIn(f, x, b, c) THEN x
     ELSE [x EXCEPT !.args = [a \in DOMAIN x.args |->
             IF x.args[a] \in old THEN C.leader ELSE x.args[a]]]]]]

\* replace_cc_members, for one block: pout_ is a map from the addresses of the
\* blocks.
ReplaceBlock ==
  LET c  == IF heap[2] THEN Max(left) ELSE Min(left)
      ks == Indices(WithoutTop(pout[c]))
      F[k \in 0..Len(ks)] ==
        IF k = 0 THEN fn ELSE ReplaceMembers(F[k - 1], pout[c][ks[k]], c)
  IN
  /\ pc = "replace"
  /\ fn' = F[Len(ks)]
  /\ left' = left \ {c}
  /\ pc' = IF left' = {} THEN "done" ELSE pc
  /\ UNCHANGED <<given, pin, pout, next_value_number, bb, i, work, ori_pout, changed, num>>

Next ==
  \/ EntryInstruction \/ EntryDone
  \/ copyStatment \/ CopiesDone \/ JoinPredecessor
  \/ SkipBlock \/ BeginBlock \/ TransferInstruction \/ EndBlock
  \/ NextRound \/ SetLeaders \/ ReplaceBlock

Spec == Init /\ [][Next]_vars

-----------------------------------------------------------------------------
\* No loop of transferFunction goes on from a class it has erased, and none
\* of valuePhiFunc looks into an expression that is not there: partitions that
\* rounds have joined, and copies of phis have changed, keep the top class
\* alone and no class empty.
NoUndefinedRead == pc # "undefined"

\* detectEquivalences reaches a fixed point within MaxRounds rounds, although
\* every round makes new expressions and gives the classes of a join new
\* indices, in whose order partitions are compared.
Converges == pc = "round" /\ changed => num + 1 < MaxRounds
=============================================================================
