----------------------------- MODULE BuilderRun ------------------------------
(***************************************************************************)
(* What the IR of Builder means, beside what the program means.            *)
(*                                                                         *)
(* RunIR executes the functions that were built.  RunSource evaluates the  *)
(* AST by the language definition (Documentations/common/cminusf.md),      *)
(* without blocks, addresses of temporaries or conversion instructions.    *)
(* A number is an integer; a float is counted in halves, so that 1 / 2     *)
(* differs between the two types.  Memory maps an address, a base with an  *)
(* offset, to a number or to an address; Fuel bounds both executions.      *)
(***************************************************************************)
EXTENDS Builder, FlowGraph

CONSTANTS
  Inputs,       \* sequences of numbers that input() returns, then 0
  Fuel          \* instructions, or statements and calls, an execution may take

Quot(a, b) ==
  LET q == (IF a < 0 THEN -a ELSE a) \div (IF b < 0 THEN -b ELSE b) IN
  IF (a < 0) # (b < 0) THEN -q ELSE q

ToFloat(n) == 2 * n
ToInt(h)   == Quot(h, 2)

Arith(cls, op, a, b) ==
  CASE op = "+" -> a + b
    [] op = "-" -> a - b
    [] op = "*" -> IF cls = "i" THEN a * b ELSE Quot(a * b, 2)
    [] op = "/" -> IF b = 0 THEN 0
                   ELSE IF cls = "i" THEN Quot(a, b) ELSE Quot(2 * a, b)

Compare(op, a, b) ==
  LET holds == CASE op = "<" -> a < b  [] op = "<=" -> a <= b
                 [] op = ">" -> a > b  [] op = ">=" -> a >= b
                 [] op = "==" -> a = b [] op = "!=" -> a # b
  IN  IF holds THEN 1 ELSE 0

\* The machine both executions share: memory, the next free base, the input
\* read, the output written, the fuel left, how the execution stands and, once
\* a function has returned, its value.
Start == [mem |-> << >>, base |-> 1, in |-> 0, out |-> <<>>, fuel |-> Fuel,
          status |-> "run", ret |-> 0]

Read(m, a) == IF a \in DOMAIN m.mem THEN m.mem[a] ELSE 0
Write(m, a, v) == [m EXCEPT !.mem = (a :> v) @@ @]
GlobalAddress(id) == <<-(CHOOSE i \in 1..Len(prog) : prog[i][2] = id), 0>>

\* The functions of the runtime.
Library(id, args, input, m) ==
  CASE id = "input"          -> [m EXCEPT !.in = @ + 1,
                                   !.ret = IF m.in < Len(input) THEN input[m.in + 1] ELSE 0]
    [] id = "output"         -> [m EXCEPT !.out = Append(@, <<"i", args[1]>>)]
    [] id = "outputFloat"    -> [m EXCEPT !.out = Append(@, <<"f", args[1]>>)]
    [] id = "neg_idx_except" -> [m EXCEPT !.status = "exit"]

RECURSIVE Exec(_, _, _, _, _, _, _)

\* Execute function f from instruction i of block b on: the machine when the
\* function has returned, or when the execution has stopped.
Exec(f, b, i, env, args, input, m) ==
  IF m.fuel = 0 THEN [m EXCEPT !.status = "fuel"]
  ELSE IF i > Len(f.blocks[b]) THEN [m EXCEPT !.status = "stuck"]
  ELSE
  LET ins     == f.blocks[b][i]
      op      == ins.op
      V(v)    == CASE v[1] = "const"  -> v[2]
                   [] v[1] = "arg"    -> args[v[2]]
                   [] v[1] = "global" -> GlobalAddress(v[2])
                   [] OTHER           -> env[v[2]]
      a(k)    == V(ins.args[k])
      n       == [m EXCEPT !.fuel = @ - 1]
      Goto(t) == Exec(f, t, 1, env, args, input, n)
      Set(v)  == Exec(f, b, i + 1, (ins.id :> v) @@ env, args, input, n)
      On(m2)  == Exec(f, b, i + 1, env, args, input, m2)
  IN
  CASE op = "br"     -> Goto(ins.args[1])
    [] op = "condbr" -> Goto(IF a(1) # 0 THEN ins.args[2] ELSE ins.args[3])
    [] op = "ret"    -> IF ins.args = <<>> THEN n ELSE [n EXCEPT !.ret = a(1)]
    [] op = "store"  -> On(Write(n, a(2), a(1)))
    [] op = "load"   -> Set(Read(n, a(1)))
    [] op = "gep"    -> Set(<<a(1)[1], a(1)[2] + a(2)>>)
    [] op = "sitofp" -> Set(ToFloat(a(1)))
    [] op = "fptosi" -> Set(ToInt(a(1)))
    [] op = "zext"   -> Set(a(1))
    [] op = "arith"  -> Set(Arith(ins.args[1], ins.args[2], a(3), a(4)))
    [] op = "cmp"    -> Set(Compare(ins.args[2], a(3), a(4)))
    [] op = "alloca" -> Exec(f, b, i + 1, (ins.id :> <<n.base, 0>>) @@ env, args,
                             input, [n EXCEPT !.base = @ + 1])
    [] op = "call"   ->
         LET id == ins.args[1][2]
             as == [k \in 1..Len(ins.args[2]) |-> V(ins.args[2][k])]
             m2 == IF id \in DOMAIN done THEN Exec(done[id], 1, 1, << >>, as, input, n)
                   ELSE Library(id, as, input, n)
         IN  IF m2.status # "run" THEN m2
             ELSE Exec(f, b, i + 1,
                       IF ins.id = 0 THEN env ELSE (ins.id :> m2.ret) @@ env,
                       args, input, m2)

RunIR(input) == Exec(done["main"], 1, 1, << >>, <<>>, input, Start)

-----------------------------------------------------------------------------
(***************************************************************************)
(* The meaning of the program.  An environment maps a name to [addr, type],*)
(* an inner declaration over an outer one.                                 *)
(***************************************************************************)
GlobalEnv ==
  [id \in {prog[i][2] : i \in {j \in 1..Len(prog) : prog[j][1] = "vardecl"}} |->
     LET d == CHOOSE i \in 1..Len(prog) : prog[i][2] = id IN
     [addr |-> GlobalAddress(id),
      type |-> IF prog[d][4] = 0 THEN prog[d][3] ELSE Arr(prog[d][3])]]

\* A number of type t as a number of type u.
Cast(v, t, u) ==
  IF t = u \/ u[1] = "ptr" THEN v
  ELSE IF u = Int32 THEN ToInt(v) ELSE ToFloat(v)

RECURSIVE Eval(_, _, _, _), EvalArgs(_, _, _, _, _), Do(_, _, _, _, _)
RECURSIVE DoList(_, _, _, _, _), Call(_, _, _, _)

\* The address of a variable, its index evaluated and checked first.
AddressOf(x, env, input, m) ==
  LET var == env[x[2]] IN
  IF x[1] = "var" THEN [m |-> m, addr |-> var.addr, type |-> var.type]
  ELSE LET i   == Eval(x[3], env, input, m)
           idx == Cast(i.v, i.type, Int32)
           bs  == IF var.type[1] = "ptr" THEN Read(i.m, var.addr) ELSE var.addr
       IN  IF i.m.status # "run" \/ idx < 0
           THEN [m |-> IF i.m.status # "run" THEN i.m ELSE [i.m EXCEPT !.status = "exit"],
                 addr |-> <<0, 0>>, type |-> var.type[2]]
           ELSE [m |-> i.m, addr |-> <<bs[1], bs[2] + idx>>, type |-> var.type[2]]

\* The value of an expression, with its type and the machine after it.
Eval(e, env, input, m) ==
  IF m.status # "run" THEN [m |-> m, v |-> 0, type |-> Int32] ELSE
  CASE e[1] = "num" -> [m |-> m, v |-> e[3], type |-> e[2]]
    [] e[1] \in {"var", "elem"} ->
         LET a == AddressOf(e, env, input, m) IN
         IF a.m.status # "run" THEN [m |-> a.m, v |-> 0, type |-> a.type]
         ELSE IF a.type[1] = "arr" THEN [m |-> a.m, v |-> a.addr, type |-> Ptr(a.type[2])]
         ELSE [m |-> a.m, v |-> Read(a.m, a.addr), type |-> a.type]
    [] e[1] = "assign" ->
         LET a == AddressOf(e[2], env, input, m)
             r == Eval(e[3], env, input, a.m)
             v == Cast(r.v, r.type, a.type)
         IN  IF r.m.status # "run" THEN r
             ELSE [m |-> Write(r.m, a.addr, v), v |-> v, type |-> a.type]
    [] e[1] \in {"rel", "arith"} ->
         LET l == Eval(e[3], env, input, m)
             r == Eval(e[4], env, input, l.m)
             t == IF l.type = Int32 /\ r.type = Int32 THEN Int32 ELSE Float
             x == Cast(l.v, l.type, t)
             y == Cast(r.v, r.type, t)
         IN  IF r.m.status # "run" THEN r
             ELSE IF e[1] = "rel" THEN [m |-> r.m, v |-> Compare(e[2], x, y), type |-> Int32]
             ELSE [m |-> r.m, type |-> t,
                   v |-> Arith(IF t = Int32 THEN "i" ELSE "f", e[2], x, y)]
    [] e[1] = "call" -> Call(e, env, input, m)

\* The arguments, evaluated in order and converted to the types of the
\* parameters, after those in acc.
EvalArgs(es, types, env, input, acc) ==
  LET Pass(a) == [m |-> a.m, vs |-> Append(acc.vs, Cast(a.v, a.type, Head(types)))] IN
  IF es = <<>> THEN acc
  ELSE EvalArgs(Tail(es), Tail(types), env, input, Pass(Eval(Head(es), env, input, acc.m)))

\* What a function of type t returns, m being the machine after its body.
Returned(m, t) ==
  [m |-> CASE m.status = "return" -> [m EXCEPT !.status = "run"]
           [] m.status = "run"    -> [m EXCEPT !.ret = 0]
           [] OTHER               -> m,
   v |-> IF m.status = "return" THEN m.ret ELSE 0, type |-> t]

\* The body of d, with every parameter bound to a fresh variable.
Invoke(d, as, input) ==
  LET ps     == d[4]
      k      == as.m.base
      inner  == [id \in {ps[i].id : i \in 1..Len(ps)} |->
                   LET i == CHOOSE j \in 1..Len(ps) : ps[j].id = id IN
                   [addr |-> <<k + i, 0>>, type |-> ParamType(ps[i])]]
      stored == [a \in {<<k + i, 0>> : i \in 1..Len(ps)} |-> as.vs[a[1] - k]]
  IN  Do(d[5], inner @@ GlobalEnv, input,
         [as.m EXCEPT !.base = k + Len(ps) + 1, !.mem = stored @@ @], d[3])

Call(e, env, input, m) ==
  LET d     == prog[CHOOSE i \in 1..Len(prog) : prog[i][2] = e[2]]
      ext   == e[2] \in DOMAIN Builtins
      sig   == TypeOf(Builtins[e[2]])
      types == IF ext THEN sig[3] ELSE [i \in 1..Len(d[4]) |-> ParamType(d[4][i])]
      type  == IF ext THEN sig[2] ELSE d[3]
      Apply(as) ==
        IF as.m.status # "run" THEN Returned(as.m, type)
        ELSE IF ext
        THEN LET lib == Library(e[2], as.vs, input, as.m) IN
             [m |-> lib, v |-> lib.ret, type |-> type]
        ELSE Returned(Invoke(d, as, input), type)
  IN  Apply(EvalArgs(e[3], types, env, input, [m |-> m, vs |-> <<>>]))

\* The rest of a statement, its expression having been evaluated to r.
AfterExpression(s, env, input, r, ret) ==
  CASE r.m.status # "run" \/ s[1] = "expr" -> r.m
    [] s[1] = "return" ->
         [r.m EXCEPT !.status = "return", !.ret = Cast(r.v, r.type, ret)]
    [] s[1] \in {"if", "ifelse"} ->
         IF r.v # 0 THEN Do(s[3], env, input, r.m, ret)
         ELSE IF s[1] = "ifelse" THEN Do(s[4], env, input, r.m, ret)
         ELSE r.m
    [] s[1] = "while" ->
         IF r.v = 0 THEN r.m ELSE DoList(<<s[3], s>>, env, input, r.m, ret)

\* The machine after a statement of a function with return type ret.
Do(s, env, input, m0, ret) ==
  IF m0.fuel = 0 THEN [m0 EXCEPT !.status = "fuel"] ELSE
  LET m == [m0 EXCEPT !.fuel = @ - 1] IN
  CASE s[1] = "empty"   -> m
    [] s[1] = "retvoid" -> [m EXCEPT !.status = "return", !.ret = 0]
    [] s[1] = "block"   ->
         LET ds    == s[2]
             k     == m.base
             inner == [id \in {ds[i][2] : i \in 1..Len(ds)} |->
                         LET i == CHOOSE j \in 1..Len(ds) : ds[j][2] = id IN
                         [addr |-> <<k + i, 0>>,
                          type |-> IF ds[i][4] = 0 THEN ds[i][3] ELSE Arr(ds[i][3])]]
         IN  DoList(s[3], inner @@ env, input,
                    [m EXCEPT !.base = k + Len(ds) + 1], ret)
    [] OTHER            -> AfterExpression(s, env, input, Eval(s[2], env, input, m), ret)

DoList(ss, env, input, m, ret) ==
  IF ss = <<>> \/ m.status # "run" THEN m
  ELSE DoList(Tail(ss), env, input, Do(Head(ss), env, input, m, ret), ret)

RunSource(input) == Call(<<"call", "main", <<>>>>, GlobalEnv, input, Start).m

-----------------------------------------------------------------------------
(***************************************************************************)
(* Properties.                                                             *)
(***************************************************************************)
\* The operands of an instruction that are results of other instructions.
UsesOf(ins) ==
  LET as == IF ins.op = "call" THEN ins.args[2] ELSE ins.args IN
  {as[k][2] : k \in {j \in 1..Len(as) :
                       /\ ins.op \notin {"br", "alloca"}
                       /\ ins.op = "condbr" => j = 1
                       /\ ins.op \in {"cmp", "arith"} => j > 2
                       /\ as[j][1] = "ins"}}

\* Every value is defined before it is used on every path: values built in one
\* block are used after an index check or a nested statement moved the insert
\* point to another.
DefsDominateUses ==
  Built => \A name \in DOMAIN done :
    LET f   == done[name]
        all == 1..Len(f.blocks)
        g   == [b \in all |-> {f.succ[b][i] : i \in 1..Len(f.succ[b])}]
    IN  \A b \in ReachableIn(g) : \A i \in 1..Len(f.blocks[b]) :
          \A u \in UsesOf(f.blocks[b][i]) :
            \E c \in all : \E j \in 1..Len(f.blocks[c]) :
              /\ f.blocks[c][j].id = u
              /\ IF c = b THEN j < i ELSE SDomIn(g, c, b)

\* Execution r of the IR ends as s, that of the program, does.
Agrees(r, s) ==
  s.status # "fuel" =>
    /\ r.out = s.out
    /\ r.status = s.status
    /\ s.status = "run" => r.ret = s.ret

\* The IR does what the program says: on every input it writes the same
\* output and ends the same way (returning the same value, or at a negative
\* index).  Programs that do not end within the fuel are left out.
SameMeaning ==
  Built => \A input \in Inputs : Agrees(RunIR(input), RunSource(input))
=============================================================================
