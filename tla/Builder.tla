------------------------------- MODULE Builder -------------------------------
(***************************************************************************)
(* IR generation: CminusfBuilder, a visitor that walks the AST and appends *)
(* instructions to the block of its IRBuilder, with the Scope it looks     *)
(* names up in.                                                            *)
(*                                                                         *)
(* The recursion of the visitor is an agenda, todo: the head is visited    *)
(* next, and a visit that goes on after an accept() leaves an item with    *)
(* the locals that the rest of the method needs.  A node that only hands   *)
(* on to its one child (an additive expression without operator, say) is   *)
(* that child.                                                             *)
(*                                                                         *)
(* Expressions:  <<"num", type, n>>          <<"var", id>>                 *)
(*               <<"elem", id, e>>           <<"assign", var, e>>          *)
(*               <<"rel", op, l, r>>         <<"arith", op, l, r>>         *)
(*               <<"call", id, args>>                                      *)
(* Statements:   <<"expr", e>>   <<"empty">>   <<"block", decls, stmts>>   *)
(*               <<"if", e, s>>  <<"ifelse", e, s, s>>  <<"while", e, s>>  *)
(*               <<"return", e>> <<"retvoid">>                             *)
(* Declarations: <<"vardecl", id, type, size>>, size 0 for a scalar, and   *)
(*               <<"fundecl", id, type, params, body>> with parameters     *)
(*               [id, type, isarray].                                      *)
(***************************************************************************)
EXTENDS Integers, Sequences, TLC, FiniteSetsExt

CONSTANTS
  Programs,     \* the programs, as they are written
  AST(_),       \* the AST of a program: a sequence of declarations
  Declarations, \* the declarations of the ASTs,
  Statements,   \* their statements
  Expressions   \* and their expressions

\* The structs of the AST, for sets of declarations, statements and expressions:
\* ASTDeclaration and those derived from it,
IsDeclaration(d, Stmts) ==
  /\ d[1] \in {"vardecl", "fundecl"}
  /\ d[1] = "fundecl" => Len(d[4]) \in Nat /\ d[5] \in Stmts

\* ASTStatement and those derived from it,
IsStatement(s, VarDecls, Stmts, Exprs) ==
  /\ s[1] \in {"expr", "empty", "block", "if", "ifelse", "while", "return", "retvoid"}
  /\ s[1] = "block" => s[2] \in Seq(VarDecls) /\ s[3] \in Seq(Stmts)
  /\ s[1] \in {"expr", "return", "if", "ifelse", "while"} => s[2] \in Exprs
  /\ s[1] \in {"if", "ifelse", "while"} => s[3] \in Stmts
  /\ s[1] = "if" => Len(s) = 3
  /\ s[1] = "ifelse" => s[4] \in Stmts /\ Len(s) = 4

\* ASTFactor, ASTExpression and those derived from them.
IsExpression(e, Exprs) ==
  /\ e[1] \in {"num", "var", "elem", "assign", "rel", "arith", "call"}
  /\ e[1] \in {"elem", "assign", "rel", "arith"} => e[3] \in Exprs
  /\ e[1] = "assign" => e[2] \in Exprs
  /\ e[1] \in {"rel", "arith"} => e[4] \in Exprs
  /\ e[1] = "call" => e[3] \in Seq(Exprs)

ASSUME SyntaxAssumption ==
  LET Decls    == Declarations
      VarDecls == {d \in Declarations : d[1] = "vardecl"}
      Stmts    == Statements
      Exprs    == Expressions
  IN  /\ \A p \in Programs : AST(p) \in Seq(Decls)
      /\ \A d \in Decls : IsDeclaration(d, Stmts)
      /\ \A s \in Stmts : IsStatement(s, VarDecls, Stmts, Exprs)
      /\ \A e \in Exprs : IsExpression(e, Exprs)

VARIABLES
  prog,             \* the program
  todo,             \* the agenda of the visitor
  scope,            \* Scope::inner, the innermost scope last
  fun,              \* cur_fun: name, type, params, blocks, pre, succ
  done,             \* the functions built so far, by name
  insert,           \* the block the builder appends to
  tmp_val,
  require_lvalue,
  pre_enter_scope,
  fresh             \* the number of the next instruction of cur_fun

vars == <<prog, todo, scope, fun, done, insert, tmp_val, require_lvalue,
          pre_enter_scope, fresh>>

-----------------------------------------------------------------------------
(***************************************************************************)
(* Types and values.  A value is <<kind, name, type>>; a function's type   *)
(* is <<"fun", return type, parameter types>>.                             *)
(***************************************************************************)
Void    == <<"void">>
Int32   == <<"int">>
Int1    == <<"i1">>
Float   == <<"float">>
Ptr(t)  == <<"ptr", t>>
Arr(t)  == <<"arr", t>>

TypeOf(v)     == v[3]
Elem(v)       == TypeOf(v)[2]
IsInt(v)      == TypeOf(v) = Int32
Const(n, t)   == <<"const", n, t>>
Res(id, t)    == <<"ins", id, t>>
Null          == <<"null", 0, Void>>

\* IRBuilder: an instruction with the number of its result (0 for none).
Instr(op, id, args) == [op |-> op, id |-> id, args |-> args]

\* BasicBlock::get_terminator: the last instruction, if it is a br or a ret.
Terminated(f, b) ==
  LET is == f.blocks[b] IN
  is # <<>> /\ is[Len(is)].op \in {"br", "condbr", "ret"}

\* BasicBlock::create, n times.
NewBlocks(f, n) ==
  LET none == [i \in 1..n |-> <<>>] IN
  [f EXCEPT !.blocks = @ \o none, !.pre = @ \o none, !.succ = @ \o none]

Put(f, b, is) == [f EXCEPT !.blocks[b] = @ \o is]

Br(f, b, t) ==
  [Put(f, b, <<Instr("br", 0, <<t>>)>>) EXCEPT
     !.pre[t] = Append(@, b), !.succ[b] = Append(@, t)]

CondBr(f, b, v, t, e) ==
  [Put(f, b, <<Instr("condbr", 0, <<v, t, e>>)>>) EXCEPT
     !.pre[t] = Append(@, b), !.pre[e] = Append(@, b),
     !.succ[b] = @ \o <<e, t>>]

\* The branch to t that a statement leaves, unless it returned.
BrUnlessTerminated(f, b, t) == IF Terminated(f, b) THEN f ELSE Br(f, b, t)

\* The ret of a path on which the program states no value.
DefaultRet(f) ==
  Instr("ret", 0, CASE f.type = Void  -> <<>>
                    [] f.type = Float -> <<Const(0, Float)>>
                    [] OTHER          -> <<Const(0, Int32)>>)

-----------------------------------------------------------------------------
(***************************************************************************)
(* Scope.                                                                  *)
(***************************************************************************)
Enter(s) == Append(s, << >>)
Exit(s)  == SubSeq(s, 1, Len(s) - 1)
InGlobal == Len(scope) = 1

\* std::map::insert keeps an older binding of the name.
Push(s, id, v) == [s EXCEPT ![Len(s)] = @ @@ (id :> v)]

\* Mutant: the outermost binding is found first.
FindOutermost(id) ==
  LET levels == {i \in 1..Len(scope) : id \in DOMAIN scope[i]} IN
  IF levels = {} THEN Null ELSE scope[Min(levels)][id]

Find(id) ==
  LET levels == {i \in 1..Len(scope) : id \in DOMAIN scope[i]} IN
  IF levels = {} THEN Null ELSE scope[Max(levels)][id]

\* The functions of the runtime that the constructor declares.
Builtins ==
     "input"          :> <<"func", "input", <<"fun", Int32, <<>>>>>>
  @@ "output"         :> <<"func", "output", <<"fun", Void, <<Int32>>>>>>
  @@ "outputFloat"    :> <<"func", "outputFloat", <<"fun", Void, <<Float>>>>>>
  @@ "neg_idx_except" :> <<"func", "neg_idx_except", <<"fun", Void, <<>>>>>>

Init ==
  /\ prog \in Programs
  /\ todo = AST(prog)
  /\ scope = <<Builtins>>
  /\ fun = << >>
  /\ done = << >>
  /\ insert = 0
  /\ tmp_val = Null
  /\ require_lvalue = FALSE
  /\ pre_enter_scope = FALSE
  /\ fresh = 1

-----------------------------------------------------------------------------
\* The next visit is of the given kind; its item is Item.
Visit(kind) == todo # <<>> /\ Head(todo)[1] = kind
Item        == Head(todo)

\* What is left to do, with the given items in front of it.
Then(items) == todo' = items \o Tail(todo)

\* Append instructions to the insert block.
Emit(is) == fun' = Put(fun, insert, is)

flags == <<require_lvalue, pre_enter_scope>>

\* The visit changes nothing but the agenda.
JustThen(items) ==
  /\ Then(items)
  /\ UNCHANGED <<prog, scope, fun, done, insert, tmp_val, flags, fresh>>

VisitNum ==
  /\ Visit("num")
  /\ tmp_val' = Const(Item[3], Item[2])
  /\ Then(<<>>)
  /\ UNCHANGED <<prog, scope, fun, done, insert, flags, fresh>>

VisitVarDeclaration ==
  LET id == Item[2]
      t  == IF Item[4] = 0 THEN Item[3] ELSE Arr(Item[3]) IN
  /\ Visit("vardecl")
  /\ IF InGlobal
     THEN /\ scope' = Push(scope, id, <<"global", id, Ptr(t)>>)
          /\ UNCHANGED <<fun, fresh>>
     ELSE /\ Emit(<<Instr("alloca", fresh, <<t, Item[4]>>)>>)
          /\ scope' = Push(scope, id, Res(fresh, Ptr(t)))
          /\ fresh' = fresh + 1
  /\ Then(<<>>)
  /\ UNCHANGED <<prog, done, insert, tmp_val, flags>>

ParamType(p) == IF p.isarray THEN Ptr(p.type) ELSE p.type

\* The function is known inside its own body; every parameter is stored to
\* a variable of its own, in the scope that the body continues (where the first
\* of two parameters with one name is the one found).
VisitFunDeclaration ==
  LET params == Item[4]
      types  == [i \in 1..Len(params) |-> ParamType(params[i])]
      self   == <<"func", Item[2], <<"fun", Item[3], types>>>>
      bound  == [id \in {params[i].id : i \in 1..Len(params)} |->
                   LET i == Min({j \in 1..Len(params) : params[j].id = id}) IN
                   Res(i, Ptr(types[i]))]
      stores == [k \in 1..(2 * Len(params)) |->
                   LET i == (k + 1) \div 2 IN
                   IF k % 2 = 1 THEN Instr("alloca", i, <<types[i], 0>>)
                   ELSE Instr("store", 0, <<<<"arg", i, types[i]>>,
                                            Res(i, Ptr(types[i]))>>)]
  IN
  /\ Visit("fundecl")
  /\ fun' = [name |-> Item[2], type |-> Item[3], params |-> types,
             blocks |-> <<stores>>, pre |-> <<<<>>>>, succ |-> <<<<>>>>]
  /\ insert' = 1
  /\ scope' = Append(Push(scope, Item[2], self), bound)
  /\ pre_enter_scope' = TRUE
  /\ fresh' = Len(params) + 1
  /\ Then(<<Item[5], <<"funend">>>>)
  /\ UNCHANGED <<prog, done, tmp_val, require_lvalue>>

\* After the body.
FunDeclarationEnd ==
  /\ Visit("funend")
  /\ fun' = IF Terminated(fun, insert) THEN fun
            ELSE Put(fun, insert, <<DefaultRet(fun)>>)
  /\ done' = (fun.name :> fun') @@ done
  /\ scope' = Exit(scope)
  /\ Then(<<>>)
  /\ UNCHANGED <<prog, insert, tmp_val, flags, fresh>>

VisitCompoundStmt ==
  /\ Visit("block")
  /\ pre_enter_scope' = FALSE
  /\ scope' = IF pre_enter_scope THEN scope ELSE Enter(scope)
  /\ Then(Item[2] \o <<<<"list", Item[3]>>>>
            \o (IF pre_enter_scope THEN <<>> ELSE <<<<"exit">>>>))
  /\ UNCHANGED <<prog, fun, done, insert, tmp_val, require_lvalue, fresh>>

\* The loop over the statements visits the next one.
NextStatement ==
  /\ Visit("list")
  /\ JustThen(IF Item[2] = <<>> THEN <<>>
              ELSE <<Head(Item[2]), <<"listnext", Tail(Item[2])>>>>)

\* Mutant: the statements after a return are built too.
LeavesListNever == FALSE

\* The test after a statement that ends the loop.
LeavesList == Terminated(fun, insert)

AfterStatement ==
  /\ Visit("listnext")
  /\ JustThen(IF LeavesList THEN <<>> ELSE <<<<"list", Item[2]>>>>)

ExitScope ==
  /\ Visit("exit")
  /\ scope' = Exit(scope)
  /\ Then(<<>>)
  /\ UNCHANGED <<prog, fun, done, insert, tmp_val, flags, fresh>>

VisitExpressionStmt ==
  /\ Visit("expr") \/ Visit("empty")
  /\ JustThen(IF Item[1] = "empty" THEN <<>> ELSE <<Item[2]>>)

-----------------------------------------------------------------------------
\* The comparison of a condition with zero.
NotZero(v, id) ==
  Instr("cmp", id, <<IF IsInt(v) THEN "i" ELSE "f", "!=", v, Const(0, TypeOf(v))>>)

VisitSelectionStmt ==
  /\ Visit("if") \/ Visit("ifelse")
  /\ JustThen(<<Item[2], <<"ifbranch", SubSeq(Item, 3, Len(Item))>>>>)

\* The condition is in tmp_val: trueBB, contBB and, for an else, falseBB are
\* created in this order.
SelectionBranch ==
  LET stmts   == Item[2]
      trueBB  == Len(fun.blocks) + 1
      contBB  == Len(fun.blocks) + 2
      falseBB == Len(fun.blocks) + 3
      cond    == Res(fresh, Int1)
      f       == Put(NewBlocks(fun, Len(stmts) + 1), insert, <<NotZero(tmp_val, fresh)>>)
  IN
  /\ Visit("ifbranch")
  /\ fun' = CondBr(f, insert, cond, trueBB,
                   IF Len(stmts) = 1 THEN contBB ELSE falseBB)
  /\ insert' = trueBB
  /\ fresh' = fresh + 1
  /\ Then(<<stmts[1], <<"iftrue", Tail(stmts), contBB>>>>)
  /\ UNCHANGED <<prog, scope, done, tmp_val, flags>>

\* After the true branch: on to the else, whose block follows contBB.
SelectionElse ==
  LET contBB == Item[3] IN
  /\ Visit("iftrue")
  /\ fun' = BrUnlessTerminated(fun, insert, contBB)
  /\ IF Item[2] = <<>>
     THEN insert' = contBB /\ Then(<<>>)
     ELSE insert' = contBB + 1 /\ Then(<<Item[2][1], <<"iffalse", contBB>>>>)
  /\ UNCHANGED <<prog, scope, done, tmp_val, flags, fresh>>

SelectionEnd ==
  /\ Visit("iffalse")
  /\ fun' = BrUnlessTerminated(fun, insert, Item[2])
  /\ insert' = Item[2]
  /\ Then(<<>>)
  /\ UNCHANGED <<prog, scope, done, tmp_val, flags, fresh>>

VisitIterationStmt ==
  LET exprBB == Len(fun.blocks) + 1 IN
  /\ Visit("while")
  /\ fun' = BrUnlessTerminated(NewBlocks(fun, 1), insert, exprBB)
  /\ insert' = exprBB
  /\ Then(<<Item[2], <<"whilebranch", Item[3], exprBB>>>>)
  /\ UNCHANGED <<prog, scope, done, tmp_val, flags, fresh>>

IterationBranch ==
  LET trueBB == Len(fun.blocks) + 1
      contBB == Len(fun.blocks) + 2
      f      == Put(NewBlocks(fun, 2), insert, <<NotZero(tmp_val, fresh)>>)
  IN
  /\ Visit("whilebranch")
  /\ fun' = CondBr(f, insert, Res(fresh, Int1), trueBB, contBB)
  /\ insert' = trueBB
  /\ fresh' = fresh + 1
  /\ Then(<<Item[2], <<"whileend", Item[3], contBB>>>>)
  /\ UNCHANGED <<prog, scope, done, tmp_val, flags>>

IterationEnd ==
  /\ Visit("whileend")
  /\ fun' = BrUnlessTerminated(fun, insert, Item[2])
  /\ insert' = Item[3]
  /\ Then(<<>>)
  /\ UNCHANGED <<prog, scope, done, tmp_val, flags, fresh>>

VisitReturnStmt ==
  /\ Visit("return") \/ Visit("retvoid")
  /\ IF Item[1] = "retvoid"
     THEN Emit(<<Instr("ret", 0, <<>>)>>) /\ Then(<<>>)
     ELSE UNCHANGED fun /\ Then(<<Item[2], <<"ret">>>>)
  /\ UNCHANGED <<prog, scope, done, insert, tmp_val, flags, fresh>>

\* The conversion of v to type t, if there is one to make: its instructions
\* and its result.
Convert(v, t, id) ==
  CASE t = TypeOf(v) -> [is |-> <<>>, val |-> v]
    [] t = Int32     -> [is |-> <<Instr("fptosi", id, <<v>>)>>, val |-> Res(id, Int32)]
    [] OTHER         -> [is |-> <<Instr("sitofp", id, <<v>>)>>, val |-> Res(id, Float)]

ReturnValue ==
  LET c == Convert(tmp_val, fun.type, fresh) IN
  /\ Visit("ret")
  /\ Emit(c.is \o <<Instr("ret", 0, <<c.val>>)>>)
  /\ tmp_val' = c.val
  /\ fresh' = fresh + Len(c.is)
  /\ Then(<<>>)
  /\ UNCHANGED <<prog, scope, done, insert, flags>>

-----------------------------------------------------------------------------
\* A variable: its address, its value or, for an array, the address of its
\* first element; an index is visited first.
VisitVar ==
  LET var == Find(Item[2])
      ptr == IF Elem(var)[1] = "arr" THEN Ptr(Elem(var)[2]) ELSE Elem(var)
  IN
  /\ Visit("var") \/ Visit("elem")
  /\ var # Null
  /\ require_lvalue' = FALSE
  /\ IF Item[1] = "elem"
     THEN /\ Then(<<Item[3], <<"index", var, require_lvalue>>>>)
          /\ UNCHANGED <<fun, tmp_val, fresh>>
     ELSE /\ Then(<<>>)
          /\ IF require_lvalue
             THEN tmp_val' = var /\ UNCHANGED <<fun, fresh>>
             ELSE /\ Emit(<<IF Elem(var)[1] = "arr"
                            THEN Instr("gep", fresh, <<var, Const(0, Int32)>>)
                            ELSE Instr("load", fresh, <<var>>)>>)
                  /\ tmp_val' = Res(fresh, ptr)
                  /\ fresh' = fresh + 1
  /\ UNCHANGED <<prog, scope, done, insert, pre_enter_scope>>

\* Mutant: the builder stays at the block of the error.
AfterCheckStays(exceptBB, contBB) == exceptBB

\* Where the builder goes on after the check of an index.
AfterCheck(exceptBB, contBB) == contBB

\* The index is in tmp_val: exceptBB reports a negative one and returns, and
\* contBB computes the address and, unless an lvalue is asked for, loads.
IndexedVar ==
  LET var      == Item[2]
      lvalue   == Item[3]
      exceptBB == Len(fun.blocks) + 1
      contBB   == Len(fun.blocks) + 2
      idx      == IF TypeOf(tmp_val) = Float THEN Convert(tmp_val, Int32, fresh)
                  ELSE [is |-> <<>>, val |-> tmp_val]
      neg      == fresh + Len(idx.is)
      isptr    == Elem(var)[1] = "ptr"
      base     == IF isptr THEN Res(neg + 1, Elem(var)) ELSE var
      loads    == IF isptr THEN <<Instr("load", neg + 1, <<var>>)>> ELSE <<>>
      addr     == neg + 1 + Len(loads)
      t        == IF Elem(var)[1] \in {"arr", "ptr"} THEN Elem(var)[2] ELSE Elem(var)
      f1       == Put(NewBlocks(fun, 2), insert,
                      idx.is \o <<Instr("cmp", neg, <<"i", "<", idx.val, Const(0, Int32)>>)>>)
      f2       == CondBr(f1, insert, Res(neg, Int1), exceptBB, contBB)
      f3       == Put(f2, exceptBB,
                      <<Instr("call", 0, <<Find("neg_idx_except"), <<>>>>), DefaultRet(fun)>>)
  IN
  /\ Visit("index")
  /\ fun' = Put(f3, contBB,
                loads \o <<Instr("gep", addr, <<base, idx.val>>)>>
                  \o IF lvalue THEN <<>>
                     ELSE <<Instr("load", addr + 1, <<Res(addr, Ptr(t))>>)>>)
  /\ insert' = AfterCheck(exceptBB, contBB)
  /\ tmp_val' = IF lvalue THEN Res(addr, Ptr(t)) ELSE Res(addr + 1, t)
  /\ require_lvalue' = IF lvalue THEN FALSE ELSE require_lvalue
  /\ fresh' = addr + (IF lvalue THEN 1 ELSE 2)
  /\ Then(<<>>)
  /\ UNCHANGED <<prog, scope, done, pre_enter_scope>>

\* The right-hand side is built before the variable.
VisitAssignExpression ==
  /\ Visit("assign")
  /\ JustThen(<<Item[3], <<"assignto", Item[2]>>>>)

AssignTo ==
  /\ Visit("assignto")
  /\ require_lvalue' = TRUE
  /\ Then(<<Item[2], <<"store", tmp_val>>>>)
  /\ UNCHANGED <<prog, scope, fun, done, insert, tmp_val, pre_enter_scope, fresh>>

AssignStore ==
  LET c == Convert(Item[2], Elem(tmp_val), fresh) IN
  /\ Visit("store")
  /\ Emit(c.is \o <<Instr("store", 0, <<c.val, tmp_val>>)>>)
  /\ tmp_val' = c.val
  /\ fresh' = fresh + Len(c.is)
  /\ Then(<<>>)
  /\ UNCHANGED <<prog, scope, done, insert, flags>>

\* Simple, additive and multiplicative expressions: first the left operand.
VisitBinary ==
  /\ Visit("rel") \/ Visit("arith")
  /\ JustThen(<<Item[3], <<"right", Item[1], Item[2], Item[4]>>>>)

RightOperand ==
  /\ Visit("right")
  /\ JustThen(<<Item[4], <<"combine", Item[2], Item[3], tmp_val>>>>)

\* promote, then the operation in the class of the operands; the result of a
\* comparison is extended to an integer.
Combine ==
  LET l     == Item[4]
      r     == tmp_val
      mixed == TypeOf(l) # TypeOf(r)
      cl    == Convert(l, IF mixed /\ IsInt(l) THEN Float ELSE TypeOf(l), fresh)
      cr    == Convert(r, IF mixed /\ ~IsInt(l) THEN Float ELSE TypeOf(r), fresh)
      id    == fresh + Len(cl.is) + Len(cr.is)
      cls   == IF ~mixed /\ IsInt(l) THEN "i" ELSE "f"
      t     == IF cls = "i" THEN Int32 ELSE Float
      op    == Instr(IF Item[2] = "rel" THEN "cmp" ELSE "arith", id,
                     <<cls, Item[3], cl.val, cr.val>>)
      zext  == IF Item[2] = "rel" THEN <<Instr("zext", id + 1, <<Res(id, Int1)>>)>>
               ELSE <<>>
  IN
  /\ Visit("combine")
  /\ Emit(cl.is \o cr.is \o <<op>> \o zext)
  /\ tmp_val' = IF Item[2] = "rel" THEN Res(id + 1, Int32) ELSE Res(id, t)
  /\ fresh' = id + 1 + Len(zext)
  /\ Then(<<>>)
  /\ UNCHANGED <<prog, scope, done, insert, flags>>

VisitCall ==
  /\ Visit("call")
  /\ JustThen(<<<<"args", Find(Item[2]), Item[3], <<>>>>>>)

\* The loop over the arguments: the next one, or the call.
NextArgument ==
  LET callee == Item[2]
      ret    == TypeOf(callee)[2] IN
  /\ Visit("args")
  /\ IF Item[3] # <<>>
     THEN /\ Then(<<Head(Item[3]), <<"arg", callee, Tail(Item[3]), Item[4]>>>>)
          /\ UNCHANGED <<fun, tmp_val, fresh>>
     ELSE /\ Then(<<>>)
          /\ Emit(<<Instr("call", IF ret = Void THEN 0 ELSE fresh, <<callee, Item[4]>>)>>)
          /\ tmp_val' = Res(fresh, ret)
          /\ fresh' = fresh + 1
  /\ UNCHANGED <<prog, scope, done, insert, flags>>

\* An argument is converted to its parameter's type, a pointer never.
PassArgument ==
  LET callee == Item[2]
      want   == TypeOf(callee)[3][Len(Item[4]) + 1]
      c      == IF TypeOf(tmp_val)[1] = "ptr" THEN [is |-> <<>>, val |-> tmp_val]
                ELSE Convert(tmp_val, want, fresh)
  IN
  /\ Visit("arg")
  /\ Emit(c.is)
  /\ tmp_val' = c.val
  /\ fresh' = fresh + Len(c.is)
  /\ Then(<<<<"args", callee, Item[3], Append(Item[4], c.val)>>>>)
  /\ UNCHANGED <<prog, scope, done, insert, flags>>

Next ==
  \/ VisitNum \/ VisitVarDeclaration
  \/ VisitFunDeclaration \/ FunDeclarationEnd
  \/ VisitCompoundStmt \/ NextStatement \/ AfterStatement \/ ExitScope
  \/ VisitExpressionStmt
  \/ VisitSelectionStmt \/ SelectionBranch \/ SelectionElse \/ SelectionEnd
  \/ VisitIterationStmt \/ IterationBranch \/ IterationEnd
  \/ VisitReturnStmt \/ ReturnValue
  \/ VisitVar \/ IndexedVar
  \/ VisitAssignExpression \/ AssignTo \/ AssignStore
  \/ VisitBinary \/ RightOperand \/ Combine
  \/ VisitCall \/ NextArgument \/ PassArgument

Spec == Init /\ [][Next]_vars /\ WF_vars(Next)

-----------------------------------------------------------------------------
Built == todo = <<>>

\* The targets of the terminator of a block.
Targets(f, b) ==
  LET is == f.blocks[b]
      t  == is[Len(is)]
  IN  IF is = <<>> THEN <<>>
      ELSE CASE t.op = "br"     -> <<t.args[1]>>
             [] t.op = "condbr" -> <<t.args[3], t.args[2]>>
             [] OTHER           -> <<>>

\* At every moment a terminator is the last instruction of its block and the
\* successor and predecessor lists are those of the terminators; once a
\* function is built, every block of it has a terminator, also the block after
\* an if whose branches both return.
BlocksWellFormed ==
  fun # << >> =>
    LET n == Len(fun.blocks) IN
    \A b \in 1..n :
      /\ \A i \in 1..(Len(fun.blocks[b]) - 1) :
           fun.blocks[b][i].op \notin {"br", "condbr", "ret"}
      /\ fun.succ[b] = Targets(fun, b)
      /\ \A p \in 1..n :
           Cardinality({i \in 1..Len(fun.pre[b]) : fun.pre[b][i] = p}) =
           Cardinality({i \in 1..Len(fun.succ[p]) : fun.succ[p][i] = b})
      /\ Built => Terminated(fun, b)
=============================================================================
