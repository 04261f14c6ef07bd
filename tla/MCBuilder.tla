------------------------------ MODULE MCBuilder ------------------------------
(***************************************************************************)
(* Programs for Builder.  Every program is                                 *)
(*                                                                         *)
(*   int g[2];                                                             *)
(*   int half(float p) { return p; }                                       *)
(*   void set(int q[], float v) { if (v < 0) return; q[v] = v; }           *)
(*   int main(void) { int x; float y; x = input(); y = x / 2.0; BODY       *)
(*                    output(x); outputFloat(y); output(g[0]); output(g[1]); } *)
(*                                                                         *)
(* with one or two statements as its BODY.                                 *)
(***************************************************************************)
EXTENDS BuilderRun, SyntaxTree

N(n)          == <<"num", Int32, n>>
H(n)          == <<"num", Float, n>>          \* n halves
X             == <<"var", "x">>
Y             == <<"var", "y">>
Cell(e)       == <<"elem", "g", e>>
Set(v, e)     == <<"assign", v, e>>
Is(op, l, r)  == <<"rel", op, l, r>>
Op(op, l, r)  == <<"arith", op, l, r>>
Do1(e)        == <<"expr", e>>
Call1(f, e)   == <<"call", f, <<e>>>>
Block(ds, ss) == <<"block", ds, ss>>

Half == <<"fundecl", "half", Int32, <<[id |-> "p", type |-> Float, isarray |-> FALSE]>>,
          Block(<<>>, <<<<"return", <<"var", "p">>>>>>)>>

SetFun == <<"fundecl", "set", Void,
            <<[id |-> "q", type |-> Int32, isarray |-> TRUE],
              [id |-> "v", type |-> Float, isarray |-> FALSE]>>,
            Block(<<>>, <<<<"if", Is("<", <<"var", "v">>, N(0)), <<"retvoid">>>>,
                          Do1(Set(<<"elem", "q", <<"var", "v">>>>, <<"var", "v">>))>>)>>

Main(body) ==
  <<"fundecl", "main", Int32, <<>>,
    Block(<<<<"vardecl", "x", Int32, 0>>, <<"vardecl", "y", Float, 0>>>>,
          <<Do1(Set(X, <<"call", "input", <<>>>>)), Do1(Set(Y, Op("/", X, H(4))))>>
            \o body \o
          <<Do1(Call1("output", X)), Do1(Call1("outputFloat", Y)),
            Do1(Call1("output", Cell(N(0)))), Do1(Call1("output", Cell(N(1))))>>)>>

Program(body) == <<<<"vardecl", "g", Int32, 2>>, Half, SetFun, Main(body)>>

\* Conditions and simple statements: conversions on assignment, in mixed
\* operands, on return, for arguments and for indices; negative indices.
Conds == {X, Y, Is("<", X, Y), Set(X, N(0)), Is("==", Cell(X), N(0))}

Shadow == Block(<<<<"vardecl", "x", Float, 0>>>>,
                <<Do1(Set(<<"var", "x">>, H(3))), Do1(Set(Y, Op("+", X, N(1))))>>)

Simple == {<<"empty">>, <<"return", Op("+", Y, X)>>, <<"return", X>>,
           Do1(Set(X, Op("/", X, N(2)))), Do1(Set(Y, Set(X, Op("*", Y, H(3))))),
           Do1(Set(Cell(X), Op("-", Y, N(1)))), Do1(Set(X, Cell(Cell(N(0))))),
           Do1(Set(Cell(Y), Call1("half", X))),
           Do1(<<"call", "set", <<<<"var", "g">>, X>>>>), Shadow,
           Do1(Set(X, Op("-", Op("-", X, Y), Op("-", N(1), Y)))),
           Do1(Set(Y, Op("*", Op("+", X, H(1)), Is("<", X, Set(X, N(1))))))}

\* Bodies of a loop that end it, or return.
Countdown == {Block(<<>>, <<s, Do1(Set(X, Op("-", X, N(1))))>>) : s \in
                {<<"empty">>, <<"return", Y>>, Do1(Set(Y, Op("+", Y, X))), Shadow}}

Branches ==
       {<<"if", c, s>> : c \in Conds, s \in Simple}
  \cup {<<"ifelse", Is(">", X, N(0)), s, t>> : s \in Simple, t \in Simple}
  \cup {<<"while", Is(op, X, N(0)), s>> : op \in {">", ">=", "!="}, s \in Countdown}

\* A branch within a branch, and a statement after it in the same list.
Nested ==
       {<<"ifelse", X, s, <<"return", N(3)>>>> : s \in Branches}
  \cup {<<"while", Is(">", X, N(0)),
           Block(<<>>, <<s, Do1(Set(X, Op("-", X, N(1))))>>)>> : s \in Branches}
  \cup {Block(<<>>, <<s, Do1(Set(X, N(5)))>>) : s \in Branches}

AllPrograms ==
  {Program(b) : b \in {<<s>> : s \in Simple \cup Branches \cup Nested}
                      \cup {<<s, t>> : s \in Simple, t \in Simple}}

ASTOf(text) == transform_node_iter(parse(text))

\* The parts of these ASTs, over which the grammar of Builder is stated.
Elements(q) == {q[i] : i \in DOMAIN q}

RECURSIVE SubStatements(_), SubExpressions(_)

SubStatements(s) ==
  {s} \cup UNION {SubStatements(t) : t \in
                    CASE s[1] = "block" -> Elements(s[3])
                      [] s[1] \in {"if", "ifelse", "while"} -> Elements(SubSeq(s, 3, Len(s)))
                      [] OTHER -> {}}

SubExpressions(e) ==
  {e} \cup UNION {SubExpressions(x) : x \in
                    CASE e[1] = "elem" -> {e[3]}
                      [] e[1] = "assign" -> {e[2], e[3]}
                      [] e[1] \in {"rel", "arith"} -> {e[3], e[4]}
                      [] e[1] = "call" -> Elements(e[3])
                      [] OTHER -> {}}

Parts ==
  LET asts  == {ASTOf(p) : p \in AllPrograms}
      top   == UNION {Elements(a) : a \in asts}
      stmts == UNION {SubStatements(d[5]) : d \in {t \in top : t[1] = "fundecl"}}
  IN  [declarations |->
         top \cup UNION {Elements(s[2]) : s \in {t \in stmts : t[1] = "block"}},
       statements |-> stmts,
       expressions |->
         UNION {SubExpressions(s[2]) : s \in {t \in stmts :
                  t[1] \in {"expr", "return", "if", "ifelse", "while"}}}]

AllDeclarations == Parts.declarations
AllStatements   == Parts.statements
AllExpressions  == Parts.expressions

AllInputs == {<<0>>, <<1>>, <<2>>, <<-1>>}
=============================================================================
