------------------------------ MODULE SyntaxTree -----------------------------
(***************************************************************************)
(* From the text of a program to the AST that Builder walks.               *)
(*                                                                         *)
(* parse gives the syntax tree that the actions of the grammar build: a    *)
(* node is <<name, children>>, a token one without children.  The text is  *)
(* a program in the notation of Builder; where the grammar asks for        *)
(* parentheses or braces to write it, they are there.                      *)
(*                                                                         *)
(* transform_node_iter is AST::transform_node_iter.  A node of the AST     *)
(* that would only hand on to its one child is that child.                 *)
(***************************************************************************)
EXTENDS Integers, Sequences

Node(name, kids) == <<name, kids>>
Token(text)      == <<text, <<>>>>
Op1(kind, op)    == Node(kind, <<Token(op)>>)

\* The lists of the grammar are left recursive.
ListOf(name, items) ==
  LET L[i \in 0..Len(items)] ==
        IF i = 0 THEN Node(name, <<Token("epsilon")>>)
        ELSE Node(name, <<L[i - 1], items[i]>>)
  IN  L[Len(items)]

ListOf1(name, items, commas) ==
  LET L[i \in 1..Len(items)] ==
        IF i = 1 THEN Node(name, <<items[1]>>)
        ELSE Node(name, <<L[i - 1]>> \o commas \o <<items[i]>>)
  IN  L[Len(items)]

RECURSIVE ParseExpression(_), ParseAdditive(_), ParseTerm(_), ParseStatement(_)

ParseVar(e) ==
  Node("var", IF e[1] = "var" THEN <<Token(e[2])>>
              ELSE <<Token(e[2]), Token("["), ParseExpression(e[3]), Token("]")>>)

ParseCall(e) ==
  LET args == [i \in 1..Len(e[3]) |-> ParseExpression(e[3][i])] IN
  Node("call", <<Token(e[2]), Token("("),
                 Node("args", <<IF args = <<>> THEN Token("epsilon")
                                ELSE ListOf1("arg-list", args, <<Token(",")>>)>>),
                 Token(")")>>)

ParseFactor(e) ==
  Node("factor",
       CASE e[1] = "num" ->
              <<Node(IF e[2] = <<"int">> THEN "integer" ELSE "float", <<Token(e[3])>>)>>
         [] e[1] \in {"var", "elem"} -> <<ParseVar(e)>>
         [] e[1] = "call" -> <<ParseCall(e)>>
         [] OTHER -> <<Token("("), ParseExpression(e), Token(")")>>)

ParseTerm(e) ==
  Node("term", IF e[1] = "arith" /\ e[2] \in {"*", "/"}
               THEN <<ParseTerm(e[3]), Op1("mulop", e[2]), ParseFactor(e[4])>>
               ELSE <<ParseFactor(e)>>)

ParseAdditive(e) ==
  Node("additive-expression",
       IF e[1] = "arith" /\ e[2] \in {"+", "-"}
       THEN <<ParseAdditive(e[3]), Op1("addop", e[2]), ParseTerm(e[4])>>
       ELSE <<ParseTerm(e)>>)

ParseSimple(e) ==
  Node("simple-expression",
       IF e[1] = "rel"
       THEN <<ParseAdditive(e[3]), Op1("relop", e[2]), ParseAdditive(e[4])>>
       ELSE <<ParseAdditive(e)>>)

ParseExpression(e) ==
  Node("expression",
       IF e[1] = "assign"
       THEN <<ParseVar(e[2]), Token("="), ParseExpression(e[3])>>
       ELSE <<ParseSimple(e)>>)

ParseVarDeclaration(d) ==
  Node("var-declaration",
       <<Op1("type-specifier", d[3][1]), Token(d[2])>>
         \o (IF d[4] = 0 THEN <<>> ELSE <<Token("["), Token(d[4]), Token("]")>>)
         \o <<Token(";")>>)

ParseCompound(s) ==
  Node("compound-stmt",
       <<Token("{"),
         ListOf("local-declarations",
                [i \in 1..Len(s[2]) |-> ParseVarDeclaration(s[2][i])]),
         ListOf("statement-list", [i \in 1..Len(s[3]) |-> ParseStatement(s[3][i])]),
         Token("}")>>)

\* An else belongs to the nearest if: the statement before it has braces.
Braced(s) == IF s[1] \in {"if", "ifelse", "while"} THEN <<"block", <<>>, <<s>>>> ELSE s

ParseStatement(s) ==
  LET Head3(word) == <<Token(word), Token("("), ParseExpression(s[2]), Token(")")>> IN
  Node("statement",
    <<CASE s[1] = "block"   -> ParseCompound(s)
        [] s[1] = "empty"   -> Node("expression-stmt", <<Token(";")>>)
        [] s[1] = "expr"    -> Node("expression-stmt", <<ParseExpression(s[2]), Token(";")>>)
        [] s[1] = "if"      ->
             Node("selection-stmt", Head3("if") \o <<ParseStatement(s[3])>>)
        [] s[1] = "ifelse"  ->
             Node("selection-stmt", Head3("if") \o
                    <<ParseStatement(Braced(s[3])), Token("else"), ParseStatement(s[4])>>)
        [] s[1] = "while"   ->
             Node("iteration-stmt", Head3("while") \o <<ParseStatement(s[3])>>)
        [] s[1] = "return"  ->
             Node("return-stmt", <<Token("return"), ParseExpression(s[2]), Token(";")>>)
        [] s[1] = "retvoid" -> Node("return-stmt", <<Token("return"), Token(";")>>)>>)

ParseParam(p) ==
  Node("param", <<Op1("type-specifier", p.type[1]), Token(p.id)>>
                  \o IF p.isarray THEN <<Token("["), Token("]")>> ELSE <<>>)

ParseParams(ps) ==
  Node("params", <<IF ps = <<>> THEN Token("void")
                   ELSE ListOf1("param-list", [i \in 1..Len(ps) |-> ParseParam(ps[i])],
                                <<Token(",")>>)>>)

ParseDeclaration(d) ==
  Node("declaration",
    <<IF d[1] = "vardecl" THEN ParseVarDeclaration(d)
      ELSE Node("fun-declaration",
                <<Op1("type-specifier", d[3][1]), Token(d[2]), Token("("),
                  ParseParams(d[4]), Token(")"), ParseCompound(d[5])>>)>>)

parse(text) ==
  Node("program", <<ListOf1("declaration-list",
                            [i \in 1..Len(text) |-> ParseDeclaration(text[i])], <<>>)>>)

-----------------------------------------------------------------------------
Name(n) == n[1]
Kid(n, i) == n[2][i]
children_num(n) == Len(n[2])

\* The stack that the loops over a list make: the last child of every node with
\* k children, the one deepest in the tree on top; popping reads it forwards.
RECURSIVE Flatten(_, _)
Flatten(list, k) ==
  IF children_num(list) = k THEN Append(Flatten(Kid(list, 1), k), Kid(list, k)) ELSE <<>>

\* The node where such a loop stops.
RECURSIVE Bottom(_, _)
Bottom(list, k) == IF children_num(list) = k THEN Bottom(Kid(list, 1), k) ELSE list

RECURSIVE transform_node_iter(_)
All(ns) == [i \in 1..Len(ns) |-> transform_node_iter(ns[i])]

\* A list with at least one element, whose first is the child of the bottom.
Flatten1(list, k) == <<Kid(Bottom(list, k), 1)>> \o Flatten(list, k)

IntOrFloat(n) == IF Name(Kid(Kid(n, 1), 1)) = "int" THEN <<"int">> ELSE <<"float">>

ToProgram(n) == All(Flatten1(Kid(n, 1), 2))

ToVarDeclaration(n) ==
  <<"vardecl", Name(Kid(n, 2)), IntOrFloat(n),
    IF children_num(n) = 6 THEN Name(Kid(n, 4)) ELSE 0>>

\* The parameters of (void) are a token.
ToFunDeclaration(n) ==
  LET list == Kid(Kid(n, 4), 1) IN
  <<"fundecl", Name(Kid(n, 2)),
    IF Name(Kid(Kid(n, 1), 1)) = "void" THEN <<"void">> ELSE IntOrFloat(n),
    IF children_num(list) = 0 THEN <<>> ELSE All(Flatten1(list, 3)),
    transform_node_iter(Kid(n, 6))>>

ToParam(n) ==
  [id |-> Name(Kid(n, 2)), type |-> IntOrFloat(n), isarray |-> children_num(n) > 2]

ToCompoundStmt(n) ==
  <<"block", All(Flatten(Kid(n, 2), 2)), All(Flatten(Kid(n, 3), 2))>>

ToExpressionStmt(n) ==
  IF children_num(n) = 2 THEN <<"expr", transform_node_iter(Kid(n, 1))>> ELSE <<"empty">>

ToSelectionStmt(n) ==
  IF children_num(n) = 7
  THEN <<"ifelse">> \o All(<<Kid(n, 3), Kid(n, 5), Kid(n, 7)>>)
  ELSE <<"if">> \o All(<<Kid(n, 3), Kid(n, 5)>>)

ToIterationStmt(n) == <<"while">> \o All(<<Kid(n, 3), Kid(n, 5)>>)

ToReturnStmt(n) ==
  IF children_num(n) = 3 THEN <<"return", transform_node_iter(Kid(n, 2))>> ELSE <<"retvoid">>

ToExpression(n) ==
  IF children_num(n) = 1 THEN transform_node_iter(Kid(n, 1))
  ELSE <<"assign">> \o All(<<Kid(n, 1), Kid(n, 3)>>)

ToVar(n) ==
  IF children_num(n) = 4 THEN <<"elem", Name(Kid(n, 1)), transform_node_iter(Kid(n, 3))>>
  ELSE <<"var", Name(Kid(n, 1))>>

\* Two operands with the operator between them, or one operand alone.
ToBinary(n, kind) ==
  IF children_num(n) = 1 THEN transform_node_iter(Kid(n, 1))
  ELSE <<kind, Name(Kid(Kid(n, 2), 1))>> \o All(<<Kid(n, 1), Kid(n, 3)>>)

ToSimpleExpression(n)   == ToBinary(n, "rel")
ToAdditiveExpression(n) == ToBinary(n, "arith")
ToTerm(n)               == ToBinary(n, "arith")

ToFactor(n) ==
  LET f == Kid(n, IF children_num(n) = 3 THEN 2 ELSE 1) IN
  CASE Name(f) \in {"expression", "var", "call"} -> transform_node_iter(f)
    [] Name(f) = "integer" -> <<"num", <<"int">>, Name(Kid(f, 1))>>
    [] Name(f) = "float"   -> <<"num", <<"float">>, Name(Kid(f, 1))>>

ToCall(n) ==
  LET list == Kid(Kid(n, 3), 1) IN
  <<"call", Name(Kid(n, 1)),
    IF Name(list) = "arg-list" THEN All(Flatten1(list, 3)) ELSE <<>>>>

transform_node_iter(n) ==
  CASE Name(n) = "program"             -> ToProgram(n)
    [] Name(n) = "var-declaration"     -> ToVarDeclaration(n)
    [] Name(n) = "fun-declaration"     -> ToFunDeclaration(n)
    [] Name(n) = "param"               -> ToParam(n)
    [] Name(n) = "compound-stmt"       -> ToCompoundStmt(n)
    [] Name(n) = "expression-stmt"     -> ToExpressionStmt(n)
    [] Name(n) = "selection-stmt"      -> ToSelectionStmt(n)
    [] Name(n) = "iteration-stmt"      -> ToIterationStmt(n)
    [] Name(n) = "return-stmt"         -> ToReturnStmt(n)
    [] Name(n) = "expression"          -> ToExpression(n)
    [] Name(n) = "var"                 -> ToVar(n)
    [] Name(n) = "simple-expression"   -> ToSimpleExpression(n)
    [] Name(n) = "additive-expression" -> ToAdditiveExpression(n)
    [] Name(n) = "term"                -> ToTerm(n)
    [] Name(n) = "factor"              -> ToFactor(n)
    [] Name(n) = "call"                -> ToCall(n)
    [] Name(n) \in {"declaration", "statement"} -> transform_node_iter(Kid(n, 1))
=============================================================================
