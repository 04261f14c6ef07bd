------------------------------ MODULE MCMem2Reg ------------------------------
(***************************************************************************)
(* Functions for TLC: the graphs CminusfBuilder makes of an if, an if with *)
(* an else, a while, an if inside a while, and code after an if whose two  *)
(* branches return; with every choice of a few statements in each block.   *)
(* Variables 1 and 2 are int locals, 3 is a global, 4 an array parameter.  *)
(***************************************************************************)
EXTENDS Mem2RegRun

x == 1
y == 2
z == 3
p == 4

None == <<"const", 0, 0>>

Ld(v)     == [op |-> "load", lval |-> v, rval |-> None]
St(v, r)  == [op |-> "store", lval |-> v, rval |-> r]
Const(k)  == <<"const", k, 0>>
Res(b, i) == <<"load", b, i>>

\* v = w; as the statement at the start of block b.
Copy(b, v, w) == <<Ld(w), St(v, Res(b, 1))>>

\* The parameters are stored at the start of the entry block, and so are the
\* locals in a function that initialises them.
Param  == <<St(p, Const(9))>>
InitXY == Param \o <<St(x, Const(7)), St(y, Const(8))>>

\* A local is set to a constant of the block, read, copied to the other one,
\* to and from the global, and the two are exchanged.
Stmts(b) ==
  << <<>>,
     <<St(x, Const(b))>>,
     <<Ld(x), Ld(y), St(x, Res(b, 2)), St(y, Res(b, 1))>>,
     Copy(b, y, x),
     <<Ld(x), St(x, Const(b)), Ld(x)>>,
     Copy(b, x, y),
     Copy(b, x, z),
     Copy(b, z, x) \o <<Ld(z), Ld(p)>> >>

If        == <<{2, 3}, {3}, {}>>
IfElse    == <<{2, 4}, {3}, {}, {3}>>
While     == <<{2}, {3, 4}, {2}, {}>>
WhileIf   == <<{2}, {3, 4}, {5, 6}, {}, {6}, {2}>>
DeadTail  == <<{2, 4}, {}, {}, {}>>

\* The functions with graph succ, one of the entry blocks and one of the
\* first n statements in each other block.
Funcs(succ, entries, n) ==
  {[succ |-> succ,
    code |-> [b \in DOMAIN succ |-> IF b = 1 THEN e ELSE Stmts(b)[c[b]]]] :
      e \in entries, c \in [DOMAIN succ \ {1} -> 1..n]}

SomeFuncs ==
  Funcs(If, {InitXY, Param}, 8)
    \cup Funcs(IfElse, {InitXY}, 8)
    \cup Funcs(IfElse, {Param}, 5)
    \cup Funcs(While, {InitXY}, 8)
    \cup Funcs(While, {Param}, 5)
    \cup Funcs(WhileIf, {InitXY}, 3)
    \cup Funcs(DeadTail, {InitXY}, 3)

\*    int x; if (input()) x = 2; else ; return 0;
OneSided ==
  {[succ |-> IfElse,
    code |-> <<Param, <<St(x, Const(2))>>, <<>>, <<>> >>]}
=============================================================================
