-------------------------------- MODULE MCGVN --------------------------------
(***************************************************************************)
(* Functions int f(int A, int B) for GVN, with the blocks in the order in  *)
(* which CminusfBuilder makes them and phi operands in the order of the    *)
(* predecessors.                                                           *)
(***************************************************************************)
EXTENDS GVNRun

A      == <<"arg", 1>>
B      == <<"arg", 2>>
N(n)   == Const(n, "i32")
I(n)   == <<"ins", n>>
To(b)  == <<"block", b>>
G      == <<"global", "g">>

Ins(id, e)         == [id |-> id, op |-> e[1], args |-> Tail(e)]
Phi(id, v, b, w, c) == Ins(id, <<"phi", v, To(b), w, To(c)>>)
Br(b)              == Ins(0, <<"br", To(b)>>)
CondBr(v, b, c)    == Ins(0, <<"condbr", v, To(b), To(c)>>)
Call(f, as)        == <<"call", <<"func", f>>>> \o as
Output(v)          == Ins(0, Call("output", <<v>>))
Ret(v)             == Ins(0, <<"ret", v>>)
Fn(blocks, pre)    == [blocks |-> blocks, pre |-> pre]

AddAB == <<"add", A, B>>
SubAB == <<"sub", A, B>>
Two   == <<"add", N(1), N(1)>>
Three == <<"add", N(2), N(1)>>
Square(v) == Call("square", <<v>>)
Input  == Call("input", <<>>)

\* if (A < B) { x; y; z = x op y } else { ... }: z is redundant with x op y
\* after the join if the operations agree.
Diamond(x1, y1, z1, x2, y2, z2, op, last) ==
  Fn(<<<<Ins(1, <<"lt", A, B>>), CondBr(I(1), 2, 4)>>,
       <<Ins(2, x1), Ins(3, y1), Ins(4, <<z1, I(2), I(3)>>), Br(3)>>,
       <<Phi(8, I(2), 2, I(5), 4), Phi(9, I(3), 2, I(6), 4), Phi(10, I(4), 2, I(7), 4),
         Ins(11, <<op, I(8), I(9)>>), Ins(12, last),
         Output(I(10)), Output(I(11)), Output(I(12)), Ret(I(8))>>,
       <<Ins(5, x2), Ins(6, y2), Ins(7, <<z2, I(5), I(6)>>), Br(3)>>>>,
     <<<<>>, <<1>>, <<2, 4>>, <<1>>>>)

Diamonds ==
  {Diamond(x1, y1, z1, x2, y2, z2, "add", last) :
     x1 \in {AddAB, Two, Square(A)}, x2 \in {AddAB, Two, Input},
     y1 \in {SubAB, Three}, y2 \in {SubAB, Three}, z1 \in {"add", "sub"},
     z2 \in {"add", "sub"}, last \in {AddAB, <<"add", I(9), I(8)>>, Square(A)}}
  \cup
  {Diamond(x1, SubAB, z1, x2, AddAB, z2, op, last) :
     x1 \in {AddAB, Two, Input}, x2 \in {AddAB, Two}, op \in {"sub", "mul"},
     z1 \in {"mul", "sub"}, z2 \in {"mul", "sub"},
     last \in {Two, <<"sub", I(8), I(9)>>, Three}}

\* The same with constants on both sides and another operation than the one
\* the constants were computed with.
FoldedDiamonds ==
  {Diamond(Two, Two, "add", Three, Three, "add", op, AddAB) : op \in {"sub", "mul"}}

\* Phis of constants, arguments and the values of the branches.
Plain == {N(0), N(2), A}
PlainDiamonds ==
  {Fn(<<<<Ins(1, <<"lt", A, B>>), CondBr(I(1), 2, 4)>>,
        <<Ins(2, Two), Br(3)>>,
        <<Phi(8, v1, 2, w1, 4), Phi(9, v2, 2, w2, 4),
          Ins(10, <<"add", I(8), I(9)>>), Ins(11, <<"add", I(9), I(9)>>), Ins(12, Two),
          Output(I(10)), Output(I(11)), Output(I(12)), Ret(I(9))>>,
        <<Ins(5, Two), Br(3)>>>>,
      <<<<>>, <<1>>, <<2, 4>>, <<1>>>>) :
     v1 \in Plain \cup {I(2)}, w1 \in Plain \cup {I(5)},
     v2 \in Plain \cup {I(2)}, w2 \in Plain \cup {I(5)}}

\* while (x < 3) { y; w }, with phis x and z that advance and copy.
Loop(first, second, y, w, exit) ==
  Fn(<<<<Ins(1, AddAB), Br(2)>>,
       <<first, second,
         Ins(4, <<"lt", I(2), N(3)>>), CondBr(I(4), 3, 4)>>,
       <<Ins(5, y), Ins(6, w), Output(I(6)), Br(2)>>,
       <<Ins(7, exit), Ins(8, AddAB), Output(I(7)), Output(I(8)), Ret(I(3))>>>>,
     <<<<>>, <<1, 3>>, <<2>>, <<2>>>>)

XPhi(init)       == Phi(2, init, 1, I(5), 3)
ZPhi(init, back) == Phi(3, init, 1, back, 3)

\* A phi that reads another one is before it in the block.
Loops ==
  {Loop(ZPhi(i2, back), XPhi(i1), y, w, exit) :
     i1 \in {N(0), A}, i2 \in {N(0), N(1), A},
     y \in {<<"add", I(2), N(1)>>, <<"add", I(3), N(1)>>, <<"add", I(2), I(3)>>},
     w \in {<<"add", I(3), N(1)>>, <<"add", I(2), I(2)>>},
     back \in {I(6), I(2), I(3), N(0)},
     exit \in {<<"add", I(2), N(1)>>, <<"add", I(3), I(2)>>}}

\* The phi that reads the other one comes after it, as mem2reg inserts them
\* for  int z; int x; z = A; x = A; while (x < 3) { .. z + 1; z = x; x = x + 1; }
OrderedLoops ==
  {Loop(XPhi(i1), ZPhi(i1, I(2)), <<"add", I(2), N(1)>>, <<"add", I(3), N(1)>>, AddAB) :
     i1 \in {N(0), A}}

\* while (x < 4) { if (x < B) t; ... }: a join inside the loop.
LoopIfs ==
  {Fn(<<<<Ins(1, Two), Br(2)>>,
        <<Phi(2, N(0), 1, I(9), 6), Phi(3, i2, 1, I(8), 6),
          Ins(4, <<"lt", I(2), N(4)>>), CondBr(I(4), 3, 4)>>,
        <<Ins(5, <<"add", I(3), N(1)>>), Ins(6, <<"lt", I(2), B>>), CondBr(I(6), 5, 6)>>,
        <<Ins(10, e), Output(I(10)), Ret(I(3))>>,
        <<Ins(7, t), Br(6)>>,
        <<Phi(8, v, 3, I(7), 5), Ins(9, <<"add", I(2), N(1)>>), Ins(11, u),
          Output(I(11)), Br(2)>>>>,
      <<<<>>, <<1, 6>>, <<2>>, <<2>>, <<3>>, <<3, 5>>>>) :
     i2 \in {N(0), A}, t \in {<<"add", I(3), N(1)>>, Two, <<"add", I(2), N(1)>>},
     v \in {I(3), I(5), N(2)}, e \in {<<"add", I(2), I(3)>>, Two},
     u \in {<<"add", I(3), N(1)>>, <<"add", I(8), I(9)>>}}

\* A diamond in each branch of a diamond: the operands of phis are phis.
Nested(x, y, op, last) ==
  LET Inner(b, id, back) ==       \* blocks b, b + 1, b + 2, phis id + 4 ..
        <<<<Ins(id, x), Ins(id + 1, y), Br(b + 1)>>,
          <<Phi(id + 4, I(id), b, I(id + 2), b + 2), Phi(id + 5, I(id + 1), b, I(id + 3), b + 2),
            Ins(id + 6, <<op, I(id + 4), I(id + 5)>>), Br(3)>>,
          <<Ins(id + 2, y), Ins(id + 3, x), Br(b + 1)>>>>
  IN
  Fn(<<<<Ins(1, <<"lt", A, B>>), CondBr(I(1), 2, 4)>>,
       <<Ins(2, <<"lt", A, N(0)>>), CondBr(I(2), 5, 7)>>,
       <<Phi(30, I(14), 6, I(24), 9), Phi(31, I(15), 6, I(25), 9), Phi(32, I(16), 6, I(26), 9),
         Ins(33, <<op, I(30), I(31)>>), Ins(34, last),
         Output(I(33)), Output(I(34)), Ret(I(32))>>,
       <<Ins(3, <<"lt", B, N(0)>>), CondBr(I(3), 8, 10)>>>>
       \o Inner(5, 10, 3) \o Inner(8, 20, 3),
     <<<<>>, <<1>>, <<6, 9>>, <<1>>, <<2>>, <<5, 7>>, <<2>>, <<4>>, <<8, 10>>, <<4>>>>)

Nesteds ==
  {Nested(x, y, op, last) : x \in {AddAB, Square(A)}, y \in {SubAB, Input},
                            op \in {"add", "mul"},
                            last \in {<<"add", I(30), I(31)>>, AddAB, <<"sub", I(32), I(32)>>}}

\* Straight-line code with every other kind of instruction.
Others ==
  {Fn(<<<<Ins(1, <<"alloca">>), Ins(2, <<"gep", I(1), N(0), A>>),
          Ins(3, <<"gep", I(1), N(0), w>>), Ins(0, <<"store", B, I(2)>>),
          Ins(4, <<"load", I(2)>>), Ins(0, <<"store", N(7), I(3)>>),
          Ins(5, <<"load", I(3)>>), Ins(6, <<"load", I(2)>>),
          Ins(7, <<"sitofp", I(4)>>), Ins(8, <<"sitofp", v>>),
          Ins(9, <<"fadd", I(7), I(8)>>), Ins(10, <<"fptosi", I(9)>>),
          Ins(11, <<"sitofp", N(3)>>), Ins(12, <<"fptosi", I(11)>>),
          Ins(13, <<"eq", I(12), N(3)>>), Ins(14, <<"zext", I(13)>>),
          Ins(15, <<"load", G>>), Ins(0, <<"store", I(14), G>>), Ins(16, <<"load", G>>),
          Ins(17, c), Ins(18, Square(I(12))), Ins(19, Input), Ins(20, Input),
          Output(I(5)), Output(I(6)), Output(I(10)), Output(I(15)), Output(I(16)),
          Output(I(17)), Output(I(18)), Output(I(19)), Output(I(20)), Ret(I(14))>>>>,
      <<<<>>>>) :
     w \in {A, B}, v \in {I(4), I(5), B},
     c \in {Square(B), Square(N(3)), <<"ge", I(4), B>>, <<"fdiv", I(7), I(11)>>}}

AllFunctions == Diamonds \cup PlainDiamonds \cup Loops \cup LoopIfs \cup Nesteds \cup Others

GlobalList == <<"g">>
Pure       == {<<"func", "square">>}
AllHeaps   == BOOLEAN \X BOOLEAN
SomeInputs == {<<1, 2>>, <<2, 1>>, <<-1, 3>>, <<0, -1>>}
=============================================================================
