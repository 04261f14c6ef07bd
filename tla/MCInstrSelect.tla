--------------------------- MODULE MCInstrSelect ---------------------------
(***************************************************************************)
(* Instances of InstrSelect for TLC.                                       *)
(***************************************************************************)
EXTENDS InstrSelect, TLC

\* The least and the largest word, zero, one and another negative word.
FewWords == {-8, -3, 0, 1, 7}

FewInputs == {f \in [Value \ {"d"} -> FewWords \cup {5}] :
                f["z"] = 5 /\ f["x"] # 5 /\ f["y"] # 5}

Places == {h \in [Value -> Regs \cup {Spilled}] :
             \A u, v \in Value : u # v /\ h[u] = h[v] /\ h[u] # Spilled
                                 => {u, v} \in {{"x", "d"}, {"y", "d"}}}

Case(o, l, r, n, h, s) == [op |-> o, l |-> l, r |-> r, con |-> n, home |-> h, list |-> s]

\* One value, also when it is both operands, or none.
OneOperand(ops) ==
  {Case(o, p[1], p[2], n, h, s) :
     o \in ops, p \in {<<"x", "con">>, <<"con", "x">>}, n \in Word,
     h \in {g \in Places : g["y"] = Spilled},
     s \in {<<"x", "z", "d">>, <<"z", "d", "x">>}}

SameOperands(ops) ==
  {Case(o, p[1], p[1], n, h, <<"x", "z", "d">>) :
     o \in ops, p \in {<<"x">>, <<"con">>}, n \in {-3, 1},
     h \in {g \in Places : g["y"] = Spilled}}

TwoOperands(ops) ==
  {Case(o, "x", "y", 0, h, s) :
     o \in ops, h \in Places,
     s \in {<<"x", "y", "z", "d">>, <<"y", "z", "x", "d">>, <<"x", "d", "y", "z">>}}

AllOps == IntOp \cup FloatOp \cup CmpOp

AllCases == OneOperand(AllOps) \cup SameOperands(AllOps) \cup TwoOperands(AllOps)

GreaterThanCases == {c \in TwoOperands({"GT"}) : HasCode(c)}

Symmetry == Permutations(Regs)
=============================================================================
