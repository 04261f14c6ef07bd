----------------------------- MODULE MCDeadCode -----------------------------
(***************************************************************************)
(* Programs for DeadCode: call graphs, def-use graphs and address chains.  *)
(***************************************************************************)
EXTENDS DeadCode

Function(d, m, a) == [decl |-> d, main |-> m, array |-> a]
Declared == Function(TRUE, FALSE, FALSE)
Main     == Function(FALSE, TRUE, FALSE)
Plain    == Function(FALSE, FALSE, FALSE)
TakesArray == Function(FALSE, FALSE, TRUE)

Instr(f, k, o, b, c) == [fn |-> f, kind |-> k, ops |-> o, base |-> b, callee |-> c]

Program(fs, is) == [fns |-> Len(fs), fun |-> fs, size |-> Len(is), ins |-> is]

\* Three calls among three functions and a library function.
Calls == {Instr(f, "call", {}, 0, c) : f \in 2..4, c \in 1..4}
CallGraphs ==
  {Program(<<Declared, Plain, Plain, g>>, <<x, y, z>>) :
     g \in {Plain, TakesArray}, x \in Calls, y \in Calls, z \in Calls}

\* A function with two values (which may be phis in a cycle), a third one or a
\* call of a pure or impure function, and a terminator that uses some of them.
Few == {S \in SUBSET (1..3) : Cardinality(S) <= 2}
Value(k) == {Instr(2, k, o, 0, IF k = "call" THEN 1 ELSE 0) : o \in Few}
DefUses ==
  {Program(<<f, Plain>>, <<x, y, z, Instr(2, IF f.decl THEN "ret" ELSE "br", o, 0, 0)>>) :
     f \in {Declared, Plain}, x \in Value("op"), y \in Value("op"),
     z \in Value("op") \cup Value("call"), o \in SUBSET (1..3)}

\* Address computations in a function that main calls.
Addressed(i) ==
  {Instr(2, k, {b} \ {0}, b, 0) : k \in {"gep", "load", "store", "op"}, b \in 0..(i - 1)}
    \cup {Instr(2, "alloca", {}, 0, 0)}
Addresses ==
  {Program(<<Declared, Plain, Main>>, <<x, y, z, Instr(3, "call", {}, 0, 2)>>) :
     x \in Addressed(1), y \in Addressed(2), z \in Addressed(3)}

AllPrograms == CallGraphs \cup DefUses \cup Addresses
=============================================================================
