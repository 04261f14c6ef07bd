------------------------------- MODULE GVNRun --------------------------------
(***************************************************************************)
(* The function of GVN before and after the pass, executed.  Memory maps   *)
(* an address, <<base, offset>>, to a number.  A value that is read before *)
(* it is defined ends the execution, so a leader that does not dominate a  *)
(* use it was put in shows.                                                *)
(***************************************************************************)
EXTENDS GVN

CONSTANTS
  Inputs,       \* values of the arguments
  Fuel          \* blocks an execution may enter

RECURSIVE Exec(_, _, _, _, _)

\* Execute f from instruction k of block b on, with the state
\* [env, mem, read, out, fuel].
Exec(f, b, k, s, args) ==
  LET x      == f.blocks[b][k]
      Known(v) == v[1] = "ins" => v \in DOMAIN s.env
      V(v)   == CASE v[1] = "const"  -> v[2]
                  [] v[1] = "arg"    -> args[v[2]]
                  [] v[1] = "global" -> <<v, 0>>
                  [] OTHER           -> s.env[v]
      a(n)   == V(x.args[n])
      Set(v) == Exec(f, b, k + 1, [s EXCEPT !.env = (Result(x) :> v) @@ @], args)
      On(t)  == Exec(f, b, k + 1, t, args)
      Stop(how) == [how |-> how, out |-> s.out]
      \* The phis of block t read their operands together.
      Enter(t) ==
        LET phis == {y \in Range(f.blocks[t]) : y.op = "phi"}
            Arg(y) == IF y.args[2] = <<"block", b>> THEN y.args[1] ELSE y.args[3]
            new  == [r \in {Result(y) : y \in phis} |->
                       V(Arg(CHOOSE y \in phis : Result(y) = r))]
        IN  IF s.fuel = 0 THEN Stop(<<"fuel">>)
            ELSE IF \E y \in phis : ~Known(Arg(y)) THEN Stop(<<"undefined value">>)
            ELSE Exec(f, t, Cardinality(phis) + 1,
                      [s EXCEPT !.env = new @@ @, !.fuel = @ - 1], args)
  IN
  IF \E n \in DOMAIN x.args : ~Known(x.args[n]) THEN Stop(<<"undefined value">>)
  ELSE
  CASE x.op \in BinaryOps \cup CompareOps -> Set(Value2(x.op, a(1), a(2)))
    [] x.op \in ConvertOps -> Set(Value1(x.op, a(1)))
    [] x.op = "alloca" -> Set(<<Result(x), 0>>)
    [] x.op = "gep"    -> Set(<<a(1)[1], a(1)[2] + a(Len(x.args))>>)
    [] x.op = "load"   -> Set(IF a(1) \in DOMAIN s.mem THEN s.mem[a(1)] ELSE 0)
    [] x.op = "store"  -> On([s EXCEPT !.mem = (a(2) :> a(1)) @@ @])
    [] x.op = "br"     -> Enter(x.args[1][2])
    [] x.op = "condbr" -> Enter(IF a(1) # 0 THEN x.args[2][2] ELSE x.args[3][2])
    [] x.op = "ret"    -> Stop(<<"return", a(1)>>)
    [] x.op = "call"   ->
         CASE x.args[1][2] = "output" -> On([s EXCEPT !.out = Append(@, a(2))])
           [] x.args[1][2] = "input"  ->
                Exec(f, b, k + 1, [s EXCEPT !.env = (Result(x) :> s.read) @@ @,
                                            !.read = @ + 1], args)
           [] x.args[1][2] = "square" -> Set(a(2) * a(2))

Run(f, args) ==
  Exec(f, 1, 1, [env |-> << >>, mem |-> << >>, read |-> 3, out |-> <<>>, fuel |-> Fuel],
       args)

\* The function does after the pass what it did before: on every input, the
\* same output and the same value returned.  A member that was replaced must
\* have been equal to its leader on every path, through joins that rounds of
\* optimistic assumptions led to, and the leader must be defined there.
SameBehaviour ==
  pc = "done" => \A args \in Inputs : Run(fn, args) = Run(source, args)
=============================================================================
