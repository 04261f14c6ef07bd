---------------------------- MODULE MCLinearScan ----------------------------
(***************************************************************************)
(* Instances of LinearScan for TLC.                                        *)
(***************************************************************************)
EXTENDS LinearScan

\* The definitions are the instructions 1..V; what counts of a last use is
\* its order among them, up to LastUse.
LastUse == V + 1

LastUses == {f \in [Var -> 1..LastUse] : \A v \in Var : f[v] >= v}

\* offset_ starts at 16, for the return address and the frame pointer.
FrameBase == 16

\* The tables of V values with the given classes, of which the first is an
\* array of the given size.
TablesOf(classes, sizes) ==
  {[list |-> [v \in Var |->
                [def |-> v, end |-> e[v], cls |-> c[v],
                 size |-> IF v = 1 THEN n ELSE 0,
                 offset |-> IF v = 1 /\ n > 0 THEN FrameBase + n ELSE 0]],
    offset |-> FrameBase + n] :
     e \in LastUses, c \in [Var -> classes], n \in sizes}

AllTables   == {t \in TablesOf(Class, {0, 12}) :
                  t.list[1].size > 0 => t.list[1].cls = "int"}
ArrayTables == TablesOf({"int"}, {12})
=============================================================================
