---------------------------- MODULE MCDominators ----------------------------
(***************************************************************************)
(* Instances of Dominators for TLC.                                        *)
(***************************************************************************)
EXTENDS Dominators

\* Every graph a br or ret at the end of each block can form when no block
\* branches to the entry, and no reachable block is the target of an
\* unreachable one.  Irreducible graphs and unreachable parts are included.
AllGraphs ==
  {g \in [Block -> {s \in SUBSET (Block \ {Root}) : Cardinality(s) <= 2}] :
     LET r == ReachableIn(g) IN \A b \in r : PredIn(g, b) \subseteq r}

\* The blocks CminusfBuilder makes of
\*    if (a) { if (b) return 1; else return 2; } return 0;
\* in creation order: entry, outer true, outer continuation, inner true,
\* inner continuation, inner false.  No block branches to the inner
\* continuation, which branches to the outer one.
BothReturn ==
  {<<{2, 3}, {4, 6}, {}, {}, {3}, {}>>}
=============================================================================
