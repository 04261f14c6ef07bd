------------------------------ MODULE FlowGraph ------------------------------
(***************************************************************************)
(* Reference definitions on control-flow graphs: reachability, dominance   *)
(* by paths, the dominator tree and the dominance frontier.  A graph is a  *)
(* function from blocks to their sets of successors; its entry is block 1. *)
(* They are what the pass of module Dominators must compute, and what the  *)
(* passes that run after it read.                                          *)
(***************************************************************************)
EXTENDS Integers, FiniteSets

Entry == 1

PredIn(g, b) == {p \in DOMAIN g : b \in g[p]}

\* The blocks the entry reaches along paths that do not enter block a.
ReachAvoidingIn(g, a) ==
  LET R[k \in 0..Cardinality(DOMAIN g)] ==
        IF k = 0 THEN {Entry} \ {a}
        ELSE LET r == R[k - 1] IN r \cup ((UNION {g[b] : b \in r}) \ {a})
  IN  R[Cardinality(DOMAIN g)]

ReachableIn(g) == ReachAvoidingIn(g, 0)

\* Every path from the entry to the reachable block b goes through a.
DomIn(g, a, b)  == b \in ReachableIn(g) /\ b \notin ReachAvoidingIn(g, a)
SDomIn(g, a, b) == a # b /\ DomIn(g, a, b)

\* a is the closest strict dominator of b.
IsIdomIn(g, a, b) ==
  SDomIn(g, a, b) /\ \A c \in DOMAIN g : SDomIn(g, c, b) => DomIn(g, c, a)

\* The blocks just outside what b dominates.
FrontierIn(g, b) ==
  {y \in ReachableIn(g) : /\ \E p \in PredIn(g, y) : DomIn(g, b, p)
                          /\ ~SDomIn(g, b, y)}

\* The children of a in the dominator tree.
ChildrenIn(g, a) == {b \in DOMAIN g : IsIdomIn(g, a, b)}
=============================================================================
